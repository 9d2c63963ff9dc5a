------------------------- MODULE OrderServiceProofs -------------------------
(***************************************************************************)
(* Proofs about OrderService, for all values of its constants: the type    *)
(* invariant, the safety invariants the runs check, and the refinement of  *)
(* OrderSaga.                                                              *)
(***************************************************************************)
EXTENDS OrderService, SequenceTheorems, FiniteSetTheorems, TLAPS

Rows == [order : Orders, type : OrderEvents, sent : BOOLEAN]

HandlerStates == [pc : HandlerPCs, offset : Nat, version : Nat, attempt : Nat]

\* Steps for any number of results: Next without the bound on the topics.
AnyResult(o, t) ==
    /\ o \in Published("order.created")
    /\ log' = [log EXCEPT ![t] = Append(@, o)]
    /\ UNCHANGED <<db, workerTx, group, handler, faults>>

OpenNext ==
    \/ \E o \in Orders : CreateOrder(o)
    \/ \E w \in Workers : WorkerStep(w) \/ PublishUnacked(w) \/ Rollback(w)
    \/ \E o \in Orders, t \in ResultTopics : AnyResult(o, t)
    \/ \E i \in Instances, t \in ResultTopics :
            HandlerStep(i, t) \/ HandlerFault(i, t)
    \/ \E i \in Instances : Restart(i)

LEMMA BoundedIsOpen == [Next]_vars => [OpenNext]_vars
BY DEF Next, OpenNext, StockResult, AnyResult

-----------------------------------------------------------------------------
(* Facts about sequences and groups *)

\* What a topic holds after one more message (Publish, StockResult).
LEMMA RangeAppend ==
    ASSUME NEW S, NEW s \in Seq(S), NEW e \in S
    PROVE  {Append(s, e)[k] : k \in DOMAIN Append(s, e)}
             = {s[k] : k \in DOMAIN s} \cup {e}
<1>1. /\ Len(Append(s, e)) = Len(s) + 1
      /\ DOMAIN Append(s, e) = 1..(Len(s) + 1)
      /\ DOMAIN s = 1..Len(s)
      /\ Len(s) \in Nat
      /\ \A k \in 1..Len(s) : Append(s, e)[k] = s[k]
      /\ Append(s, e)[Len(s) + 1] = e
  BY AppendProperties, LenProperties
<1> QED
  BY <1>1

\* A sequence whose elements are replaced one by one is a sequence (CommitBatch).
LEMMA SeqOfSameDomain ==
    ASSUME NEW S, NEW s \in Seq(S), NEW f,
           f = [k \in DOMAIN s |-> f[k]], \A k \in DOMAIN s : f[k] \in S
    PROVE  f \in Seq(S) /\ DOMAIN f = DOMAIN s
<1>1. PICK n \in Nat : s \in [1..n -> S]
  BY SeqDef
<1>2. f \in [1..n -> S]
  BY <1>1
<1> QED
  BY <1>1, <1>2, SeqDef

\* The group operators keep a group a group.
LEMMA GroupTyping ==
    ASSUME NEW M, NEW g, IsGroup(g, M), NEW m \in M, NEW k \in Nat
    PROVE  /\ IsGroup(NewGroup(m), M)
           /\ IsGroup(Deliver(g), M)
           /\ IsGroup(CommitOffset(g, k), M)
           /\ IsGroup(Reassign(g, m), M)
<1>1. g = [owner |-> g.owner, position |-> g.position, committed |-> g.committed]
      /\ g.owner \in M /\ g.position \in Nat /\ g.committed \in Nat
  BY DEF IsGroup
<1>2. IsGroup(NewGroup(m), M)
  BY DEF IsGroup, NewGroup
<1>3. IsGroup(Deliver(g), M)
  BY <1>1 DEF IsGroup, Deliver
<1>4. IsGroup(CommitOffset(g, k), M)
  BY <1>1 DEF IsGroup, CommitOffset
<1>5. IsGroup(Reassign(g, m), M)
  BY <1>1 DEF IsGroup, Reassign
<1> QED
  BY <1>2, <1>3, <1>4, <1>5

-----------------------------------------------------------------------------
(* Type correctness *)

\* Initially every variable has its type.
LEMMA InitType == Init => TypeOK
<1> SUFFICES ASSUME Init PROVE TypeOK
  OBVIOUS
<1>1. \A t \in ResultTopics : IsGroup(group[t], Instances)
  BY GroupTyping DEF Init, IsGroup, NewGroup
<1>2. log \in [Topics -> Seq(Orders)]
  BY EmptySeq DEF Init
<1>3. outbox \in Seq(Rows)
  BY EmptySeq DEF Init
<1>4. handler \in [Instances -> [ResultTopics -> HandlerStates]]
  BY DEF Init, Idle, HandlerStates, HandlerPCs
<1> QED
  BY <1>1, <1>2, <1>3, <1>4 DEF Init, TypeOK, Rows, HandlerStates, Idle

\* A message appended to any topic keeps log and handlers typed.
LEMMA AppendType ==
    ASSUME TypeOK, NEW t \in Topics, NEW o \in Orders,
           log' = [log EXCEPT ![t] = Append(@, o)]
    PROVE  /\ log' \in [Topics -> Seq(Orders)]
           /\ \A u \in Topics : DOMAIN log[u] \subseteq DOMAIN (log'[u])
<1>1. log \in [Topics -> Seq(Orders)]
  BY DEF TypeOK
<1>2. log[t] \in Seq(Orders)
  BY <1>1
<1>3. /\ Append(log[t], o) \in Seq(Orders)
      /\ DOMAIN log[t] \subseteq DOMAIN Append(log[t], o)
  BY <1>2, AppendProperties, LenProperties
<1> QED
  BY <1>1, <1>3

\* A row appended to the outbox keeps it, the batches and the marks typed.
LEMMA OutboxAppendType ==
    ASSUME TypeOK, NEW o \in Orders, NEW type \in OrderEvents,
           outbox' = Append(outbox, PendingRow(o, type))
    PROVE  /\ outbox' \in Seq(Rows)
           /\ DOMAIN outbox \subseteq DOMAIN outbox'
           /\ DOMAIN outbox = 1..Len(outbox)
           /\ DOMAIN outbox' = 1..(Len(outbox) + 1)
           /\ Len(outbox) \in Nat
           /\ \A r \in DOMAIN outbox : outbox'[r] = outbox[r]
           /\ outbox'[Len(outbox) + 1] = PendingRow(o, type)
<1>1. PendingRow(o, type) \in Rows
  BY DEF PendingRow, Rows
<1>2. outbox \in Seq(Rows)
  BY DEF TypeOK, Rows
<1> QED
  BY <1>1, <1>2, AppendProperties, LenProperties

\* Every outbox row is a row.
LEMMA RowType ==
    ASSUME TypeOK
    PROVE  \A r \in DOMAIN outbox :
              /\ outbox[r] \in Rows
              /\ outbox[r].order \in Orders
              /\ outbox[r].type \in OrderEvents
              /\ outbox[r].sent \in BOOLEAN
<1>1. outbox \in Seq(Rows)
  BY DEF TypeOK, Rows
<1>2. \A r \in DOMAIN outbox : outbox[r] \in Rows
  BY <1>1, ElementOfSeq, LenProperties
<1> QED
  BY <1>2 DEF Rows

\* Changing the state of one goroutine leaves the others alone.
LEMMA SetHandlerType ==
    ASSUME handler \in [Instances -> [ResultTopics -> HandlerStates]],
           NEW i \in Instances, NEW t \in ResultTopics, NEW h \in HandlerStates,
           SetHandler(i, t, h)
    PROVE  /\ handler' \in [Instances -> [ResultTopics -> HandlerStates]]
           /\ handler'[i][t] = h
           /\ \A j \in Instances, u \in ResultTopics :
                 (j # i \/ u # t) => handler'[j][u] = handler[j][u]
  BY DEF SetHandler

\* The states a goroutine can be put into are typed.
LEMMA HandlerStateType ==
    ASSUME NEW h \in HandlerStates, NEW n \in Nat
    PROVE  /\ Idle \in HandlerStates
           /\ [Idle EXCEPT !.pc = "get", !.offset = n] \in HandlerStates
           /\ [h EXCEPT !.pc = "update", !.version = n] \in HandlerStates
           /\ [h EXCEPT !.pc = "commit"] \in HandlerStates
           /\ [h EXCEPT !.pc = "get", !.attempt = @ + 1] \in HandlerStates
<1>1. h = [pc |-> h.pc, offset |-> h.offset, version |-> h.version, attempt |-> h.attempt]
      /\ h.pc \in HandlerPCs /\ h.offset \in Nat /\ h.version \in Nat /\ h.attempt \in Nat
  BY DEF HandlerStates
<1>2. Idle \in HandlerStates
  BY DEF Idle, HandlerStates, HandlerPCs
<1>3. [Idle EXCEPT !.pc = "get", !.offset = n] \in HandlerStates
  BY DEF Idle, HandlerStates, HandlerPCs
<1>4. [h EXCEPT !.pc = "update", !.version = n] \in HandlerStates
  BY <1>1 DEF HandlerStates, HandlerPCs
<1>5. [h EXCEPT !.pc = "commit"] \in HandlerStates
  BY <1>1 DEF HandlerStates, HandlerPCs
<1>6. \A m \in Nat : [h EXCEPT !.pc = "get", !.attempt = m] \in HandlerStates
  BY <1>1 DEF HandlerStates, HandlerPCs
<1>7. h.attempt + 1 \in Nat
  BY <1>1
<1>8. [h EXCEPT !.pc = "get", !.attempt = @ + 1] \in HandlerStates
  BY <1>6, <1>7
<1> QED
  BY <1>2, <1>3, <1>4, <1>5, <1>8

\* A fault is counted.
LEMMA FaultType ==
    ASSUME faults \in [FaultKinds -> Nat], NEW k \in FaultKinds, Fault(k)
    PROVE  faults' \in [FaultKinds -> Nat]
  BY DEF Fault

\* Goroutine steps keep the types: the part that concerns handler.
LEMMA HandlerOffsets ==
    ASSUME TypeOK, UNCHANGED log,
           NEW i \in Instances, NEW t \in ResultTopics, NEW h \in HandlerStates,
           SetHandler(i, t, h),
           h.pc # "idle" => h.offset \in DOMAIN log[t]
    PROVE  /\ handler' \in [Instances -> [ResultTopics -> HandlerStates]]
           /\ \A j \in Instances, u \in ResultTopics :
                 handler'[j][u].pc # "idle" => handler'[j][u].offset \in DOMAIN log'[u]
<1>1. handler \in [Instances -> [ResultTopics -> HandlerStates]]
  BY DEF TypeOK, HandlerStates
<1>2. /\ handler' \in [Instances -> [ResultTopics -> HandlerStates]]
      /\ handler'[i][t] = h
      /\ \A j \in Instances, u \in ResultTopics :
            (j # i \/ u # t) => handler'[j][u] = handler[j][u]
  BY <1>1, SetHandlerType
<1> QED
  BY <1>2 DEF TypeOK

\* Each action keeps the types.
LEMMA NextType == TypeOK /\ [OpenNext]_vars => TypeOK'
<1> SUFFICES ASSUME TypeOK, [OpenNext]_vars PROVE TypeOK'
  OBVIOUS
<1> USE DEF Rows, HandlerStates
<1>0. handler \in [Instances -> [ResultTopics -> HandlerStates]]
  BY DEF TypeOK
<1>1. ASSUME NEW o \in Orders, CreateOrder(o) PROVE TypeOK'
  <2>1. "order.created" \in OrderEvents
    BY DEF OrderEvents
  <2>2. outbox' = Append(outbox, PendingRow(o, "order.created"))
    BY <1>1 DEF CreateOrder
  <2>3. outbox' \in Seq(Rows) /\ DOMAIN outbox \subseteq DOMAIN outbox'
    BY <2>1, <2>2, OutboxAppendType
  <2>4. status' \in [Orders -> Statuses \cup {NoOrder}] /\ version' \in [Orders -> Nat]
    BY <1>1 DEF CreateOrder, TypeOK, Statuses
  <2> QED
    BY <1>1, <2>3, <2>4 DEF CreateOrder, TypeOK, workerTx
<1>2. ASSUME NEW w \in Workers, fetchPendingTx(w) PROVE TypeOK'
  <2>1. Fetchable \in SUBSET (DOMAIN outbox)
    BY DEF Fetchable, Oldest, Pending
  <2> QED
    BY <1>2, <2>1 DEF fetchPendingTx, TypeOK, db
<1>3. ASSUME NEW t \in Topics, NEW o \in Orders,
             log' = [log EXCEPT ![t] = Append(@, o)],
             UNCHANGED <<db, batch, group, handler>>,
             marked' \in [Workers -> SUBSET (DOMAIN outbox)],
             faults' \in [FaultKinds -> Nat]
      PROVE  TypeOK'
  <2>1. /\ log' \in [Topics -> Seq(Orders)]
        /\ \A u \in Topics : DOMAIN log[u] \subseteq DOMAIN (log'[u])
    BY <1>3, AppendType
  <2>2. ResultTopics \subseteq Topics
    BY DEF Topics
  <2> QED
    BY <1>3, <2>1, <2>2 DEF TypeOK, db
<1>4. ASSUME NEW r \in DOMAIN outbox
      PROVE  outbox[r].type \in Topics /\ outbox[r].order \in Orders
  BY RowType DEF Topics
<1>5. ASSUME NEW w \in Workers, Publish(w) PROVE TypeOK'
  <2>1. PICK r \in batch[w] : /\ AppendToTopic(r)
                              /\ marked' = [marked EXCEPT ![w] = @ \cup {r}]
                              /\ UNCHANGED <<db, batch, group, handler, faults>>
    BY <1>5 DEF Publish
  <2>2. r \in DOMAIN outbox
    BY DEF TypeOK
  <2>3. marked' \in [Workers -> SUBSET (DOMAIN outbox)]
    BY <2>1, <2>2 DEF TypeOK
  <2> QED
    BY <2>1, <2>2, <2>3, <1>3, <1>4 DEF AppendToTopic, TypeOK
<1>6. ASSUME NEW w \in Workers, PublishUnacked(w) PROVE TypeOK'
  <2>1. PICK r \in batch[w] : /\ AppendToTopic(r)
                              /\ Fault("ack")
                              /\ UNCHANGED <<db, workerTx, group, handler>>
    BY <1>6 DEF PublishUnacked
  <2>2. r \in DOMAIN outbox
    BY DEF TypeOK
  <2>3. faults' \in [FaultKinds -> Nat]
    BY <2>1, FaultType DEF TypeOK, FaultKinds
  <2> QED
    BY <2>1, <2>2, <2>3, <1>3, <1>4 DEF AppendToTopic, TypeOK, workerTx
<1>7. ASSUME NEW w \in Workers, Rollback(w) PROVE TypeOK'
  <2>1. faults' \in [FaultKinds -> Nat]
    BY <1>7, FaultType DEF TypeOK, FaultKinds, Rollback
  <2> QED
    BY <1>7, <2>1 DEF Rollback, TypeOK, db
<1>8. ASSUME NEW w \in Workers, CommitBatch(w) PROVE TypeOK'
  <2>1. \A r \in DOMAIN outbox : outbox'[r] \in Rows
    <3>1. TAKE r \in DOMAIN outbox
    <3>2. outbox'[r] = [outbox[r] EXCEPT !.sent = outbox[r].sent \/ r \in marked[w]]
      BY <1>8 DEF CommitBatch
    <3>3. (outbox[r].sent \/ r \in marked[w]) \in BOOLEAN
      OBVIOUS
    <3>4. outbox[r] \in Rows
      BY RowType
    <3> QED
      BY <3>2, <3>3, <3>4
  <2>2. outbox' = [r \in DOMAIN outbox |-> outbox'[r]]
    BY <1>8 DEF CommitBatch
  <2>3. outbox' \in Seq(Rows) /\ DOMAIN outbox' = DOMAIN outbox
    BY <2>1, <2>2, SeqOfSameDomain DEF TypeOK
  <2>4. status' \in [Orders -> Statuses \cup {NoOrder}] /\ version' \in [Orders -> Nat]
    BY <1>8 DEF CommitBatch, TypeOK, Statuses
  <2>5. /\ batch' \in [Workers -> SUBSET (DOMAIN outbox)]
        /\ marked' \in [Workers -> SUBSET (DOMAIN outbox)]
    BY <1>8 DEF CommitBatch, TypeOK
  <2> QED
    BY <1>8, <2>3, <2>4, <2>5 DEF CommitBatch, TypeOK
<1>9. ASSUME NEW o \in Orders, NEW t \in ResultTopics, AnyResult(o, t) PROVE TypeOK'
  BY <1>9, <1>3 DEF AnyResult, TypeOK, Topics, workerTx
<1>10. ASSUME NEW i \in Instances, NEW t \in ResultTopics
       PROVE  /\ handler[i][t] \in HandlerStates
              /\ IsGroup(group[t], Instances)
              /\ handler[i][t].pc # "idle" => handler[i][t].offset \in DOMAIN log[t]
              /\ log[t] \in Seq(Orders)
              /\ handler[i][t].pc # "idle" => Subject(i, t) \in Orders
  <2>1. log[t] \in Seq(Orders)
    BY DEF TypeOK, Topics
  <2>2. \A k \in DOMAIN log[t] : log[t][k] \in Orders
    BY <2>1, ElementOfSeq
  <2> QED
    BY <2>1, <2>2 DEF TypeOK, Subject
<1>11. ASSUME NEW i \in Instances, NEW t \in ResultTopics, NEW h \in HandlerStates,
              SetHandler(i, t, h),
              h.pc # "idle" => h.offset \in DOMAIN log[t],
              UNCHANGED <<workerTx, log>>,
              status' \in [Orders -> Statuses \cup {NoOrder}],
              version' \in [Orders -> Nat],
              outbox' \in Seq(Rows), DOMAIN outbox \subseteq DOMAIN outbox',
              \A u \in ResultTopics : IsGroup(group[u], Instances)',
              faults' \in [FaultKinds -> Nat]
       PROVE  TypeOK'
  <2>1. /\ handler' \in [Instances -> [ResultTopics -> HandlerStates]]
        /\ \A j \in Instances, u \in ResultTopics :
              handler'[j][u].pc # "idle" => handler'[j][u].offset \in DOMAIN log'[u]
    BY <1>11, HandlerOffsets
  <2> QED
    BY <1>11, <2>1 DEF TypeOK, workerTx
<1>12. ASSUME NEW i \in Instances, NEW t \in ResultTopics, FetchMessage(i, t)
       PROVE  TypeOK'
  <2> DEFINE n == group[t].position + 1
             h == [Idle EXCEPT !.pc = "get", !.offset = n]
  <2>1. n \in Nat /\ n \in DOMAIN log[t]
    BY <1>10, <1>12, LenProperties DEF FetchMessage, HasNext, IsGroup
  <2>2. h \in HandlerStates /\ h.offset = n
    BY <2>1, <1>10, HandlerStateType DEF Idle
  <2>3. SetHandler(i, t, h)
    BY <1>12 DEF FetchMessage
  <2>4. \A u \in ResultTopics : IsGroup(group[u], Instances)'
    <3>1. IsGroup(Deliver(group[t]), Instances)
      BY <1>10, GroupTyping
    <3> QED
      BY <3>1, <1>12 DEF FetchMessage, TypeOK
  <2> QED
    BY <2>1, <2>2, <2>3, <2>4, <1>11, <1>12 DEF FetchMessage, TypeOK, db
<1>13. ASSUME NEW i \in Instances, NEW t \in ResultTopics,
              handler[i][t].pc # "idle", NEW pc \in {"commit", "idle"},
              SetHandler(i, t, IF pc = "idle" THEN Idle
                                              ELSE [handler[i][t] EXCEPT !.pc = "commit"]),
              UNCHANGED <<workerTx, log>>,
              status' \in [Orders -> Statuses \cup {NoOrder}],
              version' \in [Orders -> Nat],
              outbox' \in Seq(Rows), DOMAIN outbox \subseteq DOMAIN outbox',
              \A u \in ResultTopics : IsGroup(group[u], Instances)',
              faults' \in [FaultKinds -> Nat]
       PROVE  TypeOK'
  <2> DEFINE h == IF pc = "idle" THEN Idle ELSE [handler[i][t] EXCEPT !.pc = "commit"]
  <2>1. h \in HandlerStates
    BY <1>10, HandlerStateType
  <2>2. h.pc # "idle" => h.offset \in DOMAIN log[t]
    BY <1>10, <1>13 DEF Idle
  <2> QED
    BY <2>1, <2>2, <1>11, <1>13
<1>14. ASSUME NEW i \in Instances, NEW t \in ResultTopics, GetAndTransition(i, t)
       PROVE  TypeOK'
  <2> DEFINE h == [handler[i][t] EXCEPT !.pc = "update",
                                        !.version = version[Subject(i, t)]]
  <2>1. handler[i][t].pc = "get"
    BY <1>14 DEF GetAndTransition
  <2>2. CASE SetHandler(i, t, h)
    <3>1. version[Subject(i, t)] \in Nat
      BY <1>10, <2>1 DEF TypeOK
    <3>2. h \in HandlerStates /\ h.offset = handler[i][t].offset
      BY <1>10, <3>1, HandlerStateType
    <3> QED
      BY <1>10, <1>11, <1>14, <2>1, <2>2, <3>2 DEF GetAndTransition, TypeOK, db
  <2>3. CASE SetHandler(i, t, [handler[i][t] EXCEPT !.pc = "commit"])
    BY <1>13, <1>14, <2>1, <2>3 DEF GetAndTransition, TypeOK, db
  <2> QED
    BY <2>2, <2>3, <1>14 DEF GetAndTransition
<1>15. ASSUME NEW i \in Instances, NEW t \in ResultTopics,
              handler[i][t].pc # "idle", ApplyVerdict(Subject(i, t), t)
       PROVE  /\ status' \in [Orders -> Statuses \cup {NoOrder}]
              /\ version' \in [Orders -> Nat]
              /\ outbox' \in Seq(Rows)
              /\ DOMAIN outbox \subseteq DOMAIN outbox'
  <2>1. Subject(i, t) \in Orders
    BY <1>10, <1>15
  <2>2. buildStatusEvent(Verdict(t)) \in OrderEvents /\ Verdict(t) \in Statuses
    BY DEF buildStatusEvent, Verdict, OrderEvents, Statuses
  <2>3. outbox' \in Seq(Rows) /\ DOMAIN outbox \subseteq DOMAIN outbox'
    BY <1>15, <2>1, <2>2, OutboxAppendType DEF ApplyVerdict
  <2> QED
    BY <1>15, <2>1, <2>2, <2>3 DEF ApplyVerdict, TypeOK
<1>16. ASSUME NEW i \in Instances, NEW t \in ResultTopics, UpdateStatusWithEvent(i, t)
       PROVE  TypeOK'
  <2>1. handler[i][t].pc # "idle"
    BY <1>16 DEF UpdateStatusWithEvent
  <2> QED
    BY <1>13, <1>15, <1>16, <2>1 DEF UpdateStatusWithEvent, TypeOK
<1>17. ASSUME NEW i \in Instances, NEW t \in ResultTopics, OptimisticLockConflict(i, t)
       PROVE  TypeOK'
  <2> DEFINE h == [handler[i][t] EXCEPT !.pc = "get", !.attempt = @ + 1]
  <2>1. handler[i][t].pc = "update"
    BY <1>17 DEF OptimisticLockConflict
  <2>2. CASE SetHandler(i, t, h)
    <3>1. h \in HandlerStates
      BY <1>10, HandlerStateType
    <3>2. h.offset = handler[i][t].offset
      BY <1>10
    <3> QED
      BY <1>10, <1>11, <1>17, <2>1, <2>2, <3>1, <3>2
      DEF OptimisticLockConflict, TypeOK, db
  <2>3. CASE SetHandler(i, t, Idle)
    BY <1>13, <1>17, <2>1, <2>3 DEF OptimisticLockConflict, TypeOK, db
  <2> QED
    BY <2>2, <2>3, <1>17 DEF OptimisticLockConflict
<1>18. ASSUME NEW i \in Instances, NEW t \in ResultTopics, HandlerError(i, t)
       PROVE  TypeOK'
  <2>1. handler[i][t].pc # "idle" /\ faults' \in [FaultKinds -> Nat]
    BY <1>18, FaultType DEF HandlerError, TypeOK, FaultKinds
  <2> QED
    BY <1>13, <1>18, <2>1 DEF HandlerError, TypeOK, db
<1>19. ASSUME NEW i \in Instances, NEW t \in ResultTopics, UpdateReplyLost(i, t)
       PROVE  TypeOK'
  <2>1. handler[i][t].pc # "idle" /\ faults' \in [FaultKinds -> Nat]
    BY <1>19, FaultType DEF UpdateReplyLost, TypeOK, FaultKinds
  <2> QED
    BY <1>13, <1>15, <1>19, <2>1 DEF UpdateReplyLost, TypeOK
<1>20. ASSUME NEW i \in Instances, NEW t \in ResultTopics, CommitMessages(i, t)
       PROVE  TypeOK'
  <2>1. handler[i][t].pc # "idle"
    BY <1>20 DEF CommitMessages
  <2>2. IsGroup(CommitOffset(group[t], handler[i][t].offset), Instances)
    BY <1>10, GroupTyping DEF HandlerStates
  <2>3. \A u \in ResultTopics : IsGroup(group[u], Instances)'
    BY <1>20, <2>2 DEF CommitMessages, TypeOK
  <2> QED
    BY <1>13, <1>20, <2>1, <2>3 DEF CommitMessages, TypeOK, db
<1>21. ASSUME NEW i \in Instances, NEW t \in ResultTopics, CommitError(i, t)
       PROVE  TypeOK'
  <2>1. handler[i][t].pc # "idle" /\ faults' \in [FaultKinds -> Nat]
    BY <1>21, FaultType DEF CommitError, TypeOK, FaultKinds
  <2> QED
    BY <1>13, <1>21, <2>1 DEF CommitError, TypeOK, db
<1>22. ASSUME NEW i \in Instances, NEW t \in ResultTopics, Rebalance(t, i)
       PROVE  TypeOK'
  <2>1. faults' \in [FaultKinds -> Nat]
    BY <1>22, FaultType DEF Rebalance, TypeOK, FaultKinds
  <2>2. IsGroup(Reassign(group[t], i), Instances)
    BY <1>10, GroupTyping
  <2>3. \A u \in ResultTopics : IsGroup(group[u], Instances)'
    BY <1>22, <2>2 DEF Rebalance, TypeOK
  <2> QED
    BY <1>22, <2>1, <2>3 DEF Rebalance, TypeOK, db, workerTx
<1>23. ASSUME NEW i \in Instances, Restart(i) PROVE TypeOK'
  <2>1. faults' \in [FaultKinds -> Nat]
    BY <1>23, FaultType DEF Restart, TypeOK, FaultKinds
  <2>2. /\ handler' \in [Instances -> [ResultTopics -> HandlerStates]]
        /\ \A j \in Instances, u \in ResultTopics :
              handler'[j][u] = handler[j][u] \/ handler'[j][u].pc = "idle"
    BY <1>0, <1>23 DEF Restart, Idle, HandlerPCs
  <2>3. \A u \in ResultTopics : IsGroup(group[u], Instances)'
    <3>1. PICK j \in Instances :
            group' = [t \in ResultTopics |-> IF group[t].owner = i
                                               THEN Reassign(group[t], j) ELSE group[t]]
      BY <1>23 DEF Restart
    <3>2. \A u \in ResultTopics : IsGroup(Reassign(group[u], j), Instances)
      BY <1>10, GroupTyping
    <3> QED
      BY <1>10, <3>1, <3>2 DEF TypeOK
  <2> QED
    BY <1>23, <2>1, <2>2, <2>3 DEF Restart, TypeOK, db, workerTx
<1>24. CASE UNCHANGED vars
  BY <1>24 DEF vars, TypeOK
<1> QED
  BY <1>1, <1>2, <1>5, <1>6, <1>7, <1>8, <1>9, <1>12, <1>14, <1>16, <1>17, <1>18,
     <1>19, <1>20, <1>21, <1>22, <1>23, <1>24
  DEF OpenNext, WorkerStep, HandlerStep, HandlerFault

\* Every variable has its type in every reachable state: batches and marks
\* name rows that exist, handlers name messages that were delivered.
THEOREM TypeCorrect == Spec => []TypeOK
<1>1. Init => TypeOK
  BY InitType
<1>2. TypeOK /\ [OpenNext]_vars => TypeOK'
  BY NextType
<1> QED
  BY <1>1, <1>2, BoundedIsOpen, PTL DEF Spec

-----------------------------------------------------------------------------
(* The inductive invariant: how a step can change the database *)

\* The optimistic lock: an UPDATE whose version still matches finds the order
\* in AWAITING_STOCK (order_repo.go:119-129).
LEMMA LockMeansAwaiting ==
    ASSUME IndInv, NEW i \in Instances, NEW t \in ResultTopics,
           handler[i][t].pc = "update", VersionMatches(i, t)
    PROVE  /\ Subject(i, t) \in Orders
           /\ Subject(i, t) \in Published(t)
           /\ status[Subject(i, t)] = "AWAITING_STOCK"
<1> DEFINE o == Subject(i, t)
<1>1. handler[i][t].offset \in DOMAIN log[t] /\ log[t] \in Seq(Orders)
  BY DEF IndInv, TypeOK, Topics
<1>2. o \in Orders /\ o \in Published(t)
  BY <1>1, ElementOfSeq, LenProperties DEF Subject, Published
<1>3. version[o] = 2
  BY <1>2 DEF IndInv, HandlerKnows, VersionMatches, Rank, Statuses
<1>4. status[o] \in Statuses \cup {NoOrder}
  BY <1>2 DEF IndInv, TypeOK
<1>5. Rank[status[o]] = 2 /\ status[o] # "COMPLETED"
  BY <1>2, <1>3 DEF IndInv, VersionIsRank
<1>6. status[o] = "AWAITING_STOCK"
  BY <1>4, <1>5 DEF Rank, Statuses, NoOrder
<1> QED
  BY <1>2, <1>6

\* A verdict is applied to an order that awaits its stock.
Decided(o, t) ==
    /\ status[o] = "AWAITING_STOCK"
    /\ o \in Published(t)
    /\ ApplyVerdict(o, t)
    /\ UNCHANGED <<workerTx, log>>

\* Only a worker or an answer of the inventory touches a topic, and only a
\* worker opens or ends a transaction on the outbox.
LEMMA QuietSteps ==
    ASSUME [OpenNext]_vars
    PROVE  \/ UNCHANGED <<workerTx, log>>
           \/ \E w \in Workers : \/ fetchPendingTx(w) \/ CommitBatch(w) \/ Rollback(w)
                                  \/ Publish(w) \/ PublishUnacked(w)
           \/ \E o \in Orders, t \in ResultTopics : AnyResult(o, t)
<1>1. ASSUME NEW i \in Instances, NEW t \in ResultTopics, HandlerStep(i, t)
      PROVE  UNCHANGED <<workerTx, log>>
  BY <1>1 DEF HandlerStep, FetchMessage, GetAndTransition, UpdateStatusWithEvent,
     OptimisticLockConflict, CommitMessages
<1>2. ASSUME NEW i \in Instances, NEW t \in ResultTopics, HandlerFault(i, t)
      PROVE  UNCHANGED <<workerTx, log>>
  BY <1>2 DEF HandlerFault, HandlerError, UpdateReplyLost, CommitError, Rebalance
<1>3. ASSUME NEW i \in Instances, Restart(i)
      PROVE  UNCHANGED <<workerTx, log>>
  BY <1>3 DEF Restart
<1>4. ASSUME NEW o \in Orders, CreateOrder(o)
      PROVE  UNCHANGED <<workerTx, log>>
  BY <1>4 DEF CreateOrder
<1>5. CASE UNCHANGED vars
  BY <1>5 DEF vars, workerTx
<1> QED
  BY <1>1, <1>2, <1>3, <1>4, <1>5 DEF OpenNext, WorkerStep

\* The tables change in three ways only.
LEMMA DatabaseSteps ==
    ASSUME IndInv, [OpenNext]_vars
    PROVE  \/ \E o \in Orders : CreateOrder(o)
           \/ \E w \in Workers : CommitBatch(w)
           \/ \E o \in Orders, t \in ResultTopics : Decided(o, t)
           \/ UNCHANGED db
<1>1. ASSUME NEW i \in Instances, NEW t \in ResultTopics,
             UpdateStatusWithEvent(i, t) \/ UpdateReplyLost(i, t)
      PROVE  \E o \in Orders : Decided(o, t)
  <2>1. /\ handler[i][t].pc = "update"
        /\ VersionMatches(i, t)
        /\ ApplyVerdict(Subject(i, t), t)
        /\ UNCHANGED <<workerTx, log>>
    BY <1>1 DEF UpdateStatusWithEvent, UpdateReplyLost
  <2> QED
    BY <2>1, LockMeansAwaiting DEF Decided
<1>2. ASSUME NEW w \in Workers,
             WorkerStep(w) \/ PublishUnacked(w) \/ Rollback(w)
      PROVE  CommitBatch(w) \/ UNCHANGED db
  BY <1>2 DEF WorkerStep, fetchPendingTx, Publish, PublishUnacked, Rollback
<1>3. ASSUME NEW i \in Instances, NEW t \in ResultTopics,
             HandlerStep(i, t) \/ HandlerFault(i, t)
      PROVE  (\E o \in Orders : Decided(o, t)) \/ UNCHANGED db
  BY <1>1, <1>3 DEF HandlerStep, HandlerFault, FetchMessage, GetAndTransition,
     OptimisticLockConflict, CommitMessages, HandlerError, CommitError, Rebalance
<1>4. ASSUME NEW o \in Orders, NEW t \in ResultTopics, AnyResult(o, t)
      PROVE  UNCHANGED db
  BY <1>4 DEF AnyResult
<1>5. ASSUME NEW i \in Instances, Restart(i) PROVE UNCHANGED db
  BY <1>5 DEF Restart
<1>6. CASE UNCHANGED vars
  BY <1>6 DEF vars, db
<1> QED
  BY <1>2, <1>3, <1>4, <1>5, <1>6 DEF OpenNext

\* The parts of the invariant about the two tables.
TablesOK == VersionIsRank /\ RowsFollowStatus /\ RowsAreUnique /\ CreatedSent

\* A new order comes with its order.created row (SaveWithEvent).
LEMMA CreateKeepsTables ==
    ASSUME IndInv, NEW o \in Orders, CreateOrder(o)
    PROVE  TablesOK'
<1> DEFINE n == Len(outbox) + 1
<1>1. /\ status[o] = NoOrder
      /\ status' = [status EXCEPT ![o] = "CREATED"]
      /\ version' = [version EXCEPT ![o] = 1]
      /\ status \in [Orders -> Statuses \cup {NoOrder}]
      /\ version \in [Orders -> Nat]
  BY DEF CreateOrder, IndInv, TypeOK
<1>2. /\ DOMAIN outbox = 1..Len(outbox)
      /\ DOMAIN outbox' = 1..n
      /\ Len(outbox) \in Nat
      /\ \A r \in DOMAIN outbox : outbox'[r] = outbox[r]
      /\ outbox'[n] = PendingRow(o, "order.created")
  BY OutboxAppendType DEF IndInv, CreateOrder, OrderEvents
<1>3. \A r \in DOMAIN outbox : outbox[r].order # o
  BY <1>1, RowType DEF IndInv, RowsFollowStatus, HasRow, StatusOf, Final, NoOrder, OrderEvents
<1>4. \A r \in DOMAIN outbox' : r = n \/ r \in DOMAIN outbox
  BY <1>2
<1>5. VersionIsRank'
  BY <1>1 DEF IndInv, VersionIsRank, Rank, Statuses, NoOrder
<1>6. RowsFollowStatus'
  <2>1. ASSUME NEW p \in Orders, NEW type \in OrderEvents
        PROVE  HasRow(p, type)' <=> status'[p] \in StatusOf(type)
    <3>1. CASE p # o
      <4>1. HasRow(p, type)' <=> HasRow(p, type)
        BY <1>2, <1>4, <3>1 DEF HasRow, PendingRow
      <4> QED
        BY <1>1, <3>1, <4>1 DEF IndInv, RowsFollowStatus
    <3>2. CASE p = o
      <4>1. HasRow(p, type)' <=> type = "order.created"
        BY <1>2, <1>3, <1>4, <3>2 DEF HasRow, PendingRow
      <4>2. status'[p] = "CREATED"
        BY <1>1, <3>2
      <4> QED
        BY <4>1, <4>2 DEF StatusOf, Final, OrderEvents
    <3> QED
      BY <3>1, <3>2
  <2> QED
    BY <2>1 DEF RowsFollowStatus
<1>7. RowsAreUnique'
  BY <1>2, <1>3, <1>4 DEF IndInv, RowsAreUnique, PendingRow
<1>8. CreatedSent'
  BY <1>1, <1>2, <1>3, <1>4, RowType DEF IndInv, CreatedSent, PendingRow
<1> QED
  BY <1>5, <1>6, <1>7, <1>8 DEF TablesOK

\* A verdict comes with the one row that announces it
\* (UpdateStatusWithEvent).
LEMMA VerdictKeepsTables ==
    ASSUME IndInv, NEW o \in Orders, NEW t \in ResultTopics, Decided(o, t)
    PROVE  TablesOK'
<1> DEFINE n == Len(outbox) + 1
           e == buildStatusEvent(Verdict(t))
<1>1. /\ status[o] = "AWAITING_STOCK"
      /\ status' = [status EXCEPT ![o] = Verdict(t)]
      /\ version' = [version EXCEPT ![o] = @ + 1]
      /\ status \in [Orders -> Statuses \cup {NoOrder}]
      /\ version \in [Orders -> Nat]
  BY DEF Decided, ApplyVerdict, IndInv, TypeOK
<1>2. \/ e = "order.confirmed" /\ Verdict(t) = "CONFIRMED"
      \/ e = "order.cancelled" /\ Verdict(t) = "CANCELLED"
  BY DEF buildStatusEvent, Verdict
<1>3. /\ DOMAIN outbox = 1..Len(outbox)
      /\ DOMAIN outbox' = 1..n
      /\ Len(outbox) \in Nat
      /\ \A r \in DOMAIN outbox : outbox'[r] = outbox[r]
      /\ outbox'[n] = PendingRow(o, e)
  <2>1. e \in OrderEvents /\ outbox' = Append(outbox, PendingRow(o, e))
    BY <1>2 DEF Decided, ApplyVerdict, OrderEvents
  <2> QED
    BY <2>1, OutboxAppendType DEF IndInv
<1>4. \A r \in DOMAIN outbox : outbox[r].order = o => outbox[r].type = "order.created"
  BY <1>1, RowType
  DEF IndInv, RowsFollowStatus, HasRow, StatusOf, Final, OrderEvents
<1>5. \A r \in DOMAIN outbox' : r = n \/ r \in DOMAIN outbox
  BY <1>3
<1>6. VersionIsRank'
  BY <1>1, <1>2 DEF IndInv, VersionIsRank, Rank, Statuses, NoOrder
<1>7. RowsFollowStatus'
  <2>1. ASSUME NEW p \in Orders, NEW type \in OrderEvents
        PROVE  HasRow(p, type)' <=> status'[p] \in StatusOf(type)
    <3>1. CASE p # o
      <4>1. HasRow(p, type)' <=> HasRow(p, type)
        BY <1>3, <1>5, <3>1 DEF HasRow, PendingRow
      <4> QED
        BY <1>1, <3>1, <4>1 DEF IndInv, RowsFollowStatus
    <3>2. CASE p = o
      <4>1. HasRow(o, "order.created")
        BY <1>1 DEF IndInv, RowsFollowStatus, StatusOf, OrderEvents
      <4>2. HasRow(p, type)' <=> type \in {"order.created", e}
        BY <1>3, <1>4, <1>5, <3>2, <4>1 DEF HasRow, PendingRow
      <4>3. status'[p] = Verdict(t)
        BY <1>1, <3>2
      <4> QED
        BY <1>2, <4>2, <4>3 DEF StatusOf, Final, OrderEvents
    <3> QED
      BY <3>1, <3>2
  <2> QED
    BY <2>1 DEF RowsFollowStatus
<1>8. RowsAreUnique'
  BY <1>2, <1>3, <1>4, <1>5 DEF IndInv, RowsAreUnique, PendingRow
<1>9. CreatedSent'
  BY <1>1, <1>2, <1>3, <1>5, RowType DEF IndInv, CreatedSent, PendingRow
<1> QED
  BY <1>6, <1>7, <1>8, <1>9 DEF TablesOK

\* A batch marks its rows SENT and moves their orders on, together
\* (the commit of processBatch).
LEMMA CommitKeepsTables ==
    ASSUME IndInv, NEW w \in Workers, CommitBatch(w)
    PROVE  TablesOK'
<1> DEFINE moved == transitionToAwaitingStockTx(w)
<1>1. /\ status' = [o \in Orders |-> IF o \in moved THEN "AWAITING_STOCK" ELSE status[o]]
      /\ version' = [o \in Orders |-> IF o \in moved THEN version[o] + 1 ELSE version[o]]
      /\ status \in [Orders -> Statuses \cup {NoOrder}]
      /\ version \in [Orders -> Nat]
      /\ marked[w] = batch[w]
  BY DEF CommitBatch, IndInv, TypeOK
<1>2. /\ DOMAIN outbox' = DOMAIN outbox
      /\ \A r \in DOMAIN outbox : /\ outbox'[r].order = outbox[r].order
                                  /\ outbox'[r].type = outbox[r].type
                                  /\ outbox'[r].sent = (outbox[r].sent \/ r \in batch[w])
  BY <1>1, RowType DEF CommitBatch, IndInv, Rows
<1>3. \A o \in moved : status[o] = "CREATED" /\ o \in Orders
  BY DEF transitionToAwaitingStockTx
<1>4. VersionIsRank'
  BY <1>1, <1>3 DEF IndInv, VersionIsRank, Rank, Statuses, NoOrder
<1>5. RowsFollowStatus'
  <2>1. \A o \in Orders, type \in OrderEvents : HasRow(o, type)' <=> HasRow(o, type)
    BY <1>2 DEF HasRow
  <2>2. \A o \in Orders, type \in OrderEvents :
            status'[o] \in StatusOf(type) <=> status[o] \in StatusOf(type)
    BY <1>1, <1>3 DEF StatusOf, Final, OrderEvents
  <2> QED
    BY <2>1, <2>2 DEF IndInv, RowsFollowStatus
<1>6. RowsAreUnique'
  BY <1>2 DEF IndInv, RowsAreUnique
<1>7. CreatedSent'
  <2>1. ASSUME NEW r \in DOMAIN outbox, outbox[r].type = "order.created"
        PROVE  outbox'[r].sent <=> status'[outbox[r].order] # "CREATED"
    <3> DEFINE o == outbox[r].order
    <3>1. o \in Orders
      BY RowType DEF IndInv
    <3>2. outbox[r].sent <=> status[o] # "CREATED"
      BY <2>1 DEF IndInv, CreatedSent
    <3>3. batch[w] \subseteq DOMAIN outbox
      BY DEF IndInv, TypeOK
    <3>4. o \in moved <=> status[o] = "CREATED" /\ r \in batch[w]
      BY <2>1, <3>1, <3>3 DEF IndInv, RowsAreUnique, transitionToAwaitingStockTx
    <3> QED
      BY <1>1, <1>2, <3>1, <3>2, <3>4
  <2> QED
    BY <1>2, <2>1 DEF CreatedSent
<1> QED
  BY <1>4, <1>5, <1>6, <1>7 DEF TablesOK

\* No step of the service breaks the agreement of the two tables.
LEMMA NextKeepsTables ==
    ASSUME IndInv, [OpenNext]_vars
    PROVE  TablesOK'
<1>1. CASE UNCHANGED db
  BY <1>1 DEF db, IndInv, TablesOK, VersionIsRank, RowsFollowStatus, HasRow,
     RowsAreUnique, CreatedSent
<1> QED
  BY <1>1, DatabaseSteps, CreateKeepsTables, VerdictKeepsTables, CommitKeepsTables

-----------------------------------------------------------------------------
(* The inductive invariant: the log, the workers and the handlers *)

\* Topics are append-only.
LEMMA LogGrows ==
    ASSUME TypeOK, [OpenNext]_vars
    PROVE  \A t \in Topics :
              /\ \A k \in DOMAIN log[t] : k \in DOMAIN log'[t] /\ log'[t][k] = log[t][k]
              /\ Published(t) \subseteq Published(t)'
<1> DEFINE Grows == \A t \in Topics : \A k \in DOMAIN log[t] :
                        k \in DOMAIN log'[t] /\ log'[t][k] = log[t][k]
<1>1. ASSUME NEW t \in Topics, NEW o \in Orders,
             log' = [log EXCEPT ![t] = Append(@, o)]
      PROVE  Grows
  <2>1. log[t] \in Seq(Orders) /\ log \in [Topics -> Seq(Orders)]
    BY DEF TypeOK
  <2>2. \A k \in DOMAIN log[t] : /\ k \in DOMAIN Append(log[t], o)
                                 /\ Append(log[t], o)[k] = log[t][k]
    BY <2>1, AppendProperties, LenProperties
  <2> QED
    BY <1>1, <2>1, <2>2
<1>2. ASSUME NEW w \in Workers, Publish(w) \/ PublishUnacked(w) PROVE Grows
  <2>1. PICK r \in batch[w] : AppendToTopic(r)
    BY <1>2 DEF Publish, PublishUnacked
  <2>2. outbox[r].order \in Orders /\ outbox[r].type \in Topics
    BY RowType DEF TypeOK, Topics
  <2> QED
    BY <1>1, <2>1, <2>2 DEF AppendToTopic
<1>3. ASSUME NEW o \in Orders, NEW t \in ResultTopics, AnyResult(o, t) PROVE Grows
  BY <1>1, <1>3 DEF AnyResult, Topics
<1>4. ASSUME UNCHANGED log PROVE Grows
  BY <1>4
<1>5. ASSUME NEW w \in Workers, fetchPendingTx(w) \/ CommitBatch(w) \/ Rollback(w)
      PROVE  Grows
  BY <1>4, <1>5 DEF fetchPendingTx, CommitBatch, Rollback
<1>6. Grows
  BY <1>2, <1>3, <1>4, <1>5, QuietSteps
<1> QED
  BY <1>6 DEF Published

\* Outbox rows are never removed and keep their order and type; SENT is final.
LEMMA RowsStay ==
    ASSUME IndInv, [OpenNext]_vars
    PROVE  /\ DOMAIN outbox \subseteq DOMAIN outbox'
           /\ \A r \in DOMAIN outbox :
                 /\ outbox'[r].order = outbox[r].order
                 /\ outbox'[r].type = outbox[r].type
                 /\ outbox'[r].sent = (outbox[r].sent
                       \/ \E w \in Workers : CommitBatch(w) /\ r \in marked[w])
<1>1. ASSUME NEW o \in Orders, NEW type \in OrderEvents,
             outbox' = Append(outbox, PendingRow(o, type))
      PROVE  /\ DOMAIN outbox \subseteq DOMAIN outbox'
             /\ \A r \in DOMAIN outbox : outbox'[r] = outbox[r]
  BY <1>1, OutboxAppendType DEF IndInv
<1>2. ASSUME NEW w \in Workers, CommitBatch(w)
      PROVE  /\ DOMAIN outbox' = DOMAIN outbox
             /\ \A r \in DOMAIN outbox :
                   /\ outbox'[r].order = outbox[r].order
                   /\ outbox'[r].type = outbox[r].type
                   /\ outbox'[r].sent = (outbox[r].sent \/ r \in marked[w])
  BY <1>2, RowType DEF CommitBatch, IndInv, Rows
<1>3. ASSUME NEW o \in Orders, CreateOrder(o)
      PROVE  /\ outbox' = Append(outbox, PendingRow(o, "order.created"))
             /\ \A w \in Workers : ~CommitBatch(w)
  <2>1. outbox' = Append(outbox, PendingRow(o, "order.created"))
        /\ UNCHANGED batch
    BY <1>3 DEF CreateOrder, workerTx
  <2> QED
    BY <2>1 DEF CommitBatch, IndInv, TypeOK
<1>4. ASSUME NEW o \in Orders, NEW t \in ResultTopics, Decided(o, t)
      PROVE  /\ outbox' = Append(outbox, PendingRow(o, buildStatusEvent(Verdict(t))))
             /\ buildStatusEvent(Verdict(t)) \in OrderEvents
             /\ \A w \in Workers : ~CommitBatch(w)
  BY <1>4 DEF Decided, ApplyVerdict, buildStatusEvent, OrderEvents, workerTx,
     CommitBatch, IndInv, TypeOK
<1>5. "order.created" \in OrderEvents
  BY DEF OrderEvents
<1>6. ASSUME UNCHANGED db, NEW w \in Workers, CommitBatch(w), NEW r \in marked[w]
      PROVE  outbox[r].sent
  BY <1>6, <1>2, RowType DEF db, IndInv, TypeOK
<1>7. CASE UNCHANGED db
  BY <1>6, <1>7, RowType DEF db, IndInv
<1>8. CASE \E o \in Orders : CreateOrder(o)
  BY <1>1, <1>3, <1>5, <1>8, RowType DEF IndInv
<1>9. CASE \E o \in Orders, t \in ResultTopics : Decided(o, t)
  BY <1>1, <1>4, <1>9, RowType DEF IndInv
<1>10. CASE \E w \in Workers : CommitBatch(w)
  <2>1. PICK w \in Workers : CommitBatch(w)
    BY <1>10
  <2>2. \A v \in Workers : CommitBatch(v) => v = w
    <3>1. batch' = [batch EXCEPT ![w] = {}] /\ batch[w] # {}
      BY <2>1 DEF CommitBatch
    <3> QED
      BY <3>1 DEF CommitBatch, IndInv, TypeOK
  <2> QED
    BY <1>2, <2>1, <2>2
<1> QED
  BY <1>7, <1>8, <1>9, <1>10, DatabaseSteps

\* No two workers hold the same row, and no worker a row that is SENT.
LEMMA NextKeepsLocks ==
    ASSUME IndInv, [OpenNext]_vars
    PROVE  LocksAreExclusive'
<1>1. /\ batch \in [Workers -> SUBSET (DOMAIN outbox)]
      /\ marked \in [Workers -> SUBSET (DOMAIN outbox)]
      /\ LocksAreExclusive
  BY DEF IndInv, TypeOK
<1>2. /\ DOMAIN outbox \subseteq DOMAIN outbox'
      /\ \A r \in DOMAIN outbox :
            outbox'[r].sent = (outbox[r].sent
               \/ \E w \in Workers : CommitBatch(w) /\ r \in marked[w])
  BY RowsStay
<1>3. ASSUME NEW w \in Workers, CommitBatch(w)
      PROVE  LocksAreExclusive'
  <2>1. /\ batch' = [batch EXCEPT ![w] = {}]
        /\ marked' = [marked EXCEPT ![w] = {}]
        /\ batch[w] # {}
    BY <1>3 DEF CommitBatch
  <2>2. \A v \in Workers : CommitBatch(v) => v = w
    BY <1>1, <2>1 DEF CommitBatch
  <2>3. \A v \in Workers : \A r \in batch'[v] : r \in batch[v] /\ v # w
    BY <1>1, <2>1
  <2>4. \A v \in Workers : \A r \in batch'[v] : ~outbox'[r].sent
    BY <1>1, <1>2, <2>2, <2>3 DEF LocksAreExclusive
  <2> QED
    BY <1>1, <2>1, <2>3, <2>4 DEF LocksAreExclusive
<1>4. ASSUME \A w \in Workers : ~CommitBatch(w)
      PROVE  \A r \in DOMAIN outbox : outbox'[r].sent = outbox[r].sent
  BY <1>2, <1>4, RowType DEF IndInv
<1>5. ASSUME \A w \in Workers : ~CommitBatch(w),
             NEW w \in Workers, fetchPendingTx(w)
      PROVE  LocksAreExclusive'
  <2>1. /\ batch' = [batch EXCEPT ![w] = Fetchable] /\ UNCHANGED marked
        /\ batch[w] = {}
    BY <1>5 DEF fetchPendingTx
  <2>2. \A r \in Fetchable : /\ r \in DOMAIN outbox
                             /\ ~outbox[r].sent
                             /\ \A v \in Workers : r \notin batch[v]
    BY DEF Fetchable, Oldest, Pending, Locked
  <2> QED
    BY <1>1, <1>4, <1>5, <2>1, <2>2 DEF LocksAreExclusive
<1>6. ASSUME \A w \in Workers : ~CommitBatch(w),
             NEW w \in Workers, Publish(w)
      PROVE  LocksAreExclusive'
  <2>1. PICK r \in batch[w] : marked' = [marked EXCEPT ![w] = @ \cup {r}]
    BY <1>6 DEF Publish
  <2>2. UNCHANGED batch
    BY <1>6 DEF Publish
  <2> QED
    BY <1>1, <1>4, <1>6, <2>1, <2>2 DEF LocksAreExclusive
<1>7. ASSUME \A w \in Workers : ~CommitBatch(w),
             NEW w \in Workers, Rollback(w)
      PROVE  LocksAreExclusive'
  <2>1. /\ batch' = [batch EXCEPT ![w] = {}]
        /\ marked' = [marked EXCEPT ![w] = {}]
    BY <1>7 DEF Rollback
  <2> QED
    BY <1>1, <1>4, <1>7, <2>1 DEF LocksAreExclusive
<1>8. ASSUME \A w \in Workers : ~CommitBatch(w), UNCHANGED workerTx
      PROVE  LocksAreExclusive'
  BY <1>1, <1>4, <1>8 DEF LocksAreExclusive, workerTx
<1>9. ASSUME NEW w \in Workers, PublishUnacked(w) PROVE UNCHANGED workerTx
  BY <1>9 DEF PublishUnacked
<1>10. ASSUME NEW o \in Orders, NEW t \in ResultTopics, AnyResult(o, t)
       PROVE  UNCHANGED workerTx
  BY <1>10 DEF AnyResult
<1> QED
  BY <1>3, <1>5, <1>6, <1>7, <1>8, <1>9, <1>10, QuietSteps

\* A row is marked, and SENT, only after the broker stored its message.
LEMMA NextKeepsPublished ==
    ASSUME IndInv, [OpenNext]_vars
    PROVE  MarkedIsPublished' /\ SentIsPublished'
<1>1. /\ batch \in [Workers -> SUBSET (DOMAIN outbox)]
      /\ marked \in [Workers -> SUBSET (DOMAIN outbox)]
      /\ TypeOK
  BY DEF IndInv, TypeOK
<1>2. /\ DOMAIN outbox \subseteq DOMAIN outbox'
      /\ \A r \in DOMAIN outbox :
            /\ outbox'[r].order = outbox[r].order
            /\ outbox'[r].type = outbox[r].type
            /\ outbox'[r].sent = (outbox[r].sent
                  \/ \E w \in Workers : CommitBatch(w) /\ r \in marked[w])
  BY RowsStay
<1>3. \A type \in OrderEvents : Published(type) \subseteq Published(type)'
  BY <1>1, LogGrows DEF Topics
<1>4. ASSUME NEW r \in DOMAIN outbox, outbox[r].order \in Published(outbox[r].type)
      PROVE  (outbox[r].order \in Published(outbox[r].type))'
  BY <1>1, <1>2, <1>3, <1>4, RowType
<1>5. ASSUME NEW w \in Workers, NEW r \in marked'[w], r \notin marked[w]
      PROVE  r \in DOMAIN outbox /\ (outbox[r].order \in Published(outbox[r].type))'
  <2>1. PICK q \in batch[w] : AppendToTopic(q) /\ marked' = [marked EXCEPT ![w] = @ \cup {q}]
    <3>1. ~(UNCHANGED marked)
      BY <1>5
    <3>2. ~(UNCHANGED workerTx)
      BY <3>1 DEF workerTx
    <3>3. \A v \in Workers : ~fetchPendingTx(v) /\ ~PublishUnacked(v)
      BY <3>1, <3>2 DEF fetchPendingTx, PublishUnacked
    <3>4. \A v \in Workers : ~CommitBatch(v) /\ ~Rollback(v)
      BY <1>1, <1>5 DEF CommitBatch, Rollback
    <3>5. \A p \in Orders, u \in ResultTopics : ~AnyResult(p, u)
      BY <3>2 DEF AnyResult
    <3>6. PICK v \in Workers : Publish(v)
      BY <3>2, <3>3, <3>4, <3>5, QuietSteps
    <3>7. PICK q \in batch[v] : AppendToTopic(q)
                             /\ marked' = [marked EXCEPT ![v] = @ \cup {q}]
      BY <3>6 DEF Publish
    <3>8. v = w
      BY <1>1, <1>5, <3>7
    <3> QED
      BY <3>7, <3>8
  <2>2. r = q /\ r \in DOMAIN outbox
    BY <1>1, <1>5, <2>1
  <2> DEFINE topic == outbox[r].type
             o == outbox[r].order
  <2>3. topic \in Topics /\ o \in Orders
    BY <1>1, <2>2, RowType DEF Topics
  <2>4. /\ log[topic] \in Seq(Orders)
        /\ log'[topic] = Append(log[topic], o)
    BY <1>1, <2>1, <2>2, <2>3 DEF AppendToTopic, TypeOK
  <2>5. \E k \in DOMAIN log'[topic] : log'[topic][k] = o
    <3>1. /\ Len(log[topic]) + 1 \in DOMAIN Append(log[topic], o)
          /\ Append(log[topic], o)[Len(log[topic]) + 1] = o
      BY <2>3, <2>4, AppendProperties, LenProperties
    <3> QED
      BY <2>4, <3>1
  <2>6. o = outbox'[r].order /\ topic = outbox'[r].type
    BY <1>2, <2>2
  <2> QED
    BY <2>2, <2>5, <2>6 DEF Published
<1>6. MarkedIsPublished'
  <2>1. ASSUME NEW w \in Workers, NEW r \in marked'[w]
        PROVE  (outbox[r].order \in Published(outbox[r].type))'
    BY <1>1, <1>4, <1>5, <2>1 DEF IndInv, MarkedIsPublished
  <2> QED
    BY <2>1 DEF MarkedIsPublished
<1>7. SentIsPublished'
  <2>1. ASSUME NEW r \in DOMAIN outbox', outbox'[r].sent
        PROVE  (outbox[r].order \in Published(outbox[r].type))'
    <3>1. CASE r \in DOMAIN outbox
      BY <1>1, <1>2, <1>4, <2>1, <3>1 DEF IndInv, MarkedIsPublished, SentIsPublished
    <3>2. CASE r \notin DOMAIN outbox
      <4>1. PICK o \in Orders, type \in OrderEvents :
                    outbox' = Append(outbox, PendingRow(o, type))
        <5>1. ~UNCHANGED outbox /\ ~\E w \in Workers : CommitBatch(w)
          BY <2>1, <3>2 DEF CommitBatch
        <5>2. CASE \E o \in Orders : CreateOrder(o)
          BY <5>2 DEF CreateOrder, OrderEvents
        <5>3. CASE \E o \in Orders, t \in ResultTopics : Decided(o, t)
          BY <5>3 DEF Decided, ApplyVerdict, buildStatusEvent, OrderEvents
        <5> QED
          BY <5>1, <5>2, <5>3, DatabaseSteps DEF db
      <4>2. r = Len(outbox) + 1 /\ outbox'[r] = PendingRow(o, type)
        BY <1>1, <2>1, <3>2, <4>1, OutboxAppendType
      <4> QED
        BY <2>1, <4>2 DEF PendingRow
    <3> QED
      BY <3>1, <3>2
  <2> QED
    BY <2>1 DEF SentIsPublished
<1> QED
  BY <1>6, <1>7

\* Statuses only move forward: an order that awaits its stock is never
\* CREATED again, and a verdict is never changed.
LEMMA StatusForward ==
    ASSUME IndInv, [OpenNext]_vars, NEW o \in Orders
    PROVE  /\ status[o] \in Final => status'[o] = status[o]
           /\ status[o] = "AWAITING_STOCK" => status'[o] \in {"AWAITING_STOCK"} \cup Final
           /\ status'[o] \in Final \/ status[o] \in Final
                 => \A t \in ResultTopics :
                       status'[o] = Verdict(t) => o \in Published(t) \/ status[o] = Verdict(t)
<1>1. status \in [Orders -> Statuses \cup {NoOrder}]
  BY DEF IndInv, TypeOK
<1>2. CASE \E p \in Orders : CreateOrder(p)
  BY <1>1, <1>2 DEF CreateOrder, Final, NoOrder, Verdict
<1>3. CASE \E w \in Workers : CommitBatch(w)
  BY <1>1, <1>3 DEF CommitBatch, transitionToAwaitingStockTx, Final, Verdict
<1>4. CASE \E p \in Orders, t \in ResultTopics : Decided(p, t)
  BY <1>1, <1>4 DEF Decided, ApplyVerdict, Final, Verdict, ResultTopics
<1>5. CASE UNCHANGED db
  BY <1>5 DEF db
<1> QED
  BY <1>2, <1>3, <1>4, <1>5, DatabaseSteps

\* The inventory's word is behind every verdict.
LEMMA NextKeepsVerdicts ==
    ASSUME IndInv, [OpenNext]_vars
    PROVE  VerdictFromInventory'
<1>1. ASSUME NEW o \in Orders, NEW t \in ResultTopics, status'[o] = Verdict(t)
      PROVE  o \in Published(t)'
  <2>1. o \in Published(t) \/ status[o] = Verdict(t)
    BY <1>1, StatusForward DEF Verdict, Final
  <2>2. o \in Published(t)
    BY <2>1 DEF IndInv, VerdictFromInventory
  <2> QED
    BY <2>2, LogGrows DEF IndInv, Topics
<1> QED
  BY <1>1 DEF VerdictFromInventory

\* The message under a handler, and what is known of its order, stay.
LEMMA NextKeepsHandlers ==
    ASSUME IndInv, [OpenNext]_vars
    PROVE  HandlerKnows'
<1> DEFINE Knows(h, t) ==
              /\ h.attempt <= 1
              /\ h.pc = "idle" => h.attempt = 0
              /\ h.pc = "update" =>
                    /\ h.version = Rank["AWAITING_STOCK"]
                    /\ h.attempt = 0
                    /\ status'[log[t][h.offset]] \in {"AWAITING_STOCK"} \cup Final
              /\ h.attempt = 1 => status'[log[t][h.offset]] \in Final
<1>1. handler \in [Instances -> [ResultTopics -> HandlerStates]]
  BY DEF IndInv, TypeOK, HandlerStates
<1>2. ASSUME NEW i \in Instances, NEW t \in ResultTopics
      PROVE  /\ handler[i][t] \in HandlerStates
             /\ handler[i][t].pc # "idle" => /\ Subject(i, t) \in Orders
                                             /\ Subject(i, t) = log[t][handler[i][t].offset]
             /\ Knows(handler[i][t], t)
  <2>1. handler[i][t].pc # "idle" => Subject(i, t) \in Orders
    BY ElementOfSeq, LenProperties DEF IndInv, TypeOK, Subject, Topics
  <2>2. /\ handler[i][t].attempt <= 1
        /\ handler[i][t].pc = "idle" => handler[i][t].attempt = 0
        /\ handler[i][t].pc = "update" =>
              /\ handler[i][t].version = Rank["AWAITING_STOCK"]
              /\ handler[i][t].attempt = 0
              /\ status[Subject(i, t)] \in {"AWAITING_STOCK"} \cup Final
        /\ handler[i][t].attempt = 1 => status[Subject(i, t)] \in Final
    BY DEF IndInv, HandlerKnows
  <2>3. handler[i][t].attempt = 1 => handler[i][t].pc # "idle"
    BY <2>2
  <2> QED
    BY <1>1, <2>1, <2>2, <2>3, StatusForward DEF Subject
<1>3. ASSUME \A i \in Instances, t \in ResultTopics : Knows(handler'[i][t], t),
             \A i \in Instances, t \in ResultTopics :
                handler'[i][t].pc = "idle" \/ handler'[i][t].offset \in DOMAIN log[t]
      PROVE  HandlerKnows'
  <2>1. ASSUME NEW i \in Instances, NEW t \in ResultTopics
        PROVE  handler'[i][t].pc # "idle" => Subject(i, t)' = log[t][handler'[i][t].offset]
    BY <1>3, LogGrows DEF IndInv, Topics, Subject
  <2> QED
    BY <1>3, <2>1 DEF HandlerKnows
<1>4. ASSUME NEW i \in Instances, NEW t \in ResultTopics, NEW h \in HandlerStates,
             SetHandler(i, t, h), Knows(h, t),
             h.pc = "idle" \/ h.offset \in DOMAIN log[t]
      PROVE  HandlerKnows'
  <2>1. /\ handler'[i][t] = h
        /\ \A j \in Instances, u \in ResultTopics :
              (j # i \/ u # t) => handler'[j][u] = handler[j][u]
    BY <1>1, <1>4, SetHandlerType
  <2>2. \A j \in Instances, u \in ResultTopics :
            handler[j][u].pc = "idle" \/ handler[j][u].offset \in DOMAIN log[u]
    BY DEF IndInv, TypeOK
  <2>3. ASSUME NEW j \in Instances, NEW u \in ResultTopics
        PROVE  /\ Knows(handler'[j][u], u)
               /\ handler'[j][u].pc = "idle" \/ handler'[j][u].offset \in DOMAIN log[u]
    BY <1>2, <1>4, <2>1, <2>2
  <2> QED
    BY <1>3, <2>3
<1>5. ASSUME NEW i \in Instances, NEW t \in ResultTopics, FetchMessage(i, t)
      PROVE  HandlerKnows'
  <2> DEFINE n == group[t].position + 1
             h == [Idle EXCEPT !.pc = "get", !.offset = n]
  <2>1. n \in Nat /\ n \in DOMAIN log[t]
    <3>1. /\ log[t] \in Seq(Orders)
          /\ IsGroup(group[t], Instances)
          /\ HasNext(group[t], log[t])
      BY <1>5 DEF FetchMessage, IndInv, TypeOK, Topics
    <3> QED
      BY <3>1, LenProperties DEF HasNext, IsGroup
  <2>2. h \in HandlerStates /\ h.offset = n /\ h.pc = "get" /\ h.attempt = 0
    BY <1>2, <2>1, HandlerStateType DEF Idle
  <2>3. SetHandler(i, t, h)
    BY <1>5 DEF FetchMessage
  <2> HIDE DEF h
  <2>4. Knows(h, t)
    BY <2>2
  <2> QED
    BY <1>4, <2>1, <2>2, <2>3, <2>4
<1>6. ASSUME NEW i \in Instances, NEW t \in ResultTopics,
             handler[i][t].pc # "idle",
             SetHandler(i, t, [handler[i][t] EXCEPT !.pc = "commit"]) \/ SetHandler(i, t, Idle)
      PROVE  HandlerKnows'
  <2> DEFINE h == [handler[i][t] EXCEPT !.pc = "commit"]
  <2>1. h \in HandlerStates /\ Idle \in HandlerStates
    BY <1>2, HandlerStateType
  <2>2. Knows(Idle, t) /\ Idle.pc = "idle"
    BY DEF Idle
  <2>3. /\ h.pc = "commit"
        /\ h.attempt = handler[i][t].attempt
        /\ h.offset = handler[i][t].offset
    BY <1>2 DEF HandlerStates
  <2>4. Knows(h, t)
    BY <1>2, <2>3
  <2>5. h.offset \in DOMAIN log[t]
    BY <1>6, <2>3 DEF IndInv, TypeOK
  <2> QED
    BY <1>4, <1>6, <2>1, <2>2, <2>4, <2>5
<1>7. ASSUME NEW i \in Instances, NEW t \in ResultTopics, GetAndTransition(i, t)
      PROVE  HandlerKnows'
  <2> DEFINE o == Subject(i, t)
             h == [handler[i][t] EXCEPT !.pc = "update", !.version = version[o]]
  <2>1. handler[i][t].pc = "get" /\ UNCHANGED status
    BY <1>7 DEF GetAndTransition, db
  <2>2. o \in Orders /\ o = log[t][handler[i][t].offset]
    BY <1>2, <2>1
  <2>3. CASE TransitionTo(status[o], Verdict(t)) /\ SetHandler(i, t, h)
    <3>1. status[o] = "AWAITING_STOCK"
      BY <2>3 DEF TransitionTo, Statuses, allowedTransactions, Verdict
    <3>2. version[o] = Rank["AWAITING_STOCK"] /\ version[o] \in Nat
      BY <2>2, <3>1 DEF IndInv, VersionIsRank, TypeOK
    <3>3. handler[i][t].attempt = 0
      BY <1>2, <2>1, <2>2, <3>1 DEF Final, HandlerStates
    <3>4. /\ h \in HandlerStates /\ h.pc = "update" /\ h.version = version[o]
          /\ h.attempt = 0 /\ h.offset = handler[i][t].offset
      <4>1. handler[i][t] \in HandlerStates
        BY <1>2
      <4>2. h \in HandlerStates
        BY <3>2, <4>1, HandlerStateType
      <4> QED
        BY <3>3, <4>1, <4>2 DEF HandlerStates
    <3>5. h.offset \in DOMAIN log[t]
      <4>1. handler[i][t].offset \in DOMAIN log[t]
        BY <2>1 DEF IndInv, TypeOK
      <4> QED
        BY <3>4, <4>1
    <3>6. Knows(h, t)
      BY <2>1, <2>2, <3>1, <3>2, <3>4
    <3> QED
      BY <1>4, <2>3, <3>4, <3>5, <3>6
  <2>4. CASE SetHandler(i, t, [handler[i][t] EXCEPT !.pc = "commit"])
    BY <1>6, <2>1, <2>4
  <2> QED
    BY <1>7, <2>3, <2>4 DEF GetAndTransition
<1>8. ASSUME NEW i \in Instances, NEW t \in ResultTopics, OptimisticLockConflict(i, t)
      PROVE  HandlerKnows'
  <2> DEFINE o == Subject(i, t)
             h == [handler[i][t] EXCEPT !.pc = "get", !.attempt = @ + 1]
  <2>1. /\ handler[i][t].pc = "update"
        /\ handler[i][t].version # version[o]
        /\ UNCHANGED status
    BY <1>8 DEF OptimisticLockConflict, VersionMatches, db
  <2>2. /\ o \in Orders
        /\ o = log[t][handler[i][t].offset]
        /\ handler[i][t].attempt = 0
        /\ handler[i][t].version = Rank["AWAITING_STOCK"]
        /\ status[o] \in {"AWAITING_STOCK"} \cup Final
    BY <1>2, <2>1 DEF IndInv, HandlerKnows
  <2>3. status[o] \in Final
    BY <2>1, <2>2 DEF IndInv, VersionIsRank
  <2>4. handler[i][t].attempt + 1 < maxRetries
    BY <2>2 DEF maxRetries
  <2>5. SetHandler(i, t, h)
    BY <1>8, <2>4 DEF OptimisticLockConflict
  <2>6. h \in HandlerStates
    BY <1>2, HandlerStateType
  <2>7. h.pc = "get" /\ h.attempt = 1 /\ h.offset = handler[i][t].offset
    BY <1>2, <2>2 DEF HandlerStates
  <2>8. h.offset \in DOMAIN log[t]
    BY <2>1, <2>7 DEF IndInv, TypeOK
  <2>9. Knows(h, t)
    BY <2>1, <2>2, <2>3, <2>7
  <2> QED
    BY <1>4, <2>5, <2>6, <2>8, <2>9
<1>9. ASSUME NEW i \in Instances, NEW t \in ResultTopics,
             \/ UpdateStatusWithEvent(i, t) \/ CommitMessages(i, t)
             \/ HandlerError(i, t) \/ UpdateReplyLost(i, t) \/ CommitError(i, t)
      PROVE  HandlerKnows'
  BY <1>6, <1>9 DEF UpdateStatusWithEvent, CommitMessages, HandlerError,
     UpdateReplyLost, CommitError
<1>10. ASSUME NEW i \in Instances, Restart(i) PROVE HandlerKnows'
  <2>1. handler' = [handler EXCEPT ![i] = [t \in ResultTopics |-> Idle]]
    BY <1>10 DEF Restart
  <2>2. ASSUME NEW j \in Instances, NEW u \in ResultTopics
        PROVE  handler'[j][u] = Idle \/ handler'[j][u] = handler[j][u]
    BY <1>1, <2>1
  <2>3. \A u \in ResultTopics : Knows(Idle, u) /\ Idle.pc = "idle"
    BY DEF Idle
  <2>4. \A j \in Instances, u \in ResultTopics :
            handler[j][u].pc = "idle" \/ handler[j][u].offset \in DOMAIN log[u]
    BY DEF IndInv, TypeOK
  <2>5. ASSUME NEW j \in Instances, NEW u \in ResultTopics
        PROVE  /\ Knows(handler'[j][u], u)
               /\ handler'[j][u].pc = "idle" \/ handler'[j][u].offset \in DOMAIN log[u]
    BY <1>2, <2>2, <2>3, <2>4
  <2> QED
    BY <1>3, <2>5
<1>11. ASSUME UNCHANGED handler PROVE HandlerKnows'
  <2>1. \A j \in Instances, u \in ResultTopics :
            handler[j][u].pc = "idle" \/ handler[j][u].offset \in DOMAIN log[u]
    BY DEF IndInv, TypeOK
  <2> QED
    BY <1>2, <1>3, <1>11, <2>1
<1>12. \/ UNCHANGED handler
       \/ \E i \in Instances : Restart(i)
       \/ \E i \in Instances, t \in ResultTopics :
              \/ FetchMessage(i, t) \/ GetAndTransition(i, t)
              \/ OptimisticLockConflict(i, t) \/ UpdateStatusWithEvent(i, t)
              \/ CommitMessages(i, t) \/ HandlerError(i, t)
              \/ UpdateReplyLost(i, t) \/ CommitError(i, t)
  BY DEF OpenNext, WorkerStep, HandlerStep, HandlerFault, CreateOrder, AnyResult,
     fetchPendingTx, Publish, PublishUnacked, Rollback, CommitBatch, Rebalance, vars
<1> QED
  BY <1>5, <1>7, <1>8, <1>9, <1>10, <1>11, <1>12

-----------------------------------------------------------------------------
(* The theorems *)

\* The invariant holds initially ...
LEMMA InitInv == Init => IndInv
<1> SUFFICES ASSUME Init PROVE IndInv
  OBVIOUS
<1>1. TypeOK
  BY InitType
<1>2. DOMAIN outbox = {}
  BY DEF Init
<1>3. /\ VersionIsRank /\ RowsFollowStatus
  BY <1>2 DEF Init, VersionIsRank, RowsFollowStatus, HasRow, Rank, StatusOf, Final,
     Statuses, NoOrder, OrderEvents
<1>4. RowsAreUnique /\ CreatedSent /\ LocksAreExclusive /\ MarkedIsPublished /\ SentIsPublished
  BY <1>2 DEF Init, RowsAreUnique, CreatedSent, LocksAreExclusive, MarkedIsPublished,
     SentIsPublished
<1>5. HandlerKnows
  BY DEF Init, HandlerKnows, Idle
<1>6. VerdictFromInventory
  BY DEF Init, VerdictFromInventory, Verdict, NoOrder
<1> QED
  BY <1>1, <1>3, <1>4, <1>5, <1>6 DEF IndInv

\* ... and every step keeps it.
LEMMA NextInv == IndInv /\ [OpenNext]_vars => IndInv'
<1> SUFFICES ASSUME IndInv, [OpenNext]_vars PROVE IndInv'
  OBVIOUS
<1>1. TypeOK'
  BY NextType DEF IndInv
<1> QED
  BY <1>1, NextKeepsTables, NextKeepsLocks, NextKeepsPublished, NextKeepsHandlers,
     NextKeepsVerdicts
  DEF IndInv, TablesOK

\* The inductive invariant: what the tables, the log, the open transactions
\* and the goroutines know of each other in every reachable state.
THEOREM Invariant == Spec => []IndInv
<1>1. Init => IndInv
  BY InitInv
<1>2. IndInv /\ [OpenNext]_vars => IndInv'
  BY NextInv
<1> QED
  BY <1>1, <1>2, BoundedIsOpen, PTL DEF Spec

\* A row is SENT only when the broker stored its event (worker.go:58-63).
THEOREM NoEventLost == Spec => []SentIsPublished
<1>1. IndInv => SentIsPublished
  BY DEF IndInv
<1> QED
  BY <1>1, Invariant, PTL

\* An order is CONFIRMED or CANCELLED only on the inventory's word.
THEOREM VerdictsAreJustified == Spec => []VerdictFromInventory
<1>1. IndInv => VerdictFromInventory
  BY DEF IndInv
<1> QED
  BY <1>1, Invariant, PTL

\* The three attempts of UpdateOrderStatus are never used up.
THEOREM RetriesSuffice == Spec => []RetryNeverExhausted
<1>1. IndInv => RetryNeverExhausted
  BY DEF IndInv, HandlerKnows, RetryNeverExhausted
<1> QED
  BY <1>1, Invariant, PTL

\* Counting a set whose elements are all equal.
LEMMA CountAtMostOne ==
    ASSUME NEW S, \A r, q \in S : r = q
    PROVE  Cardinality(S) = IF S = {} THEN 0 ELSE 1
<1>1. CASE S = {}
  BY <1>1, FS_EmptySet
<1>2. CASE S # {}
  <2>1. PICK r \in S : S = {r}
    BY <1>2
  <2> QED
    BY <1>2, <2>1, FS_Singleton
<1> QED
  BY <1>1, <1>2

\* The outbox holds exactly the events that the orders' statuses call for.
THEOREM TablesAgree == Spec => []OutboxMatchesOrders
<1>1. IndInv => OutboxMatchesOrders
  <2> SUFFICES ASSUME IndInv PROVE OutboxMatchesOrders
    OBVIOUS
  <2> DEFINE rows(o, type) == {r \in RowsOf(o) : outbox[r].type = type}
  <2>1. ASSUME NEW o \in Orders, NEW type \in OrderEvents
        PROVE  Cardinality(rows(o, type)) = IF status[o] \in StatusOf(type) THEN 1 ELSE 0
    <3>1. \A r, q \in rows(o, type) : r = q
      BY DEF IndInv, RowsAreUnique, RowsOf
    <3>2. rows(o, type) = {} <=> ~HasRow(o, type)
      BY DEF HasRow, RowsOf
    <3>3. HasRow(o, type) <=> status[o] \in StatusOf(type)
      BY DEF IndInv, RowsFollowStatus
    <3> QED
      BY <3>1, <3>2, <3>3, CountAtMostOne
  <2>2. ASSUME NEW o \in Orders
        PROVE  /\ Cardinality(rows(o, "order.created")) = IF status[o] = NoOrder THEN 0 ELSE 1
               /\ Cardinality(rows(o, "order.confirmed")) = IF status[o] = "CONFIRMED" THEN 1 ELSE 0
               /\ Cardinality(rows(o, "order.cancelled")) = IF status[o] = "CANCELLED" THEN 1 ELSE 0
    <3>1. status[o] \in Statuses \cup {NoOrder} /\ status[o] # "COMPLETED"
      BY DEF IndInv, TypeOK, VersionIsRank
    <3>2. /\ status[o] \in StatusOf("order.created") <=> status[o] # NoOrder
          /\ status[o] \in StatusOf("order.confirmed") <=> status[o] = "CONFIRMED"
          /\ status[o] \in StatusOf("order.cancelled") <=> status[o] = "CANCELLED"
      BY <3>1 DEF StatusOf, Statuses, NoOrder, Final
    <3> QED
      BY <2>1, <3>2 DEF OrderEvents
  <2>3. ASSUME NEW o \in Orders, NEW r \in rows(o, "order.created")
        PROVE  outbox[r].sent <=> status[o] # "CREATED"
    BY <2>3 DEF IndInv, CreatedSent, RowsOf
  <2> QED
    BY <2>2, <2>3 DEF OutboxMatchesOrders
<1> QED
  BY <1>1, Invariant, PTL

\* Two writers, stale reads, one state machine: every change of a status is
\* allowed by allowedTransactions.
THEOREM StatusFollowsFSM == Spec => FollowsFSM
<1>1. ASSUME IndInv, [OpenNext]_vars
      PROVE  [\A o \in Orders : status'[o] # status[o] =>
                IF status[o] = NoOrder THEN status'[o] = "CREATED"
                                       ELSE TransitionTo(status[o], status'[o])]_vars
  <2> SUFFICES ASSUME NEW o \in Orders, status'[o] # status[o]
               PROVE  IF status[o] = NoOrder THEN status'[o] = "CREATED"
                                             ELSE TransitionTo(status[o], status'[o])
    OBVIOUS
  <2>1. status \in [Orders -> Statuses \cup {NoOrder}]
    BY <1>1 DEF IndInv, TypeOK
  <2>2. CASE \E p \in Orders : CreateOrder(p)
    BY <2>1, <2>2 DEF CreateOrder
  <2>3. CASE \E w \in Workers : CommitBatch(w)
    <3>1. status[o] = "CREATED" /\ status'[o] = "AWAITING_STOCK"
      BY <2>1, <2>3 DEF CommitBatch, transitionToAwaitingStockTx
    <3> QED
      BY <3>1 DEF TransitionTo, Statuses, allowedTransactions, NoOrder
  <2>4. CASE \E p \in Orders, t \in ResultTopics : Decided(p, t)
    <3>1. status[o] = "AWAITING_STOCK" /\ status'[o] \in Final
      BY <2>1, <2>4 DEF Decided, ApplyVerdict, Verdict, Final
    <3> QED
      BY <3>1 DEF TransitionTo, Statuses, allowedTransactions, NoOrder, Final
  <2>5. CASE UNCHANGED db
    BY <2>5 DEF db
  <2> QED
    BY <1>1, <2>2, <2>3, <2>4, <2>5, DatabaseSteps
<1> QED
  BY <1>1, Invariant, BoundedIsOpen, PTL DEF Spec, FollowsFSM

-----------------------------------------------------------------------------
(* The refinement of OrderSaga *)

\* What one more message in a topic does to what is announced.
LEMMA AnnouncedAfterAppend ==
    ASSUME TypeOK, NEW t \in Topics, NEW o \in Orders,
           log' = [log EXCEPT ![t] = Append(@, o)]
    PROVE  /\ t \in OrderEvents =>
                 Announced' = [Announced EXCEPT ![o] = @ \cup {t}]
           /\ t \notin OrderEvents => Announced' = Announced
<1>1. log \in [Topics -> Seq(Orders)] /\ log[t] \in Seq(Orders)
  BY DEF TypeOK
<1>2. ASSUME NEW u \in Topics, NEW p \in Orders
      PROVE  p \in Published(u)' <=> p \in Published(u) \/ (u = t /\ p = o)
  <2>1. CASE u = t
    <3>1. log'[u] = Append(log[t], o)
      BY <1>1, <2>1
    <3>2. {Append(log[t], o)[k] : k \in DOMAIN Append(log[t], o)}
            = {log[t][k] : k \in DOMAIN log[t]} \cup {o}
      BY <1>1, RangeAppend, SMTT(30)
    <3>3. Published(u)' = {Append(log[t], o)[k] : k \in DOMAIN Append(log[t], o)}
      BY <3>1 DEF Published
    <3>4. Published(u) = {log[t][k] : k \in DOMAIN log[t]}
      BY <2>1 DEF Published
    <3> QED
      BY <2>1, <3>2, <3>3, <3>4
  <2>2. CASE u # t
    BY <1>1, <2>2 DEF Published
  <2> QED
    BY <2>1, <2>2
<1>3. OrderEvents \subseteq Topics
  BY DEF Topics
<1>4. ASSUME t \in OrderEvents
      PROVE  Announced' = [Announced EXCEPT ![o] = @ \cup {t}]
  <2>1. ASSUME NEW p \in Orders
        PROVE  {e \in OrderEvents : p \in Published(e)'}
                 = IF p = o THEN {e \in OrderEvents : p \in Published(e)} \cup {t}
                            ELSE {e \in OrderEvents : p \in Published(e)}
    BY <1>2, <1>3, <1>4
  <2> QED
    BY <2>1 DEF Announced
<1>5. ASSUME t \notin OrderEvents PROVE Announced' = Announced
  <2>1. ASSUME NEW p \in Orders
        PROVE  {e \in OrderEvents : p \in Published(e)'}
                 = {e \in OrderEvents : p \in Published(e)}
    BY <1>2, <1>3, <1>5
  <2> QED
    BY <2>1 DEF Announced
<1> QED
  BY <1>4, <1>5

\* Nothing is announced before the first message.
LEMMA InitRefines == Init => Saga!Init
<1> SUFFICES ASSUME Init PROVE Saga!Init
  OBVIOUS
<1>1. \A e \in OrderEvents : Published(e) = {}
  BY DEF Init, Published, Topics
<1>2. Announced = [o \in Orders |-> {}]
  BY <1>1 DEF Announced
<1> QED
  BY <1>2 DEF Init, Saga!Init, NoOrder

\* Every step of the service is a step of the saga or changes nothing of it.
LEMMA NextRefines ==
    ASSUME IndInv, [OpenNext]_vars
    PROVE  [Saga!Next]_(Saga!vars)
<1>1. /\ TypeOK
      /\ status \in [Orders -> Statuses \cup {NoOrder}]
      /\ batch \in [Workers -> SUBSET (DOMAIN outbox)]
  BY DEF IndInv, TypeOK
<1>2. ASSUME NEW w \in Workers, Publish(w) \/ PublishUnacked(w)
      PROVE  Saga!Next
  <2>1. PICK r \in batch[w] : AppendToTopic(r)
    BY <1>2 DEF Publish, PublishUnacked
  <2> DEFINE o == outbox[r].order
             e == outbox[r].type
  <2>2. o \in Orders /\ e \in OrderEvents /\ e \in Topics /\ r \in DOMAIN outbox
    BY <1>1, RowType DEF Topics
  <2>3. Announced' = [Announced EXCEPT ![o] = @ \cup {e}]
    BY <1>1, <2>1, <2>2, AnnouncedAfterAppend DEF AppendToTopic
  <2>4. UNCHANGED status
    BY <1>2 DEF Publish, PublishUnacked, db
  <2>5. status[o] \in StatusOf(e)
    BY <2>2 DEF IndInv, RowsFollowStatus, HasRow
  <2>6. \/ e = "order.created" /\ status[o] # "NONE"
        \/ status[o] \in Saga!Verdicts /\ e = Saga!EventOf(status[o])
    BY <2>2, <2>5 DEF StatusOf, OrderEvents, Final, Saga!Verdicts, Saga!EventOf
  <2>7. Saga!Announce(o, e)
    BY <2>3, <2>4, <2>6 DEF Saga!Announce
  <2> QED
    BY <2>2, <2>7 DEF Saga!Next, OrderEvents
<1>3. ASSUME NEW o \in Orders, NEW t \in ResultTopics, AnyResult(o, t)
      PROVE  UNCHANGED Saga!vars
  <2>1. t \in Topics /\ t \notin OrderEvents
    BY DEF Topics, ResultTopics, OrderEvents
  <2>2. Announced' = Announced
    BY <1>1, <1>3, <2>1, AnnouncedAfterAppend DEF AnyResult
  <2> QED
    BY <1>3, <2>2 DEF AnyResult, db, Saga!vars
<1>4. ASSUME UNCHANGED log PROVE Announced' = Announced
  BY <1>4 DEF Announced, Published
<1>5. ASSUME UNCHANGED log, NEW o \in Orders, CreateOrder(o) PROVE Saga!Next
  <2>1. Saga!Accept(o)
    BY <1>4, <1>5 DEF CreateOrder, Saga!Accept, NoOrder
  <2> QED
    BY <2>1 DEF Saga!Next
<1>6. ASSUME UNCHANGED log, NEW w \in Workers, CommitBatch(w) PROVE Saga!Next
  <2> DEFINE moved == transitionToAwaitingStockTx(w)
  <2>1. ASSUME NEW o \in moved
        PROVE  status[o] = "CREATED" /\ "order.created" \in Announced[o]
    <3>1. PICK r \in batch[w] : outbox[r].order = o /\ outbox[r].type = "order.created"
      BY DEF transitionToAwaitingStockTx
    <3>2. r \in marked[w] /\ r \in DOMAIN outbox
      BY <1>1, <1>6 DEF CommitBatch
    <3>3. o \in Published("order.created")
      BY <3>1, <3>2 DEF IndInv, MarkedIsPublished
    <3> QED
      BY <3>3 DEF Announced, OrderEvents, transitionToAwaitingStockTx
  <2>2. moved \in SUBSET Orders
    BY DEF transitionToAwaitingStockTx
  <2>3. Saga!AwaitStock(moved)
    BY <1>4, <1>6, <2>1 DEF CommitBatch, Saga!AwaitStock
  <2> QED
    BY <2>2, <2>3 DEF Saga!Next
<1>7. ASSUME UNCHANGED log, NEW o \in Orders, NEW t \in ResultTopics, Decided(o, t)
      PROVE  Saga!Next
  <2>1. Saga!Decide(o, Verdict(t))
    BY <1>4, <1>7 DEF Decided, ApplyVerdict, Saga!Decide
  <2> QED
    BY <2>1 DEF Saga!Next, Saga!Verdicts, Verdict
<1>8. ASSUME UNCHANGED log, UNCHANGED db PROVE UNCHANGED Saga!vars
  BY <1>4, <1>8 DEF db, Saga!vars
<1>9. \/ UNCHANGED log
      \/ \E w \in Workers : Publish(w) \/ PublishUnacked(w)
      \/ \E o \in Orders, t \in ResultTopics : AnyResult(o, t)
  BY QuietSteps DEF fetchPendingTx, CommitBatch, Rollback
<1> QED
  BY <1>2, <1>3, <1>5, <1>6, <1>7, <1>8, <1>9, DatabaseSteps

\* The order service, with its workers, retries and lost offsets, does what
\* the saga says: it announces an event only of an order that has reached
\* that status, and never both verdicts of one order.
THEOREM Refinement == Spec => ImplementsSaga
<1>1. Init => Saga!Init
  BY InitRefines
<1>2. IndInv /\ [OpenNext]_vars => [Saga!Next]_(Saga!vars)
  BY NextRefines
<1> QED
  BY <1>1, <1>2, Invariant, BoundedIsOpen, PTL DEF Spec, ImplementsSaga, Saga!Spec

-----------------------------------------------------------------------------
(* Every copy of an event is paid for by a fault, for any number of workers *)
(* on one outbox: a count on top of the invariant.                           *)

\* The faults that may publish a row once more.
Paid == faults["rollback"] + faults["ack"]

\* The publish of row r is acknowledged, and not rolled back so far.
Done(r) == outbox[r].sent \/ \E w \in Workers : r \in marked[w]

Accounted(topic, o) ==
    \E r \in DOMAIN outbox : outbox[r].order = o /\ outbox[r].type = topic /\ Done(r)

CopiesPaid ==
    \A topic \in OrderEvents, o \in Orders :
        Copies(topic, o) <= (IF Accounted(topic, o) THEN 1 ELSE 0) + Paid

-----------------------------------------------------------------------------
\* One message more is one copy more of that message.
LEMMA CopiesAppend ==
    ASSUME TypeOK, NEW t \in Topics, NEW p \in Orders,
           log' = [log EXCEPT ![t] = Append(@, p)]
    PROVE  \A u \in Topics, o \in Orders :
              /\ Copies(u, o) \in Nat
              /\ Copies(u, o)' = IF u = t /\ o = p THEN Copies(u, o) + 1 ELSE Copies(u, o)
<1> DEFINE at(u, o) == {k \in DOMAIN log[u] : log[u][k] = o}
<1>1. log \in [Topics -> Seq(Orders)]
  BY DEF TypeOK
<1>2. SUFFICES ASSUME NEW u \in Topics, NEW o \in Orders
      PROVE  /\ Copies(u, o) \in Nat
             /\ Copies(u, o)' = IF u = t /\ o = p THEN Copies(u, o) + 1 ELSE Copies(u, o)
  OBVIOUS
<1>3. /\ log[u] \in Seq(Orders) /\ DOMAIN log[u] = 1..Len(log[u]) /\ Len(log[u]) \in Nat
  BY <1>1, LenProperties
<1>4. IsFiniteSet(at(u, o))
  <2>1. IsFiniteSet(DOMAIN log[u])
    BY <1>3, FS_Interval
  <2> QED
    BY <2>1, FS_Subset
<1>5. Copies(u, o) = Cardinality(at(u, o)) /\ Copies(u, o) \in Nat
  BY <1>4, FS_CardinalityType DEF Copies
<1>6. CASE u # t
  <2>1. log'[u] = log[u]
    BY <1>1, <1>6
  <2> QED
    BY <1>5, <1>6, <2>1 DEF Copies
<1>7. CASE u = t
  <2> DEFINE n == Len(log[t]) + 1
  <2>1. log'[t] = Append(log[t], p)
    BY <1>1
  <2>2. /\ DOMAIN log'[t] = DOMAIN log[t] \cup {n} /\ n \notin DOMAIN log[t]
        /\ log'[t][n] = p
        /\ \A k \in DOMAIN log[t] : log'[t][k] = log[t][k]
    BY <1>3, <1>7, <2>1, AppendProperties, LenProperties
  <2> HIDE DEF n
  <2>3. at(u, o)' = IF o = p THEN at(u, o) \cup {n} ELSE at(u, o)
    BY <1>7, <2>2
  <2>4. n \notin at(u, o)
    BY <1>7, <2>2
  <2>5. Cardinality(at(u, o) \cup {n}) = Cardinality(at(u, o)) + 1
    BY <1>4, <2>4, FS_AddElement
  <2>6. Copies(u, o)' = Cardinality(at(u, o)')
    BY DEF Copies
  <2> HIDE DEF at
  <2>7. CASE o = p
    BY <1>5, <1>7, <2>3, <2>5, <2>6, <2>7
  <2>8. CASE o # p
    BY <1>5, <1>7, <2>3, <2>6, <2>8
  <2> QED
    BY <2>7, <2>8
<1> QED
  BY <1>6, <1>7

LEMMA CopiesType ==
    ASSUME TypeOK
    PROVE  \A u \in Topics, o \in Orders : Copies(u, o) \in Nat
<1>1. SUFFICES ASSUME NEW u \in Topics, NEW o \in Orders PROVE Copies(u, o) \in Nat
  OBVIOUS
<1>2. log[u] \in Seq(Orders) /\ DOMAIN log[u] = 1..Len(log[u]) /\ Len(log[u]) \in Nat
  BY LenProperties DEF TypeOK
<1>3. IsFiniteSet({k \in DOMAIN log[u] : log[u][k] = o})
  <2>1. IsFiniteSet(DOMAIN log[u])
    BY <1>2, FS_Interval
  <2> QED
    BY <2>1, FS_Subset
<1> QED
  BY <1>3, FS_CardinalityType DEF Copies

\* Faults only add up.
LEMMA PaidGrows ==
    ASSUME TypeOK, [OpenNext]_vars
    PROVE  Paid \in Nat /\ Paid' \in Nat /\ Paid <= Paid'
<1>1. faults \in [FaultKinds -> Nat]
  BY DEF TypeOK
<1>2. UNCHANGED faults \/ \E k \in FaultKinds : Fault(k)
  <2>1. ASSUME NEW w \in Workers, WorkerStep(w) \/ PublishUnacked(w) \/ Rollback(w)
        PROVE  UNCHANGED faults \/ \E k \in FaultKinds : Fault(k)
    BY <2>1 DEF WorkerStep, fetchPendingTx, Publish, CommitBatch, PublishUnacked, Rollback,
       FaultKinds
  <2>2. ASSUME NEW i \in Instances, NEW t \in ResultTopics,
               HandlerStep(i, t) \/ HandlerFault(i, t)
        PROVE  UNCHANGED faults \/ \E k \in FaultKinds : Fault(k)
    <3>1. CASE HandlerStep(i, t)
      BY <3>1 DEF HandlerStep, FetchMessage, GetAndTransition, UpdateStatusWithEvent,
         OptimisticLockConflict, CommitMessages
    <3>2. CASE HandlerFault(i, t)
      BY <3>2 DEF HandlerFault, HandlerError, UpdateReplyLost, CommitError, Rebalance,
         FaultKinds
    <3> QED
      BY <2>2, <3>1, <3>2
  <2> QED
    BY <2>1, <2>2 DEF OpenNext, vars, CreateOrder, AnyResult, Restart, FaultKinds
<1>3. ASSUME NEW k \in FaultKinds, Fault(k)
      PROVE  /\ faults'["rollback"] \in {faults["rollback"], faults["rollback"] + 1}
             /\ faults'["ack"] \in {faults["ack"], faults["ack"] + 1}
  BY <1>1, <1>3 DEF Fault, FaultKinds
<1>4. faults["rollback"] \in Nat /\ faults["ack"] \in Nat
  BY <1>1 DEF FaultKinds
<1> QED
  BY <1>2, <1>3, <1>4 DEF Paid

\* A fault of the two kinds that publish again.
LEMMA FaultPays ==
    ASSUME TypeOK, NEW k \in {"rollback", "ack"}, Fault(k)
    PROVE  Paid \in Nat /\ Paid' = Paid + 1
<1>1. faults \in [FaultKinds -> Nat] /\ faults' = [faults EXCEPT ![k] = @ + 1]
  BY DEF TypeOK, Fault
<1>2. /\ faults["rollback"] \in Nat /\ faults["ack"] \in Nat
      /\ faults'["rollback"] = IF k = "rollback" THEN faults["rollback"] + 1
                                                 ELSE faults["rollback"]
      /\ faults'["ack"] = IF k = "ack" THEN faults["ack"] + 1 ELSE faults["ack"]
  BY <1>1 DEF FaultKinds
<1> QED
  BY <1>2 DEF Paid

-----------------------------------------------------------------------------
\* What counts for a row counts after any step that does not roll it back.
LEMMA AccountedStays ==
    ASSUME IndInv, [OpenNext]_vars, ~\E w \in Workers : Rollback(w),
           NEW topic, NEW o, Accounted(topic, o)
    PROVE  Accounted(topic, o)'
<1>1. PICK r \in DOMAIN outbox : outbox[r].order = o /\ outbox[r].type = topic /\ Done(r)
  BY DEF Accounted
<1>2. /\ r \in DOMAIN outbox' /\ outbox'[r].order = o /\ outbox'[r].type = topic
      /\ outbox'[r].sent = (outbox[r].sent
            \/ \E w \in Workers : CommitBatch(w) /\ r \in marked[w])
  BY <1>1, RowsStay
<1>3. outbox'[r].sent \/ \E w \in Workers : r \in marked'[w]
  <2>1. CASE outbox[r].sent
    BY <1>2, <2>1
  <2>2. ASSUME NEW w \in Workers, r \in marked[w]
        PROVE  outbox'[r].sent \/ \E v \in Workers : r \in marked'[v]
    <3>1. marked \in [Workers -> SUBSET (DOMAIN outbox)]
      BY DEF IndInv, TypeOK
    <3>2. CASE CommitBatch(w)
      BY <1>2, <2>2, <3>2
    <3>3. ASSUME ~CommitBatch(w) PROVE r \in marked'[w]
      <4>1. CASE UNCHANGED workerTx
        BY <2>2, <4>1 DEF workerTx
      <4>2. ASSUME NEW v \in Workers, fetchPendingTx(v) \/ CommitBatch(v) \/ Publish(v)
                                       \/ PublishUnacked(v)
            PROVE  r \in marked'[w]
        BY <2>2, <3>1, <3>3, <4>2 DEF fetchPendingTx, CommitBatch, Publish, PublishUnacked,
           workerTx
      <4>3. ASSUME NEW q \in Orders, NEW t \in ResultTopics, AnyResult(q, t)
            PROVE  r \in marked'[w]
        BY <2>2, <4>3 DEF AnyResult, workerTx
      <4> QED
        BY <4>1, <4>2, <4>3, QuietSteps
    <3> QED
      BY <3>2, <3>3
  <2> QED
    BY <1>1, <2>1, <2>2 DEF Done
<1> QED
  BY <1>2, <1>3 DEF Accounted, Done

LEMMA PublishPays ==
    ASSUME IndInv, CopiesPaid, [OpenNext]_vars, NEW w \in Workers,
           Publish(w) \/ PublishUnacked(w)
    PROVE  CopiesPaid'
<1>1. PICK r \in batch[w] :
        /\ NextRecord(w, r) /\ AppendToTopic(r)
        /\ \/ marked' = [marked EXCEPT ![w] = @ \cup {r}] /\ UNCHANGED <<db, faults>>
           \/ Fault("ack")
  BY DEF Publish, PublishUnacked
<1>2. /\ TypeOK /\ RowsAreUnique /\ LocksAreExclusive
      /\ batch \in [Workers -> SUBSET (DOMAIN outbox)]
      /\ marked \in [Workers -> SUBSET (DOMAIN outbox)]
  BY DEF IndInv, TypeOK
<1>3. r \in DOMAIN outbox /\ outbox[r] \in Rows
  BY <1>2, RowType
<1>4. PICK t \in OrderEvents, p \in Orders : t = outbox[r].type /\ p = outbox[r].order
  BY <1>3 DEF Rows
<1>5. \A u \in OrderEvents, o \in Orders :
         /\ Copies(u, o) \in Nat
         /\ Copies(u, o)' = IF u = t /\ o = p THEN Copies(u, o) + 1 ELSE Copies(u, o)
  <2>1. OrderEvents \subseteq Topics
    BY DEF Topics
  <2>2. log' = [log EXCEPT ![t] = Append(@, p)]
    BY <1>1, <1>4 DEF AppendToTopic
  <2> QED
    BY <1>2, <2>1, <2>2, CopiesAppend
<1>6. Paid \in Nat /\ Paid' \in Nat /\ Paid <= Paid'
  BY <1>2, PaidGrows
<1>7. ~\E v \in Workers : Rollback(v)
  <2>1. log \in [Topics -> Seq(Orders)] /\ log[t] \in Seq(Orders) /\ log'[t] # log[t]
    <3>1. log \in [Topics -> Seq(Orders)] /\ t \in Topics
      BY <1>2, <1>4 DEF TypeOK, Topics
    <3>2. log'[t] = Append(log[t], p)
      BY <1>1, <1>4, <3>1 DEF AppendToTopic
    <3>3. Len(log'[t]) = Len(log[t]) + 1 /\ Len(log[t]) \in Nat
      BY <3>1, <3>2, AppendProperties, LenProperties
    <3> QED
      BY <3>1, <3>3
  <2> QED
    BY <2>1 DEF Rollback
<1>8. \A u \in OrderEvents, o \in Orders : Accounted(u, o) => Accounted(u, o)'
  BY <1>7, AccountedStays
<1>9. Copies(t, p)' <= (IF Accounted(t, p)' THEN 1 ELSE 0) + Paid'
  <2>1. CASE Fault("ack")
    <3>1. Paid' = Paid + 1
      BY <1>2, <2>1, FaultPays
    <3>2. Copies(t, p) <= (IF Accounted(t, p) THEN 1 ELSE 0) + Paid
      BY DEF CopiesPaid
    <3> QED
      BY <1>5, <1>6, <1>8, <3>1, <3>2
  <2>2. CASE marked' = [marked EXCEPT ![w] = @ \cup {r}] /\ UNCHANGED <<db, faults>>
    <3>1. ~Done(r)
      BY <1>1, <1>2 DEF LocksAreExclusive, NextRecord, Done
    <3>2. ~Accounted(t, p)
      BY <1>2, <1>3, <1>4, <3>1 DEF Accounted, RowsAreUnique
    <3>3. Copies(t, p) <= Paid
      BY <1>5, <1>6, <3>2 DEF CopiesPaid
    <3>4. Accounted(t, p)'
      <4>1. r \in marked'[w] /\ UNCHANGED outbox
        BY <1>2, <2>2 DEF db
      <4> QED
        BY <1>3, <1>4, <4>1 DEF Accounted, Done
    <3>5. Paid' = Paid
      BY <2>2 DEF Paid
    <3> QED
      BY <1>5, <1>6, <3>3, <3>4, <3>5
  <2> QED
    BY <1>1, <2>1, <2>2
<1>10. ASSUME NEW u \in OrderEvents, NEW o \in Orders, ~(u = t /\ o = p)
       PROVE  Copies(u, o)' <= (IF Accounted(u, o)' THEN 1 ELSE 0) + Paid'
  <2>1. Copies(u, o) <= (IF Accounted(u, o) THEN 1 ELSE 0) + Paid
    BY DEF CopiesPaid
  <2>2. Copies(u, o)' = Copies(u, o) /\ Copies(u, o) \in Nat
    BY <1>5, <1>10
  <2> QED
    BY <1>6, <1>8, <2>1, <2>2
<1> QED
  BY <1>9, <1>10 DEF CopiesPaid

\* A step that publishes none of the order service's events.
LEMMA SilentPays ==
    ASSUME IndInv, CopiesPaid, [OpenNext]_vars,
           \A u \in OrderEvents : log'[u] = log[u]
    PROVE  CopiesPaid'
<1>1. TypeOK
  BY DEF IndInv
<1>2. Paid \in Nat /\ Paid' \in Nat /\ Paid <= Paid'
  BY <1>1, PaidGrows
<1>3. SUFFICES ASSUME NEW u \in OrderEvents, NEW o \in Orders
      PROVE  Copies(u, o)' <= (IF Accounted(u, o)' THEN 1 ELSE 0) + Paid'
  BY DEF CopiesPaid
<1>4. Copies(u, o)' = Copies(u, o) /\ Copies(u, o) \in Nat
  BY <1>1, CopiesType DEF Copies, Topics
<1>5. Copies(u, o) <= (IF Accounted(u, o) THEN 1 ELSE 0) + Paid
  BY DEF CopiesPaid
<1>6. CASE \E w \in Workers : Rollback(w)
  <2>1. Paid' = Paid + 1
    BY <1>1, <1>6, FaultPays DEF Rollback
  <2> QED
    BY <1>2, <1>4, <1>5, <2>1
<1>7. CASE ~\E w \in Workers : Rollback(w)
  <2>1. Accounted(u, o) => Accounted(u, o)'
    BY <1>7, AccountedStays
  <2> QED
    BY <1>2, <1>4, <1>5, <2>1
<1> QED
  BY <1>6, <1>7

LEMMA NextPays ==
    ASSUME IndInv, CopiesPaid, [OpenNext]_vars
    PROVE  CopiesPaid'
<1>1. CASE \E w \in Workers : Publish(w) \/ PublishUnacked(w)
  BY <1>1, PublishPays
<1>2. ASSUME NEW o \in Orders, NEW t \in ResultTopics, AnyResult(o, t)
      PROVE  \A u \in OrderEvents : log'[u] = log[u]
  <2>1. log \in [Topics -> Seq(Orders)]
    BY DEF IndInv, TypeOK
  <2> QED
    BY <1>2, <2>1 DEF AnyResult, OrderEvents, ResultTopics, Topics
<1>3. ASSUME NEW w \in Workers, fetchPendingTx(w) \/ CommitBatch(w) \/ Rollback(w)
      PROVE  UNCHANGED log
  BY <1>3 DEF fetchPendingTx, CommitBatch, Rollback
<1> QED
  BY <1>1, <1>2, <1>3, QuietSteps, SilentPays

LEMMA InitPays == Init => CopiesPaid
<1> SUFFICES ASSUME Init PROVE CopiesPaid
  OBVIOUS
<1>1. Paid \in Nat
  BY DEF Init, Paid, FaultKinds
<1>2. ASSUME NEW u \in OrderEvents, NEW o \in Orders PROVE Copies(u, o) = 0
  <2>1. {k \in DOMAIN log[u] : log[u][k] = o} = {}
    BY DEF Init, Topics
  <2> QED
    BY <2>1, FS_EmptySet DEF Copies
<1> QED
  BY <1>1, <1>2 DEF CopiesPaid

-----------------------------------------------------------------------------
\* An event is published twice only because a batch was rolled back or an
\* acknowledgement was lost, once for each (worker.go:58-141).
THEOREM CopiesArePaid == Spec => []CopiesBoundedByFaults
<1>1. Init => CopiesPaid
  BY InitPays
<1>2. IndInv /\ CopiesPaid /\ [OpenNext]_vars => CopiesPaid'
  BY NextPays
<1>3. IndInv /\ CopiesPaid => CopiesBoundedByFaults
  <2> SUFFICES ASSUME IndInv, CopiesPaid, NEW u \in OrderEvents, NEW o \in Orders
               PROVE  Copies(u, o) <= 1 + faults["rollback"] + faults["ack"]
    BY DEF CopiesBoundedByFaults
  <2>1. faults["rollback"] \in Nat /\ faults["ack"] \in Nat /\ Copies(u, o) \in Nat
    BY CopiesType DEF IndInv, TypeOK, FaultKinds, Topics
  <2>2. Copies(u, o) <= (IF Accounted(u, o) THEN 1 ELSE 0)
                          + (faults["rollback"] + faults["ack"])
    BY DEF CopiesPaid, Paid
  <2> QED
    BY <2>1, <2>2
<1> QED
  BY <1>1, <1>2, <1>3, Invariant, BoundedIsOpen, PTL DEF Spec

=============================================================================
