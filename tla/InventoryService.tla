-------------------------- MODULE InventoryService --------------------------
(***************************************************************************)
(* The inventory service: the consumer of order.created, the reservation   *)
(* transaction over stock, processed_events and outbox with its row locks, *)
(* and the separate statement that records a refusal.                      *)
(*                                                                         *)
(* The order service is the environment: it publishes order.created for an *)
(* order, possibly more than once.  An operator may restock a SKU.         *)
(* Definitions introduced by "Mutant" are no part of Next, see README.md.  *)
(***************************************************************************)
EXTENDS Integers, Sequences, FiniteSets, SequencesExt, FiniteSetsExt, ConsumerGroup

CONSTANTS
    Orders,        \* order ids
    SKUs,          \* stock keeping units that requests name
    Items,         \* Items[o]: the lines [sku, qty] of order o
    InitialStock,  \* InitialStock[s]: available units, for the SKUs with a row
    Instances,     \* inventory-service processes, members of the group
    MaxMessages,   \* bound: messages in order.created
    MaxRestocks,   \* bound: restocks of one SKU, by one unit each
    MaxFaults      \* bound: MaxFaults[k] faults of kind k

Stocked == DOMAIN InitialStock

\* "error" - a database call fails, or its reply is lost; "commit" - an offset
\* commit fails; "rebalance" - a new generation of the group, or a restart.
FaultKinds == {"error", "commit", "rebalance"}

ASSUME InventoryAssumption ==
    /\ \A o \in Orders : Items[o] \in Seq([sku : SKUs, qty : Int])
    /\ Stocked \subseteq SKUs
    /\ \A s \in Stocked : InitialStock[s] \in Nat
    /\ MaxMessages \in Nat /\ MaxRestocks \in Nat
    /\ MaxFaults \in [FaultKinds -> Nat]

VARIABLES
    stock,      \* stock[s]: [available, reserved]
    processed,  \* processed_events
    outbox,     \* answers in created_at order: [order, type]
    log,        \* the topic order.created, as order ids
    group,      \* the consumer group on it
    handler,    \* handler[i]: [pc, offset, line] of the consumer of instance i
    held,       \* held[i]: stock rows locked by the open transaction of i
    local,      \* local[i]: the locked rows as that transaction sees them
    restocks,   \* restocks[s]: units added to s by hand
    faults      \* faults that happened, per kind

tables == <<stock, processed, outbox>>
tx     == <<held, local>>
env    == <<log, restocks>>
vars   == <<stock, processed, outbox, log, group, handler, held, local,
            restocks, faults>>

-----------------------------------------------------------------------------
Fault(kind) ==
    /\ faults[kind] < MaxFaults[kind]
    /\ faults' = [faults EXCEPT ![kind] = @ + 1]

Idle == [pc |-> "idle", offset |-> 0, line |-> 0]

Goto(i, pc) == handler' = [handler EXCEPT ![i] = [@ EXCEPT !.pc = pc]]
Stop(i)     == handler' = [handler EXCEPT ![i] = Idle]

Subject(i) == log[handler[i].offset]
Lines(i)   == Items[Subject(i)]
Line(i)    == Lines(i)[handler[i].line]

NoRows == [s \in Stocked |-> [available |-> 0, reserved |-> 0]]

\* The transaction of i ends, whichever way.
Released(i) ==
    /\ held'  = [held EXCEPT ![i] = {}]
    /\ local' = [local EXCEPT ![i] = NoRows]

Answer(o, type) == outbox' = Append(outbox, [order |-> o, type |-> type])

Init ==
    /\ stock     = [s \in Stocked |-> [available |-> InitialStock[s], reserved |-> 0]]
    /\ processed = {}
    /\ outbox    = <<>>
    /\ log       = <<>>
    /\ group     \in {NewGroup(i) : i \in Instances}
    /\ handler   = [i \in Instances |-> Idle]
    /\ held      = [i \in Instances |-> {}]
    /\ local     = [i \in Instances |-> NoRows]
    /\ restocks  = [s \in Stocked |-> 0]
    /\ faults    = [k \in FaultKinds |-> 0]

-----------------------------------------------------------------------------
(* The environment *)

OrderPublished(o) ==
    /\ Len(log) < MaxMessages
    /\ log' = Append(log, o)
    /\ UNCHANGED <<tables, group, handler, tx, restocks, faults>>

\* An UPDATE by hand: it waits for the row like any other transaction.
Restock(s) ==
    /\ restocks[s] < MaxRestocks
    /\ \A i \in Instances : s \notin held[i]
    /\ stock' = [stock EXCEPT ![s].available = @ + 1]
    /\ restocks' = [restocks EXCEPT ![s] = @ + 1]
    /\ UNCHANGED <<processed, outbox, log, group, handler, tx, faults>>

-----------------------------------------------------------------------------
(* handleMessage and ReserveAll, one database call at a time *)

\* Mutant: ReadMessage, which commits the offset on delivery.
ReadMessage(i) ==
    /\ group.owner = i
    /\ handler[i].pc = "idle"
    /\ HasNext(group, log)
    /\ group' = CommitOffset(Deliver(group), group.position + 1)
    /\ handler' = [handler EXCEPT ![i] =
                      [pc |-> "check", offset |-> group.position + 1, line |-> 0]]
    /\ UNCHANGED <<tables, env, tx, faults>>

FetchMessage(i) ==
    /\ group.owner = i
    /\ handler[i].pc = "idle"
    /\ HasNext(group, log)
    /\ group' = Deliver(group)
    /\ handler' = [handler EXCEPT ![i] =
                      [pc |-> "check", offset |-> group.position + 1, line |-> 0]]
    /\ UNCHANGED <<tables, env, tx, faults>>

\* A duplicate: ErrAlreadyProcessed, the offset is committed.
AlreadyProcessed(i) ==
    /\ handler[i].pc = "check"
    /\ Subject(i) \in processed
    /\ Goto(i, "commit")
    /\ UNCHANGED <<tables, env, group, tx, faults>>

\* Mutant: processed_events is written and never asked.
ProcessedIgnored(i) ==
    /\ handler[i].pc = "check"
    /\ Goto(i, "lock")
    /\ UNCHANGED <<tables, env, group, tx, faults>>

NotProcessed(i) ==
    /\ handler[i].pc = "check"
    /\ Subject(i) \notin processed
    /\ Goto(i, "lock")
    /\ UNCHANGED <<tables, env, group, tx, faults>>

\* SELECT ... WHERE sku = ANY FOR UPDATE locks the rows one after the other,
\* in no particular order, and returns each as it is once locked.
Wanted(i) == {Lines(i)[k].sku : k \in DOMAIN Lines(i)} \cap Stocked

RowIsFree(s) == \A j \in Instances : s \notin held[j]

\* Mutant: the row is read first and locked later, as it was read.
ReadThenLock(i, s) ==
    /\ handler[i].pc = "lock"
    /\ s \in Wanted(i) \ held[i]
    /\ \/ local[i][s] = NoRows[s] /\ local' = [local EXCEPT ![i][s] = stock[s]]
                                 /\ UNCHANGED held
       \/ local[i][s] # NoRows[s] /\ RowIsFree(s)
                                 /\ held' = [held EXCEPT ![i] = @ \cup {s}]
                                 /\ UNCHANGED local
    /\ UNCHANGED <<tables, env, group, handler, faults>>

LockRow(i, s) ==
    /\ handler[i].pc = "lock"
    /\ s \in Wanted(i) \ held[i]
    /\ RowIsFree(s)
    /\ held'  = [held EXCEPT ![i] = @ \cup {s}]
    /\ local' = [local EXCEPT ![i][s] = stock[s]]
    /\ UNCHANGED <<tables, env, group, handler, faults>>

\* Every line names a stocked SKU with enough units for that line alone.
LineIsCovered(i, l) ==
    l.sku \in Stocked /\ local[i][l.sku].available >= l.qty

AllCovered(i) == \A k \in DOMAIN Lines(i) : LineIsCovered(i, Lines(i)[k])

StockChecked(i) ==
    /\ handler[i].pc = "lock"
    /\ held[i] = Wanted(i)
    /\ AllCovered(i)
    /\ handler' = [handler EXCEPT ![i] = [@ EXCEPT !.pc = "reserve", !.line = 1]]
    /\ UNCHANGED <<tables, env, group, tx, faults>>

\* ErrStockNotFound or ErrInsufficientStock: the transaction is rolled back.
StockRefused(i) ==
    /\ handler[i].pc = "lock"
    /\ held[i] = Wanted(i)
    /\ ~AllCovered(i)
    /\ Goto(i, "refuse")
    /\ Released(i)
    /\ UNCHANGED <<tables, env, group, faults>>

\* Mutant: Reserve trusts the check of all lines that came before.
ReserveUnchecked(i) ==
    /\ handler[i].pc = "reserve"
    /\ handler[i].line \in DOMAIN Lines(i)
    /\ local' = [local EXCEPT ![i][Line(i).sku] =
                    [available |-> @.available - Line(i).qty,
                     reserved  |-> @.reserved + Line(i).qty]]
    /\ handler' = [handler EXCEPT ![i].line = @ + 1]
    /\ UNCHANGED <<tables, env, group, held, faults>>

\* Stock.Reserve on one line and its UPDATE, inside the transaction.
ReserveLine(i) ==
    /\ handler[i].pc = "reserve"
    /\ handler[i].line \in DOMAIN Lines(i)
    /\ LET l == Line(i) IN
         /\ l.qty > 0
         /\ local[i][l.sku].available >= l.qty
         /\ local' = [local EXCEPT ![i][l.sku] =
                         [available |-> @.available - l.qty,
                          reserved  |-> @.reserved + l.qty]]
    /\ handler' = [handler EXCEPT ![i].line = @ + 1]
    /\ UNCHANGED <<tables, env, group, held, faults>>

\* Mutant: the error of Reserve is not wrapped, so it is no business error.
LineRefusedUnwrapped(i) ==
    /\ handler[i].pc = "reserve"
    /\ handler[i].line \in DOMAIN Lines(i)
    /\ Line(i).qty > 0
    /\ local[i][Line(i).sku].available < Line(i).qty
    /\ Stop(i)
    /\ Released(i)
    /\ UNCHANGED <<tables, env, group, faults>>

\* Two lines with one SKU passed the check apart and fail together.
LineRefused(i) ==
    /\ handler[i].pc = "reserve"
    /\ handler[i].line \in DOMAIN Lines(i)
    /\ Line(i).qty > 0
    /\ local[i][Line(i).sku].available < Line(i).qty
    /\ Goto(i, "refuse")
    /\ Released(i)
    /\ UNCHANGED <<tables, env, group, faults>>

\* "reserve quantity must be positive" is no business error.
LineInvalid(i) ==
    /\ handler[i].pc = "reserve"
    /\ handler[i].line \in DOMAIN Lines(i)
    /\ Line(i).qty <= 0
    /\ Stop(i)
    /\ Released(i)
    /\ UNCHANGED <<tables, env, group, faults>>

AllReserved(i) == handler[i].pc = "reserve" /\ handler[i].line > Len(Lines(i))

\* Mutant: the answer and the mark are not in one transaction.
WriteUnmarked(i) ==
    /\ stock' = [s \in Stocked |-> IF s \in held[i] THEN local[i][s] ELSE stock[s]]
    /\ Answer(Subject(i), "stock.reserved")
    /\ processed' \in {processed, processed \cup {Subject(i)}}

\* The rows, the answer and the mark become visible together.
Write(i) ==
    /\ stock' = [s \in Stocked |-> IF s \in held[i] THEN local[i][s] ELSE stock[s]]
    /\ Answer(Subject(i), "stock.reserved")
    /\ processed' = processed \cup {Subject(i)}

\* Mutant: processed_events has no primary key.
CommitWithoutKey(i) ==
    /\ AllReserved(i)
    /\ Write(i)
    /\ Released(i)
    /\ Goto(i, "commit")
    /\ UNCHANGED <<env, group, faults>>

CommitReservation(i) ==
    /\ AllReserved(i)
    /\ Subject(i) \notin processed
    /\ Write(i)
    /\ Released(i)
    /\ Goto(i, "commit")
    /\ UNCHANGED <<env, group, faults>>

\* Another instance marked the order since the check: the primary key of
\* processed_events rejects the INSERT, an error like any other.
UniqueViolation(i) ==
    /\ AllReserved(i)
    /\ Subject(i) \in processed
    /\ Stop(i)
    /\ Released(i)
    /\ UNCHANGED <<tables, env, group, faults>>

\* RecordFailure: one INSERT of its own, no mark in processed_events.
RecordFailure(i) ==
    /\ handler[i].pc = "refuse"
    /\ Answer(Subject(i), "stock.failed")
    /\ Goto(i, "commit")
    /\ UNCHANGED <<stock, processed, env, group, tx, faults>>

\* Any other failing call: rollback, and the loop goes on with the next
\* message without committing this one.
HandlerError(i) ==
    /\ handler[i].pc \in {"check", "lock", "reserve", "refuse"}
    /\ Fault("error")
    /\ Stop(i)
    /\ Released(i)
    /\ UNCHANGED <<tables, env, group>>

\* The COMMIT took effect and its reply was lost.
CommitReplyLost(i) ==
    /\ AllReserved(i)
    /\ Subject(i) \notin processed
    /\ Fault("error")
    /\ Write(i)
    /\ Released(i)
    /\ Stop(i)
    /\ UNCHANGED <<env, group>>

\* Each of `stuck' needs a row that another of them holds: PostgreSQL aborts
\* one, which is an error of its handler.
DeadlockVictim(i) ==
    /\ \E stuck \in SUBSET Instances :
         /\ i \in stuck
         /\ \A j \in stuck :
              /\ handler[j].pc = "lock"
              /\ \E k \in stuck \ {j} : Wanted(j) \cap held[k] # {}
    /\ Stop(i)
    /\ Released(i)
    /\ UNCHANGED <<tables, env, group, faults>>

CommitMessages(i) ==
    /\ handler[i].pc = "commit"
    /\ group' = CommitOffset(group, handler[i].offset)
    /\ Stop(i)
    /\ UNCHANGED <<tables, env, tx, faults>>

CommitError(i) ==
    /\ handler[i].pc = "commit"
    /\ Fault("commit")
    /\ Stop(i)
    /\ UNCHANGED <<tables, env, group, tx>>

Rebalance(i) ==
    /\ Fault("rebalance")
    /\ group' = Reassign(group, i)
    /\ UNCHANGED <<tables, env, handler, tx>>

\* The process dies: its transaction is rolled back, its partition moves.
Restart(i) ==
    /\ Fault("rebalance")
    /\ Stop(i)
    /\ Released(i)
    /\ \E j \in Instances :
         group' = IF group.owner = i THEN Reassign(group, j) ELSE group
    /\ UNCHANGED <<tables, env>>

-----------------------------------------------------------------------------
ReserveStep(i) ==
    \/ AlreadyProcessed(i) \/ NotProcessed(i)
    \/ \E s \in Stocked : LockRow(i, s)
    \/ StockChecked(i) \/ StockRefused(i)
    \/ ReserveLine(i) \/ LineRefused(i) \/ LineInvalid(i)
    \/ CommitReservation(i) \/ UniqueViolation(i)
    \/ RecordFailure(i) \/ DeadlockVictim(i)

ConsumerStep(i) == FetchMessage(i) \/ ReserveStep(i) \/ CommitMessages(i)

ConsumerFault(i) ==
    HandlerError(i) \/ CommitReplyLost(i) \/ CommitError(i) \/ Rebalance(i) \/ Restart(i)

Next ==
    \/ \E o \in Orders : OrderPublished(o)
    \/ \E s \in Stocked : Restock(s)
    \/ \E i \in Instances : ConsumerStep(i) \/ ConsumerFault(i)

Spec == Init /\ [][Next]_vars

-----------------------------------------------------------------------------
(* Properties *)

StockRow  == [available : Nat, reserved : Nat]
AnswerRow == [order : Orders, type : {"stock.reserved", "stock.failed"}]
HandlerPCs == {"idle", "check", "lock", "reserve", "refuse", "commit"}

\* Quantities never become negative, in the tables (the CHECK constraints) or
\* in an open transaction, and a handler names a message that was delivered.
TypeOK ==
    /\ stock \in [Stocked -> StockRow]
    /\ processed \in SUBSET Orders
    /\ outbox \in Seq(AnswerRow)
    /\ log \in Seq(Orders)
    /\ IsGroup(group, Instances)
    /\ handler \in [Instances -> [pc : HandlerPCs, offset : Nat, line : Nat]]
    /\ \A i \in Instances :
          handler[i].pc # "idle" => handler[i].offset \in DOMAIN log
    /\ held \in [Instances -> SUBSET Stocked]
    /\ local \in [Instances -> [Stocked -> StockRow]]
    /\ restocks \in [Stocked -> Nat]
    /\ faults \in [FaultKinds -> Nat]

Demand(o, s) ==
    FoldSeq(LAMBDA l, n : IF l.sku = s THEN n + l.qty ELSE n, 0, Items[o])

TotalDemand(orders, s) == FoldSet(LAMBDA o, n : n + Demand(o, s), 0, orders)

\* What is reserved is what the processed orders asked for, each of them once
\* and in full (stock_repo.go:23-129: all or nothing, over duplicates, dead
\* transactions and concurrent instances).
ReservedIsDemanded ==
    \A s \in Stocked : stock[s].reserved = TotalDemand(processed, s)

Answers(o, type) == {k \in DOMAIN outbox : outbox[k] = [order |-> o, type |-> type]}

\* An order is announced as reserved exactly once, when it is processed.
ReservedAnnouncedOnce ==
    \A o \in Orders :
        Cardinality(Answers(o, "stock.reserved")) = IF o \in processed THEN 1 ELSE 0

Promised == {o \in Orders : Answers(o, "stock.reserved") # {}}

\* A unit is available or promised to one order that was announced as reserved,
\* never both and never to two: two reservations that write one row from copies
\* both had read would leave units for sale that were announced already
\* (stock_repo.go:43-109: absolute quantities, written under row locks).
UnitsPromisedOnce ==
    \A s \in Stocked :
        stock[s].available = InitialStock[s] + restocks[s] - TotalDemand(Promised, s)

\* No order is refused and reserved: a duplicate of a reserved order ends in
\* ErrAlreadyProcessed (ports/repository.go:18-22).
NeverBothAnswers ==
    \A o \in processed : Answers(o, "stock.failed") = {}

Answered(o) == o \in processed \/ Answers(o, "stock.failed") # {}

\* The committed offset never passes a message without an answer, so that a
\* restart can always deliver it again (order_created_consumer.go:75-83).
CommittedIsAnswered ==
    \A k \in DOMAIN log : k <= group.committed => Answered(log[k])

=============================================================================
