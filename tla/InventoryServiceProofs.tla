----------------------- MODULE InventoryServiceProofs -----------------------
(***************************************************************************)
(* Proofs about InventoryService, for any orders with any lines, any stock *)
(* and any number of instances, messages, restocks and faults.             *)
(***************************************************************************)
EXTENDS InventoryService, FiniteSetTheorems, SequenceTheorems, Sums, TLAPS

\* A row lock has one holder, which is in the middle of its transaction.
LocksExclusive ==
    /\ \A i, j \in Instances : i # j => held[i] \cap held[j] = {}
    /\ \A i \in Instances : held[i] # {} => handler[i].pc \in {"lock", "reserve"}

\* What the check of the lines looks at is what is in the table.
CopiesCurrent ==
    \A i \in Instances : handler[i].pc = "lock" =>
        \A s \in held[i] : local[i][s] = stock[s]

Balanced(row, s) == row.available + row.reserved = InitialStock[s] + restocks[s]

Conserved ==
    /\ \A s \in Stocked : Balanced(stock[s], s)
    /\ \A i \in Instances : \A s \in held[i] : Balanced(local[i][s], s)

Announced ==
    \A o \in Orders :
        IF o \in processed THEN \E k \in DOMAIN outbox : Answers(o, "stock.reserved") = {k}
                           ELSE Answers(o, "stock.reserved") = {}

Safe   == LocksExclusive /\ CopiesCurrent /\ Conserved /\ Announced
IndInv == TypeOK /\ Safe

\* Steps for any number of messages: Next without the bound on the topic, and
\* what of it is no restock.
Announce(o) ==
    /\ log' = Append(log, o)
    /\ UNCHANGED <<tables, group, handler, tx, restocks, faults>>

ServiceNext ==
    \/ \E o \in Orders : Announce(o)
    \/ \E i \in Instances : ConsumerStep(i) \/ ConsumerFault(i)

OpenNext == ServiceNext \/ \E s \in Stocked : Restock(s)

LEMMA BoundedIsOpen == [Next]_vars => [OpenNext]_vars
BY DEF Next, OpenNext, ServiceNext, OrderPublished, Announce

-----------------------------------------------------------------------------
\* What the invariant says of the properties that the runs check.
LEMMA Consequences == IndInv => TypeOK /\ ReservedAnnouncedOnce
<1> SUFFICES ASSUME IndInv PROVE ReservedAnnouncedOnce
  BY DEF IndInv
<1>1. ASSUME NEW o \in Orders
      PROVE  Cardinality(Answers(o, "stock.reserved")) = IF o \in processed THEN 1 ELSE 0
  <2>1. CASE o \in processed
    <3>1. PICK k \in DOMAIN outbox : Answers(o, "stock.reserved") = {k}
      BY <2>1 DEF IndInv, Safe, Announced
    <3>2. Cardinality({k}) = 1
      BY FS_Singleton
    <3> QED
      BY <2>1, <3>1, <3>2
  <2>2. CASE o \notin processed
    <3>1. Answers(o, "stock.reserved") = {}
      BY <2>2 DEF IndInv, Safe, Announced
    <3>2. Cardinality({}) = 0
      BY FS_EmptySet
    <3> QED
      BY <2>2, <3>1, <3>2
  <2> QED
    BY <2>1, <2>2
<1> QED
  BY <1>1 DEF ReservedAnnouncedOnce

\* Nothing is locked, reserved or announced.
LEMMA InvInit == Init => IndInv
<1> SUFFICES ASSUME Init PROVE IndInv
  OBVIOUS
<1>1. TypeOK
  <2>1. /\ stock \in [Stocked -> StockRow] /\ restocks \in [Stocked -> Nat]
        /\ local \in [Instances -> [Stocked -> StockRow]]
    BY InventoryAssumption DEF Init, StockRow, NoRows
  <2>2. /\ handler \in [Instances -> [pc : HandlerPCs, offset : Nat, line : Nat]]
        /\ \A i \in Instances : handler[i].pc = "idle"
    BY DEF Init, Idle, HandlerPCs
  <2>3. IsGroup(group, Instances)
    BY DEF Init, IsGroup, NewGroup
  <2> QED
    BY <2>1, <2>2, <2>3 DEF Init, TypeOK
<1>2. LocksExclusive /\ CopiesCurrent
  BY DEF Init, LocksExclusive, CopiesCurrent
<1>3. Conserved
  BY InventoryAssumption DEF Init, Conserved, Balanced
<1>4. Announced
  BY DEF Init, Announced, Answers
<1> QED
  BY <1>1, <1>2, <1>3, <1>4 DEF IndInv, Safe

-----------------------------------------------------------------------------
(* Types, in parts that a step changes together *)

Handlers == [Instances -> [pc : HandlerPCs, offset : Nat, line : Nat]]

HandlerTyped ==
    /\ handler \in Handlers
    /\ \A i \in Instances : handler[i].pc # "idle" => handler[i].offset \in DOMAIN log

TablesTyped ==
    /\ stock \in [Stocked -> StockRow]
    /\ processed \in SUBSET Orders
    /\ outbox \in Seq(AnswerRow)

TxTyped ==
    /\ held \in [Instances -> SUBSET Stocked]
    /\ local \in [Instances -> [Stocked -> StockRow]]

RestTyped ==
    /\ log \in Seq(Orders)
    /\ group \in [owner : Instances, position : Nat, committed : Nat]
    /\ restocks \in [Stocked -> Nat]
    /\ faults \in [FaultKinds -> Nat]

LEMMA TypedParts == TypeOK <=> HandlerTyped /\ TablesTyped /\ TxTyped /\ RestTyped
BY DEF TypeOK, HandlerTyped, TablesTyped, TxTyped, RestTyped, Handlers, IsGroup

LEMMA TypedNext == HandlerTyped' /\ TablesTyped' /\ TxTyped' /\ RestTyped' => TypeOK'
BY DEF TypeOK, HandlerTyped, TablesTyped, TxTyped, RestTyped, Handlers, IsGroup

\* What a handler works on is an order with lines.
LEMMA SubjectType ==
  ASSUME TypeOK, NEW i \in Instances, handler[i].pc # "idle"
  PROVE  Subject(i) \in Orders /\ Lines(i) \in Seq([sku : SKUs, qty : Int])
<1>1. log \in Seq(Orders) /\ handler[i].offset \in DOMAIN log
  BY DEF TypeOK
<1>2. Subject(i) \in Orders
  BY <1>1 DEF Subject
<1> QED
  BY <1>2, InventoryAssumption DEF Lines

\* What the other goroutines see of a step of instance i.
OthersKeep(i) == \A j \in Instances : j # i => handler'[j] = handler[j]

LEMMA MoveFrame ==
  ASSUME TypeOK, NEW i \in Instances, UNCHANGED log,
         NEW h \in [pc : HandlerPCs, offset : Nat, line : Nat],
         h.pc # "idle" => h.offset \in DOMAIN log,
         handler' = [handler EXCEPT ![i] = h]
  PROVE  HandlerTyped' /\ handler'[i] = h /\ OthersKeep(i)
<1>1. handler \in Handlers /\ HandlerTyped
  BY TypedParts DEF HandlerTyped
<1>2. /\ handler' \in Handlers /\ handler'[i] = h
      /\ \A j \in Instances : j # i => handler'[j] = handler[j]
  BY <1>1 DEF Handlers
<1>3. HandlerTyped'
  BY <1>1, <1>2 DEF HandlerTyped
<1> QED
  BY <1>2, <1>3 DEF OthersKeep

LEMMA GotoFrame ==
  ASSUME TypeOK, NEW i \in Instances, NEW p \in HandlerPCs, UNCHANGED log,
         handler[i].pc # "idle", Goto(i, p)
  PROVE  HandlerTyped' /\ handler'[i].pc = p /\ OthersKeep(i)
<1> DEFINE h == [handler[i] EXCEPT !.pc = p]
<1>1. /\ h \in [pc : HandlerPCs, offset : Nat, line : Nat]
      /\ h.pc = p /\ h.offset \in DOMAIN log
  BY DEF TypeOK
<1>2. handler' = [handler EXCEPT ![i] = h]
  BY DEF Goto
<1> HIDE DEF h
<1> QED
  BY <1>1, <1>2, MoveFrame

LEMMA StopFrame ==
  ASSUME TypeOK, NEW i \in Instances, UNCHANGED log, Stop(i)
  PROVE  HandlerTyped' /\ handler'[i].pc = "idle" /\ OthersKeep(i)
<1>1. Idle \in [pc : HandlerPCs, offset : Nat, line : Nat] /\ Idle.pc = "idle"
  BY DEF Idle, HandlerPCs
<1> QED
  BY <1>1, MoveFrame DEF Stop

LEMMA FaultFrame ==
  ASSUME TypeOK, NEW k \in FaultKinds, Fault(k)
  PROVE  faults' \in [FaultKinds -> Nat]
BY DEF TypeOK, Fault

LEMMA GroupFrame ==
  ASSUME TypeOK, NEW i \in Instances, NEW n \in Nat
  PROVE  /\ Deliver(group) \in [owner : Instances, position : Nat, committed : Nat]
         /\ CommitOffset(group, n) \in [owner : Instances, position : Nat, committed : Nat]
         /\ Reassign(group, i) \in [owner : Instances, position : Nat, committed : Nat]
<1>1. group \in [owner : Instances, position : Nat, committed : Nat]
  BY DEF TypeOK, IsGroup
<1>2. Deliver(group) \in [owner : Instances, position : Nat, committed : Nat]
  BY <1>1 DEF Deliver
<1>3. CommitOffset(group, n) \in [owner : Instances, position : Nat, committed : Nat]
  BY <1>1 DEF CommitOffset
<1>4. Reassign(group, i) \in [owner : Instances, position : Nat, committed : Nat]
  BY <1>1 DEF Reassign
<1> QED
  BY <1>2, <1>3, <1>4

-----------------------------------------------------------------------------
(* The safety invariant, by what a step does to the transactions *)

\* A step that touches no row, no lock and no answer.
LEMMA TablesKept ==
  ASSUME IndInv, NEW i \in Instances, OthersKeep(i),
         handler'[i].pc = "lock" => held[i] = {},
         held[i] # {} => handler'[i].pc \in {"lock", "reserve"},
         UNCHANGED <<tables, tx, restocks>>
  PROVE  Safe'
<1>1. LocksExclusive' /\ CopiesCurrent'
  BY DEF IndInv, Safe, LocksExclusive, CopiesCurrent, OthersKeep, tables, tx
<1>2. Conserved' /\ Announced'
  BY DEF IndInv, Safe, Conserved, Balanced, Announced, Answers, tables, tx
<1> QED
  BY <1>1, <1>2 DEF Safe

LEMMA ReleasedFrame ==
  ASSUME TypeOK, NEW i \in Instances, Released(i)
  PROVE  /\ TxTyped' /\ held'[i] = {}
         /\ \A j \in Instances : j # i => held'[j] = held[j] /\ local'[j] = local[j]
<1>1. NoRows \in [Stocked -> StockRow]
  BY DEF NoRows, StockRow
<1> QED
  BY <1>1 DEF TypeOK, Released, TxTyped

\* A transaction that is rolled back.
LEMMA RolledBack ==
  ASSUME IndInv, NEW i \in Instances, OthersKeep(i), Released(i),
         UNCHANGED <<tables, restocks>>
  PROVE  TxTyped' /\ Safe'
<1>1. /\ TxTyped' /\ held'[i] = {}
      /\ \A j \in Instances : j # i => held'[j] = held[j] /\ local'[j] = local[j]
  BY ReleasedFrame DEF IndInv
<1>2. LocksExclusive'
  BY <1>1 DEF IndInv, Safe, LocksExclusive, OthersKeep
<1>3. CopiesCurrent'
  BY <1>1 DEF IndInv, Safe, CopiesCurrent, OthersKeep, tables
<1>4. Conserved'
  BY <1>1 DEF IndInv, Safe, Conserved, Balanced, tables
<1>5. Announced'
  BY DEF IndInv, Safe, Announced, Answers, tables
<1> QED
  BY <1>1, <1>2, <1>3, <1>4, <1>5 DEF Safe

\* What one more row of the outbox means for the answers to an order.
LEMMA AnswerAppended ==
  ASSUME TypeOK, NEW o \in Orders, NEW type \in {"stock.reserved", "stock.failed"},
         Answer(o, type)
  PROVE  /\ outbox' \in Seq(AnswerRow)
         /\ DOMAIN outbox \subseteq DOMAIN outbox' /\ Len(outbox) + 1 \in DOMAIN outbox'
         /\ \A q \in Orders, t \in {"stock.reserved", "stock.failed"} :
               Answers(q, t)' = IF q = o /\ type = t THEN Answers(q, t) \cup {Len(outbox) + 1}
                                                     ELSE Answers(q, t)
<1> DEFINE r == [order |-> o, type |-> type]
<1>1. outbox \in Seq(AnswerRow) /\ r \in AnswerRow
  BY DEF TypeOK, AnswerRow
<1>2. outbox' = Append(outbox, r)
  BY DEF Answer
<1>3. \A q, t : r = [order |-> q, type |-> t] <=> q = o /\ type = t
  OBVIOUS
<1> HIDE DEF r
<1>4. /\ outbox' \in Seq(AnswerRow) /\ DOMAIN outbox' = DOMAIN outbox \cup {Len(outbox) + 1}
      /\ outbox'[Len(outbox) + 1] = r
      /\ Len(outbox) + 1 \notin DOMAIN outbox
      /\ \A k \in DOMAIN outbox : outbox'[k] = outbox[k]
  BY <1>1, <1>2
<1>5. ASSUME NEW q \in Orders, NEW t \in {"stock.reserved", "stock.failed"}
      PROVE  Answers(q, t)' = IF q = o /\ type = t THEN Answers(q, t) \cup {Len(outbox) + 1}
                                                   ELSE Answers(q, t)
  <2> DEFINE x == [order |-> q, type |-> t]
  <2>1. /\ Answers(q, t) = {k \in DOMAIN outbox : outbox[k] = x}
        /\ Answers(q, t)' = {k \in DOMAIN outbox' : outbox'[k] = x}
    BY DEF Answers
  <2>2. r = x <=> q = o /\ type = t
    BY <1>3
  <2> HIDE DEF x
  <2> QED
    BY <1>4, <2>1, <2>2
<1> QED
  BY <1>4, <1>5

\* A transaction that commits.
LEMMA Committed ==
  ASSUME IndInv, NEW i \in Instances, AllReserved(i), Subject(i) \notin processed,
         Write(i), Released(i), OthersKeep(i), UNCHANGED restocks
  PROVE  TablesTyped' /\ TxTyped' /\ Safe'
<1>1. TypeOK /\ Subject(i) \in Orders
  BY SubjectType DEF IndInv, AllReserved
<1>2. PICK o \in Orders : o = Subject(i)
  BY <1>1
<1>3. /\ stock' = [s \in Stocked |-> IF s \in held[i] THEN local[i][s] ELSE stock[s]]
      /\ Answer(o, "stock.reserved") /\ processed' = processed \cup {o} /\ o \notin processed
  BY <1>2 DEF Write
<1>4. /\ TxTyped' /\ held'[i] = {}
      /\ \A j \in Instances : j # i => held'[j] = held[j] /\ local'[j] = local[j]
  BY <1>1, ReleasedFrame
<1>5. /\ outbox' \in Seq(AnswerRow)
      /\ DOMAIN outbox \subseteq DOMAIN outbox' /\ Len(outbox) + 1 \in DOMAIN outbox'
      /\ \A q \in Orders : Answers(q, "stock.reserved")' =
            IF q = o THEN Answers(q, "stock.reserved") \cup {Len(outbox) + 1}
                     ELSE Answers(q, "stock.reserved")
  BY <1>1, <1>3, AnswerAppended
<1>6. TablesTyped'
  BY <1>1, <1>3, <1>5 DEF TypeOK, TablesTyped
<1>7. LocksExclusive'
  BY <1>4 DEF IndInv, Safe, LocksExclusive, OthersKeep
<1>8. CopiesCurrent'
  <2>1. ASSUME NEW j \in Instances, handler'[j].pc = "lock", NEW s \in held'[j]
        PROVE  local'[j][s] = stock'[s]
    <3>1. j # i /\ s \in held[j] /\ local'[j] = local[j] /\ handler[j].pc = "lock"
      BY <1>4, <2>1 DEF OthersKeep
    <3>2. s \notin held[i] /\ s \in Stocked
      BY <1>1, <3>1 DEF IndInv, Safe, LocksExclusive, TypeOK
    <3> QED
      BY <1>3, <3>1, <3>2 DEF IndInv, Safe, CopiesCurrent
  <2> QED
    BY <2>1 DEF CopiesCurrent
<1>9. Conserved'
  <2>1. ASSUME NEW s \in Stocked PROVE Balanced(stock[s], s)'
    BY <1>3 DEF IndInv, Safe, Conserved, Balanced
  <2>2. ASSUME NEW j \in Instances, NEW s \in held'[j] PROVE Balanced(local[j][s], s)'
    BY <1>4 DEF IndInv, Safe, Conserved, Balanced
  <2> QED
    BY <2>1, <2>2 DEF Conserved, Balanced
<1>10. Announced'
  BY <1>3, <1>5 DEF IndInv, Safe, Announced
<1> QED
  BY <1>4, <1>6, <1>7, <1>8, <1>9, <1>10 DEF Safe

-----------------------------------------------------------------------------
(* One lemma per action, or per actions that end in one way *)

LEMMA AnnounceInv ==
  ASSUME IndInv, NEW o \in Orders, Announce(o)
  PROVE  IndInv'
<1>1. /\ TypeOK /\ log \in Seq(Orders) /\ log' = Append(log, o)
      /\ UNCHANGED <<tables, group, handler, tx, restocks, faults>>
  BY DEF IndInv, TypeOK, Announce
<1>2. log' \in Seq(Orders) /\ DOMAIN log \subseteq DOMAIN log'
  BY <1>1
<1>3. HandlerTyped'
  BY <1>1, <1>2, TypedParts DEF HandlerTyped
<1>4. TypeOK'
  BY <1>1, <1>2, <1>3, TypedParts, TypedNext DEF TablesTyped, TxTyped, RestTyped, tables, tx
<1>5. Safe'
  BY <1>1 DEF IndInv, Safe, LocksExclusive, CopiesCurrent, Conserved, Balanced,
     Announced, Answers, tables, tx
<1> QED
  BY <1>4, <1>5 DEF IndInv

LEMMA RestockInv ==
  ASSUME IndInv, NEW s \in Stocked, Restock(s)
  PROVE  IndInv'
<1> DEFINE row == [stock[s] EXCEPT !.available = @ + 1]
<1>1. /\ TypeOK /\ \A i \in Instances : s \notin held[i]
      /\ stock' = [stock EXCEPT ![s] = row] /\ restocks' = [restocks EXCEPT ![s] = @ + 1]
      /\ UNCHANGED <<processed, outbox, log, group, handler, tx, faults>>
  BY DEF IndInv, Restock
<1>2. stock \in [Stocked -> StockRow] /\ restocks \in [Stocked -> Nat]
  BY <1>1 DEF TypeOK
<1>3. /\ row \in StockRow
      /\ row.available = stock[s].available + 1 /\ row.reserved = stock[s].reserved
  BY <1>2 DEF StockRow
<1> HIDE DEF row
<1>4. /\ stock' \in [Stocked -> StockRow] /\ stock'[s] = row
      /\ \A r \in Stocked : r # s => stock'[r] = stock[r]
  BY <1>1, <1>2, <1>3
<1>5. /\ restocks' \in [Stocked -> Nat] /\ restocks'[s] = restocks[s] + 1
      /\ \A r \in Stocked : r # s => restocks'[r] = restocks[r]
  BY <1>1, <1>2
<1>6. HandlerTyped'
  BY <1>1, TypedParts DEF HandlerTyped
<1>7. TypeOK'
  BY <1>1, <1>4, <1>5, <1>6, TypedParts, TypedNext DEF TablesTyped, TxTyped, RestTyped, tx
<1>8. \A i \in Instances : held[i] \subseteq Stocked \ {s}
  BY <1>1 DEF TypeOK
<1>9. LocksExclusive' /\ CopiesCurrent'
  BY <1>1, <1>4, <1>8 DEF IndInv, Safe, LocksExclusive, CopiesCurrent, tx
<1>10. Conserved'
  <2>1. Balanced(stock[s], s)'
    <3>1. /\ stock[s].available \in Nat /\ stock[s].reserved \in Nat
          /\ restocks[s] \in Nat /\ InitialStock[s] \in Nat
      BY <1>2, InventoryAssumption DEF StockRow
    <3>2. stock[s].available + stock[s].reserved = InitialStock[s] + restocks[s]
      BY DEF IndInv, Safe, Conserved, Balanced
    <3> QED
      BY <1>3, <1>4, <1>5, <3>1, <3>2 DEF Balanced
  <2>2. ASSUME NEW r \in Stocked, r # s PROVE Balanced(stock[r], r)'
    BY <1>4, <1>5, <2>2 DEF IndInv, Safe, Conserved, Balanced
  <2>3. ASSUME NEW i \in Instances, NEW r \in held'[i] PROVE Balanced(local[i][r], r)'
    <3>1. r \in held[i] /\ r \in Stocked \ {s} /\ local' = local
      BY <1>1, <1>8 DEF tx
    <3> QED
      BY <1>5, <3>1 DEF IndInv, Safe, Conserved, Balanced
  <2> QED
    BY <2>1, <2>2, <2>3 DEF Conserved, Balanced
<1>11. Announced'
  BY <1>1 DEF IndInv, Safe, Announced, Answers
<1> QED
  BY <1>7, <1>9, <1>10, <1>11 DEF IndInv, Safe

LEMMA FetchMessageInv ==
  ASSUME IndInv, NEW i \in Instances, FetchMessage(i)
  PROVE  IndInv'
<1> DEFINE h == [pc |-> "check", offset |-> group.position + 1, line |-> 0]
<1>1. /\ TypeOK /\ handler[i].pc = "idle" /\ HasNext(group, log)
      /\ group' = Deliver(group) /\ handler' = [handler EXCEPT ![i] = h]
      /\ UNCHANGED <<tables, env, tx, faults>>
  BY DEF IndInv, FetchMessage
<1>2. group \in [owner : Instances, position : Nat, committed : Nat] /\ log \in Seq(Orders)
  BY <1>1 DEF TypeOK, IsGroup
<1>3. /\ h \in [pc : HandlerPCs, offset : Nat, line : Nat] /\ h.pc = "check"
      /\ h.offset \in DOMAIN log
  BY <1>1, <1>2 DEF HasNext, HandlerPCs
<1> HIDE DEF h
<1>4. HandlerTyped' /\ handler'[i].pc = "check" /\ OthersKeep(i)
  BY <1>1, <1>3, MoveFrame DEF env
<1>5. TypeOK'
  BY <1>1, <1>4, GroupFrame, TypedParts, TypedNext
     DEF TablesTyped, TxTyped, RestTyped, tables, tx, env
<1>6. held[i] = {}
  BY <1>1 DEF IndInv, Safe, LocksExclusive
<1>7. Safe'
  BY <1>1, <1>4, <1>6, TablesKept DEF env
<1> QED
  BY <1>5, <1>7 DEF IndInv

\* The two answers to "was it processed".
LEMMA CheckInv ==
  ASSUME IndInv, NEW i \in Instances, AlreadyProcessed(i) \/ NotProcessed(i)
  PROVE  IndInv'
<1>1. PICK p \in {"lock", "commit"} :
        /\ TypeOK /\ handler[i].pc = "check" /\ Goto(i, p)
        /\ UNCHANGED <<tables, env, group, tx, faults>>
  BY DEF IndInv, AlreadyProcessed, NotProcessed
<1>2. HandlerTyped' /\ handler'[i].pc = p /\ OthersKeep(i)
  BY <1>1, GotoFrame DEF env, HandlerPCs
<1>3. TypeOK'
  BY <1>1, <1>2, TypedParts, TypedNext DEF TablesTyped, TxTyped, RestTyped, tables, tx, env
<1>4. held[i] = {}
  BY <1>1 DEF IndInv, Safe, LocksExclusive
<1>5. Safe'
  BY <1>1, <1>2, <1>4, TablesKept DEF env
<1> QED
  BY <1>3, <1>5 DEF IndInv

LEMMA LockRowInv ==
  ASSUME IndInv, NEW i \in Instances, NEW s \in Stocked, LockRow(i, s)
  PROVE  IndInv'
<1>1. /\ TypeOK /\ handler[i].pc = "lock" /\ \A j \in Instances : s \notin held[j]
      /\ held' = [held EXCEPT ![i] = @ \cup {s}]
      /\ local' = [local EXCEPT ![i][s] = stock[s]]
      /\ UNCHANGED <<tables, env, group, handler, faults>>
  BY DEF IndInv, LockRow, RowIsFree
<1>2. /\ held \in [Instances -> SUBSET Stocked] /\ stock \in [Stocked -> StockRow]
      /\ local \in [Instances -> [Stocked -> StockRow]]
  BY <1>1 DEF TypeOK
<1>3. /\ held' \in [Instances -> SUBSET Stocked] /\ held'[i] = held[i] \cup {s}
      /\ \A j \in Instances : j # i => held'[j] = held[j]
  BY <1>1, <1>2
<1>4. /\ local' \in [Instances -> [Stocked -> StockRow]] /\ local'[i][s] = stock[s]
      /\ \A j \in Instances, r \in Stocked : ~(j = i /\ r = s) => local'[j][r] = local[j][r]
  BY <1>1, <1>2
<1>5. HandlerTyped'
  BY <1>1, TypedParts DEF HandlerTyped, env
<1>6. TypeOK'
  BY <1>1, <1>3, <1>4, <1>5, TypedParts, TypedNext
     DEF TablesTyped, TxTyped, RestTyped, tables, env
<1>7. LocksExclusive'
  BY <1>1, <1>3 DEF IndInv, Safe, LocksExclusive
<1>8. ASSUME NEW j \in Instances, NEW r \in held'[j], ~(j = i /\ r = s)
      PROVE  r \in held[j] /\ local'[j][r] = local[j][r]
  BY <1>2, <1>3, <1>4, <1>8
<1>9. CopiesCurrent'
  BY <1>1, <1>4, <1>8 DEF IndInv, Safe, CopiesCurrent, tables
<1>10. Conserved'
  BY <1>1, <1>4, <1>8 DEF IndInv, Safe, Conserved, Balanced, tables, env
<1>11. Announced'
  BY <1>1 DEF IndInv, Safe, Announced, Answers, tables
<1> QED
  BY <1>6, <1>7, <1>9, <1>10, <1>11 DEF IndInv, Safe

LEMMA StockCheckedInv ==
  ASSUME IndInv, NEW i \in Instances, StockChecked(i)
  PROVE  IndInv'
<1> DEFINE h == [handler[i] EXCEPT !.pc = "reserve", !.line = 1]
<1>1. /\ TypeOK /\ handler[i].pc = "lock" /\ handler' = [handler EXCEPT ![i] = h]
      /\ UNCHANGED <<tables, env, group, tx, faults>>
  BY DEF IndInv, StockChecked
<1>2. /\ h \in [pc : HandlerPCs, offset : Nat, line : Nat] /\ h.pc = "reserve"
      /\ h.offset \in DOMAIN log
  BY <1>1 DEF TypeOK, HandlerPCs
<1> HIDE DEF h
<1>3. HandlerTyped' /\ handler'[i].pc = "reserve" /\ OthersKeep(i)
  BY <1>1, <1>2, MoveFrame DEF env
<1>4. TypeOK'
  BY <1>1, <1>3, TypedParts, TypedNext DEF TablesTyped, TxTyped, RestTyped, tables, tx, env
<1>5. Safe'
  BY <1>1, <1>3, TablesKept DEF env
<1> QED
  BY <1>4, <1>5 DEF IndInv

\* Every way a transaction is rolled back while its process lives.
LEMMA RollbackInv ==
  ASSUME IndInv, NEW i \in Instances,
         \/ StockRefused(i) \/ LineRefused(i) \/ LineInvalid(i)
         \/ UniqueViolation(i) \/ DeadlockVictim(i) \/ HandlerError(i)
  PROVE  IndInv'
<1>1. /\ TypeOK /\ Released(i) /\ UNCHANGED <<tables, env, group>>
      /\ faults' = faults \/ Fault("error")
      /\ Stop(i) \/ (handler[i].pc # "idle" /\ Goto(i, "refuse"))
  BY DEF IndInv, StockRefused, LineRefused, LineInvalid, UniqueViolation,
     DeadlockVictim, HandlerError
<1>2. HandlerTyped' /\ OthersKeep(i)
  BY <1>1, StopFrame, GotoFrame DEF env, HandlerPCs
<1>3. faults' \in [FaultKinds -> Nat]
  BY <1>1, FaultFrame DEF TypeOK, FaultKinds
<1>4. TxTyped' /\ Safe'
  BY <1>1, <1>2, RolledBack DEF env
<1>5. TypeOK'
  BY <1>1, <1>2, <1>3, <1>4, TypedParts, TypedNext DEF TablesTyped, RestTyped, tables, env
<1> QED
  BY <1>4, <1>5 DEF IndInv

LEMMA ReserveLineInv ==
  ASSUME IndInv, NEW i \in Instances, ReserveLine(i)
  PROVE  IndInv'
<1>1. /\ TypeOK /\ handler[i].pc = "reserve" /\ handler[i].line \in DOMAIN Lines(i)
      /\ UNCHANGED <<tables, env, group, held, faults>>
  BY DEF IndInv, ReserveLine
<1>2. PICK l \in [sku : SKUs, qty : Int] : l = Line(i)
  <2> DEFINE L == [sku : SKUs, qty : Int]
  <2>1. Lines(i) \in Seq(L)
    BY <1>1, SubjectType
  <2> HIDE DEF L
  <2>2. Lines(i)[handler[i].line] \in L
    BY <1>1, <2>1, ElementOfSeq
  <2> QED
    BY <2>2 DEF Line, L
<1> DEFINE row == [available |-> local[i][l.sku].available - l.qty,
                   reserved  |-> local[i][l.sku].reserved + l.qty]
           h   == [handler[i] EXCEPT !.line = @ + 1]
<1>3. /\ l.qty > 0 /\ local[i][l.sku].available >= l.qty
      /\ local' = [local EXCEPT ![i][l.sku] = row]
      /\ handler' = [handler EXCEPT ![i] = h]
  BY <1>2 DEF ReserveLine
<1>4. /\ h \in [pc : HandlerPCs, offset : Nat, line : Nat] /\ h.pc = "reserve"
      /\ h.offset \in DOMAIN log
  <2>1. /\ handler[i] \in [pc : HandlerPCs, offset : Nat, line : Nat]
        /\ handler[i].offset \in DOMAIN log
    BY <1>1 DEF TypeOK
  <2> QED
    BY <1>1, <2>1
<1> HIDE DEF h
<1>5. HandlerTyped' /\ handler'[i].pc = "reserve" /\ OthersKeep(i)
  BY <1>1, <1>3, <1>4, MoveFrame DEF env
<1>6. local \in [Instances -> [Stocked -> StockRow]]
  BY <1>1 DEF TypeOK
<1>7. ASSUME l.sku \in Stocked
      PROVE  /\ row \in StockRow
             /\ row.available + row.reserved =
                    local[i][l.sku].available + local[i][l.sku].reserved
  <2>1. /\ local[i][l.sku].available \in Nat /\ local[i][l.sku].reserved \in Nat
        /\ l.qty \in Int
    BY <1>2, <1>6, <1>7 DEF StockRow
  <2>2. row.available \in Nat /\ row.reserved \in Nat
    BY <1>3, <2>1
  <2> QED
    BY <2>1, <2>2 DEF StockRow
<1> HIDE DEF row
<1>8. /\ local' \in [Instances -> [Stocked -> StockRow]]
      /\ \A j \in Instances, r \in Stocked :
            local'[j][r] = IF j = i /\ r = l.sku THEN row ELSE local[j][r]
  BY <1>3, <1>6, <1>7
<1>9. TypeOK'
  BY <1>1, <1>5, <1>8, TypedParts, TypedNext DEF TablesTyped, TxTyped, RestTyped, tables, env
<1>10. LocksExclusive'
  BY <1>1, <1>5 DEF IndInv, Safe, LocksExclusive, OthersKeep
<1>11. \A j \in Instances : held[j] \subseteq Stocked
  BY <1>1 DEF TypeOK
<1>12. CopiesCurrent'
  BY <1>1, <1>5, <1>8, <1>11 DEF IndInv, Safe, CopiesCurrent, OthersKeep, tables
<1>13. Conserved'
  BY <1>1, <1>7, <1>8, <1>11 DEF IndInv, Safe, Conserved, Balanced, tables, env
<1>14. Announced'
  BY <1>1 DEF IndInv, Safe, Announced, Answers, tables
<1> QED
  BY <1>9, <1>10, <1>12, <1>13, <1>14 DEF IndInv, Safe

\* The commit, whether or not its reply arrives.
LEMMA CommitReservationInv ==
  ASSUME IndInv, NEW i \in Instances, CommitReservation(i) \/ CommitReplyLost(i)
  PROVE  IndInv'
<1>1. /\ TypeOK /\ AllReserved(i) /\ Subject(i) \notin processed
      /\ Write(i) /\ Released(i) /\ UNCHANGED <<env, group>>
      /\ faults' = faults \/ Fault("error")
      /\ Stop(i) \/ (handler[i].pc # "idle" /\ Goto(i, "commit"))
  BY DEF IndInv, CommitReservation, CommitReplyLost, AllReserved
<1>2. HandlerTyped' /\ OthersKeep(i)
  BY <1>1, StopFrame, GotoFrame DEF env, HandlerPCs
<1>3. faults' \in [FaultKinds -> Nat]
  BY <1>1, FaultFrame DEF TypeOK, FaultKinds
<1>4. TablesTyped' /\ TxTyped' /\ Safe'
  BY <1>1, <1>2, Committed DEF env
<1>5. TypeOK'
  BY <1>1, <1>2, <1>3, <1>4, TypedParts, TypedNext DEF RestTyped, env
<1> QED
  BY <1>4, <1>5 DEF IndInv

LEMMA RecordFailureInv ==
  ASSUME IndInv, NEW i \in Instances, RecordFailure(i)
  PROVE  IndInv'
<1>1. /\ TypeOK /\ handler[i].pc = "refuse" /\ Answer(Subject(i), "stock.failed")
      /\ Goto(i, "commit") /\ UNCHANGED <<stock, processed, env, group, tx, faults>>
  BY DEF IndInv, RecordFailure
<1>2. HandlerTyped' /\ handler'[i].pc = "commit" /\ OthersKeep(i)
  BY <1>1, GotoFrame DEF env, HandlerPCs
<1>3. /\ outbox' \in Seq(AnswerRow) /\ DOMAIN outbox \subseteq DOMAIN outbox'
      /\ \A q \in Orders : Answers(q, "stock.reserved")' = Answers(q, "stock.reserved")
  BY <1>1, SubjectType, AnswerAppended
<1>4. TypeOK'
  BY <1>1, <1>2, <1>3, TypedParts, TypedNext DEF TablesTyped, TxTyped, RestTyped, tx, env
<1>5. LocksExclusive' /\ CopiesCurrent'
  BY <1>1, <1>2 DEF IndInv, Safe, LocksExclusive, CopiesCurrent, OthersKeep, tx
<1>6. Conserved'
  BY <1>1 DEF IndInv, Safe, Conserved, Balanced, tx, env
<1>7. Announced'
  BY <1>1, <1>3 DEF IndInv, Safe, Announced
<1> QED
  BY <1>4, <1>5, <1>6, <1>7 DEF IndInv, Safe

\* The offset is committed, or is not.
LEMMA CommitMessagesInv ==
  ASSUME IndInv, NEW i \in Instances, CommitMessages(i) \/ CommitError(i)
  PROVE  IndInv'
<1>1. /\ TypeOK /\ handler[i].pc = "commit" /\ handler[i].offset \in Nat /\ Stop(i)
      /\ group' = group \/ group' = CommitOffset(group, handler[i].offset)
      /\ faults' = faults \/ Fault("commit")
      /\ UNCHANGED <<tables, env, tx>>
  BY DEF IndInv, TypeOK, CommitMessages, CommitError
<1>2. HandlerTyped' /\ handler'[i].pc = "idle" /\ OthersKeep(i)
  BY <1>1, StopFrame DEF env
<1>3. faults' \in [FaultKinds -> Nat]
  BY <1>1, FaultFrame DEF TypeOK, FaultKinds
<1>4. group' \in [owner : Instances, position : Nat, committed : Nat]
  <2>1. group \in [owner : Instances, position : Nat, committed : Nat]
    BY <1>1 DEF TypeOK, IsGroup
  <2>2. CommitOffset(group, handler[i].offset)
           \in [owner : Instances, position : Nat, committed : Nat]
    BY <1>1, GroupFrame
  <2> QED
    BY <1>1, <2>1, <2>2
<1>5. TypeOK'
  BY <1>1, <1>2, <1>3, <1>4, TypedParts, TypedNext
     DEF TablesTyped, TxTyped, RestTyped, tables, tx, env
<1>6. held[i] = {}
  BY <1>1 DEF IndInv, Safe, LocksExclusive
<1>7. Safe'
  BY <1>1, <1>2, <1>6, TablesKept DEF env
<1> QED
  BY <1>5, <1>7 DEF IndInv

LEMMA RebalanceInv ==
  ASSUME IndInv, NEW i \in Instances, Rebalance(i)
  PROVE  IndInv'
<1>1. /\ TypeOK /\ Fault("rebalance") /\ group' = Reassign(group, i)
      /\ UNCHANGED <<tables, env, handler, tx>>
  BY DEF IndInv, Rebalance
<1>2. faults' \in [FaultKinds -> Nat]
  BY <1>1, FaultFrame DEF FaultKinds
<1>3. group' \in [owner : Instances, position : Nat, committed : Nat]
  BY <1>1, GroupFrame
<1>4. HandlerTyped'
  BY <1>1, TypedParts DEF HandlerTyped, env
<1>5. TypeOK'
  BY <1>1, <1>2, <1>3, <1>4, TypedParts, TypedNext
     DEF TablesTyped, TxTyped, RestTyped, tables, tx, env
<1>6. Safe'
  BY <1>1 DEF IndInv, Safe, LocksExclusive, CopiesCurrent, Conserved, Balanced,
     Announced, Answers, tables, tx, env
<1> QED
  BY <1>5, <1>6 DEF IndInv

LEMMA RestartInv ==
  ASSUME IndInv, NEW i \in Instances, Restart(i)
  PROVE  IndInv'
<1>1. /\ TypeOK /\ Fault("rebalance") /\ Stop(i) /\ Released(i)
      /\ \E j \in Instances : group' = IF group.owner = i THEN Reassign(group, j) ELSE group
      /\ UNCHANGED <<tables, env>>
  BY DEF IndInv, Restart
<1>2. HandlerTyped' /\ OthersKeep(i)
  BY <1>1, StopFrame DEF env
<1>3. faults' \in [FaultKinds -> Nat]
  BY <1>1, FaultFrame DEF FaultKinds
<1>4. group' \in [owner : Instances, position : Nat, committed : Nat]
  BY <1>1, GroupFrame DEF TypeOK, IsGroup
<1>5. TxTyped' /\ Safe'
  BY <1>1, <1>2, RolledBack DEF env
<1>6. TypeOK'
  BY <1>1, <1>2, <1>3, <1>4, <1>5, TypedParts, TypedNext
     DEF TablesTyped, RestTyped, tables, env
<1> QED
  BY <1>5, <1>6 DEF IndInv

LEMMA NextInv == IndInv /\ [OpenNext]_vars => IndInv'
<1> SUFFICES ASSUME IndInv, [OpenNext]_vars PROVE IndInv'
  OBVIOUS
<1>1. CASE UNCHANGED vars
  BY <1>1 DEF IndInv, vars, TypeOK, Safe, LocksExclusive, CopiesCurrent, Conserved,
     Balanced, Announced, Answers
<1>2. ASSUME NEW o \in Orders, Announce(o) PROVE IndInv'
  BY <1>2, AnnounceInv
<1>3. ASSUME NEW s \in Stocked, Restock(s) PROVE IndInv'
  BY <1>3, RestockInv
<1>4. ASSUME NEW i \in Instances, ReserveStep(i) PROVE IndInv'
  BY <1>4, CheckInv, LockRowInv, StockCheckedInv, RollbackInv, ReserveLineInv,
     CommitReservationInv, RecordFailureInv DEF ReserveStep
<1>5. ASSUME NEW i \in Instances, FetchMessage(i) \/ CommitMessages(i) PROVE IndInv'
  BY <1>5, FetchMessageInv, CommitMessagesInv
<1>6. ASSUME NEW i \in Instances, ConsumerFault(i) PROVE IndInv'
  BY <1>6, RollbackInv, CommitReservationInv, CommitMessagesInv, RebalanceInv, RestartInv
     DEF ConsumerFault
<1> QED
  BY <1>1, <1>2, <1>3, <1>4, <1>5, <1>6 DEF OpenNext, ServiceNext, ConsumerStep

-----------------------------------------------------------------------------
\* The inductive invariant: row locks are exclusive, what is checked under
\* them is current, units balance in the table and in every copy, and the
\* announcements are those of the processed orders.
THEOREM Invariant == Spec => []IndInv
  BY InvInit, NextInv, BoundedIsOpen, PTL DEF Spec

\* Typing: no quantity is ever negative, in the table or in a transaction.
THEOREM TypeCorrect == Spec => []TypeOK
  BY Invariant, Consequences, PTL

\* A reservation and its announcement are one: over redeliveries, zombies,
\* lost replies and rollbacks (stock_repo.go:111-129).
THEOREM AnnouncedOnce == Spec => []ReservedAnnouncedOnce
  BY Invariant, Consequences, PTL

-----------------------------------------------------------------------------
(* What is reserved: the folds of ReservedIsDemanded as sums *)

\* What each line of order o asks for of SKU s.
Asked(o, s) ==
    [k \in DOMAIN Items[o] |-> IF Items[o][k].sku = s THEN Items[o][k].qty ELSE 0]

LEMMA LinesOf ==
  ASSUME NEW o \in Orders
  PROVE  /\ DOMAIN Items[o] = 1..Len(Items[o]) /\ Len(Items[o]) \in Nat
         /\ IsFiniteSet(DOMAIN Items[o])
         /\ \A k \in DOMAIN Items[o] : Items[o][k] \in [sku : SKUs, qty : Int]
         /\ \A s : \A k \in DOMAIN Items[o] : Asked(o, s)[k] \in Int
<1> DEFINE L == [sku : SKUs, qty : Int]
<1>1. Items[o] \in Seq(L)
  BY InventoryAssumption
<1> HIDE DEF L
<1>2. /\ DOMAIN Items[o] = 1..Len(Items[o]) /\ Len(Items[o]) \in Nat
      /\ \A k \in DOMAIN Items[o] : Items[o][k] \in L
  BY <1>1, LenProperties, ElementOfSeq
<1>3. IsFiniteSet(1..Len(Items[o]))
  BY <1>2, FS_Interval
<1>4. \A s : \A k \in DOMAIN Items[o] : Asked(o, s)[k] \in Int
  BY <1>2 DEF Asked, L
<1> QED
  BY <1>2, <1>3, <1>4 DEF L

\* What the first n lines ask for.
LEMMA AskedSum ==
  ASSUME NEW o \in Orders, NEW s, NEW n \in DOMAIN Items[o]
  PROVE  /\ SumOf(Asked(o, s), 1..(n - 1)) \in Int /\ SumOf(Asked(o, s), 1..n) \in Int
         /\ SumOf(Asked(o, s), 1..n) = SumOf(Asked(o, s), 1..(n - 1)) + Asked(o, s)[n]
<1> DEFINE asked == Asked(o, s)
           before == 1..(n - 1)
<1>1. n \in Nat \ {0} /\ n \in 1..Len(Items[o]) /\ Len(Items[o]) \in Nat
  BY LinesOf
<1>2. \A k \in 1..n : asked[k] \in Int
  BY <1>1, LinesOf
<1>3. IsFiniteSet(before) /\ \A k \in before : asked[k] \in Int
  <2>1. \A k \in before : asked[k] \in Int
    BY <1>1, <1>2
  <2>2. IsFiniteSet(1..(n - 1))
    BY <1>1, FS_Interval
  <2> QED
    BY <2>1, <2>2
<1> HIDE DEF asked
<1>4. SumOf(asked, before) \in Int
  <2> HIDE DEF before
  <2> QED
    BY <1>3, SumType
<1>5. SumOf(asked, 1..n) = SumOf(asked, 1..(n - 1)) + asked[n]
  <2>1. PICK m \in Nat : n = m + 1
    BY <1>1
  <2>2. SumOf(asked, 1..(m + 1)) = SumOf(asked, 1..m) + asked[m + 1]
    <3>1. \A k \in 1..(m + 1) : asked[k] \in Int
      BY <1>2, <2>1
    <3> QED
      BY <3>1, SumOfNext
  <2>3. m = n - 1
    BY <2>1
  <2> QED
    BY <2>1, <2>2, <2>3
<1>6. asked[n] \in Int
  BY <1>1, <1>2
<1> QED
  BY <1>4, <1>5, <1>6 DEF asked

\* The fold over the lines is the sum of what they ask for.
LEMMA DemandIsSum ==
  ASSUME NEW o \in Orders, NEW s
  PROVE  Demand(o, s) = SumOf(Asked(o, s), DOMAIN Items[o]) /\ Demand(o, s) \in Int
<1> DEFINE lines == DOMAIN Items[o]
           asked == Asked(o, s)
           IsFold(f) == f = [T \in SUBSET (DOMAIN Items[o]) |->
               IF T = {} THEN 0
               ELSE IF Items[o][CHOOSE x \in T : TRUE].sku = s
                      THEN f[T \ {CHOOSE x \in T : TRUE}] + Items[o][CHOOSE x \in T : TRUE].qty
                      ELSE f[T \ {CHOOSE x \in T : TRUE}]]
           fold == CHOOSE f : IsFold(f)
<1>1. Demand(o, s) = fold[lines]
  BY DEF Demand, FoldSeq, FoldFunction, FoldFunctionOnSet, MapThenFoldSet
<1>2. IsFiniteSet(lines) /\ \A k \in lines : asked[k] \in Int
  BY LinesOf
<1>3. \A k \in lines : asked[k] = IF Items[o][k].sku = s THEN Items[o][k].qty ELSE 0
  BY DEF Asked
<1> DEFINE sums == PartialSums(asked, lines)
<1>4. IsSum(sums, asked, lines) /\ sums \in [SUBSET lines -> Int]
  <2> HIDE DEF asked, lines
  <2> QED
    BY <1>2, PartialSumsExist
<1> HIDE DEF asked, sums
<1>5. IsFold(sums)
  <2>1. ASSUME NEW T \in SUBSET lines, T # {}, NEW x, x = Taken(T)
        PROVE  sums[T] = IF Items[o][x].sku = s THEN sums[T \ {x}] + Items[o][x].qty
                                                ELSE sums[T \ {x}]
    <3>1. x \in T /\ x \in lines /\ T \ {x} \in SUBSET lines
      BY <2>1, TakenIsElement
    <3>2. sums[T] = sums[T \ {x}] + asked[x]
      BY <1>4, <2>1 DEF IsSum
    <3>3. sums[T \ {x}] \in Int
      BY <1>4, <3>1
    <3> QED
      BY <1>3, <3>1, <3>2, <3>3
  <2>2. sums[{}] = 0 /\ sums = [T \in SUBSET lines |-> sums[T]]
    BY <1>4 DEF IsSum
  <2>3. \A T \in SUBSET lines : sums[T] =
          IF T = {} THEN 0
          ELSE IF Items[o][Taken(T)].sku = s
                 THEN sums[T \ {Taken(T)}] + Items[o][Taken(T)].qty
                 ELSE sums[T \ {Taken(T)}]
    BY <2>1, <2>2
  <2>4. sums = [T \in SUBSET lines |->
          IF T = {} THEN 0
          ELSE IF Items[o][Taken(T)].sku = s
                 THEN sums[T \ {Taken(T)}] + Items[o][Taken(T)].qty
                 ELSE sums[T \ {Taken(T)}]]
    BY <2>2, <2>3
  <2> QED
    BY <2>4 DEF Taken
<1>6. IsFold(fold)
  BY <1>5
<1> HIDE DEF fold
<1>7. fold[{}] = 0
  BY <1>6
<1>8. ASSUME NEW T \in SUBSET lines, T # {}, fold[T \ {Taken(T)}] \in Int
      PROVE  fold[T] = fold[T \ {Taken(T)}] + asked[Taken(T)]
  <2>1. Taken(T) \in lines
    BY <1>8, TakenIsElement
  <2>2. fold[T] = IF Items[o][Taken(T)].sku = s
                    THEN fold[T \ {Taken(T)}] + Items[o][Taken(T)].qty
                    ELSE fold[T \ {Taken(T)}]
    BY <1>6, <1>8 DEF Taken
  <2> QED
    BY <1>3, <1>8, <2>1, <2>2
<1> HIDE DEF lines, IsFold
<1>9. fold[lines] = SumOf(asked, lines) /\ SumOf(asked, lines) \in Int
  BY <1>2, <1>7, <1>8, FoldIsSum, SumType
<1> QED
  BY <1>1, <1>9 DEF asked, lines

\* What a processed order asked for of SKU s.
Demanded(s) == [o \in Orders |-> Demand(o, s)]

LEMMA TotalIsSum ==
  ASSUME NEW done \in SUBSET Orders, IsFiniteSet(done), NEW s
  PROVE  TotalDemand(done, s) = SumOf(Demanded(s), done)
<1> DEFINE IsFold(f) == f = [T \in SUBSET done |->
               IF T = {} THEN 0
               ELSE f[T \ {CHOOSE x \in T : TRUE}] + Demand(CHOOSE x \in T : TRUE, s)]
           fold == CHOOSE f : IsFold(f)
           asked == Demanded(s)
           sums == PartialSums(asked, done)
<1>1. TotalDemand(done, s) = fold[done]
  BY DEF TotalDemand, FoldSet, MapThenFoldSet
<1>2. \A o \in done : asked[o] = Demand(o, s) /\ asked[o] \in Int
  BY DemandIsSum DEF Demanded
<1>3. IsSum(sums, asked, done)
  <2> HIDE DEF asked
  <2> QED
    BY <1>2, PartialSumsExist
<1> HIDE DEF asked, sums
<1>4. IsFold(sums)
  <2>1. \A T \in SUBSET done : T # {} => asked[Taken(T)] = Demand(Taken(T), s)
    BY <1>2, TakenIsElement
  <2>2. sums = [T \in SUBSET done |->
                   IF T = {} THEN 0 ELSE sums[T \ {Taken(T)}] + Demand(Taken(T), s)]
    BY <1>3, <2>1 DEF IsSum
  <2> QED
    BY <2>2 DEF Taken
<1>5. IsFold(fold)
  BY <1>4
<1> HIDE DEF fold
<1>6. fold[{}] = 0
  BY <1>5
<1>7. ASSUME NEW T \in SUBSET done, T # {}
      PROVE  fold[T] = fold[T \ {Taken(T)}] + asked[Taken(T)]
  <2>1. fold[T] = fold[T \ {Taken(T)}] + Demand(Taken(T), s)
    BY <1>5, <1>7 DEF Taken
  <2> QED
    BY <1>2, <1>7, <2>1, TakenIsElement
<1>8. fold[done] = SumOf(asked, done)
  BY <1>2, <1>6, <1>7, FoldIsSum
<1> QED
  BY <1>1, <1>8 DEF asked

LEMMA TotalNow ==
  \A s : TotalDemand(processed, s)' = TotalDemand(processed', s)
BY DEF TotalDemand, FoldSet, MapThenFoldSet

-----------------------------------------------------------------------------
(* The ledger: what an open transaction has drawn so far *)

Drawn(i, s) == SumOf(Asked(Subject(i), s), 1..(handler[i].line - 1))

\* A handler that reserves has locked all it asks for, and has moved exactly
\* what the lines before its next one ask for.
DrawingOf(i) ==
    handler[i].pc = "reserve" =>
        /\ handler[i].line \in 1..(Len(Lines(i)) + 1)
        /\ \A k \in DOMAIN Lines(i) : Lines(i)[k].sku \in held[i]
        /\ \A s \in held[i] : local[i][s].reserved = stock[s].reserved + Drawn(i, s)

Ledger ==
    /\ IsFiniteSet(processed)
    /\ ReservedIsDemanded
    /\ \A i \in Instances : DrawingOf(i)

LEMMA LedgerInit == Init => Ledger
<1> SUFFICES ASSUME Init PROVE Ledger
  OBVIOUS
<1>1. processed = {} /\ IsFiniteSet(processed)
  BY FS_EmptySet DEF Init
<1>2. ASSUME NEW s \in Stocked PROVE stock[s].reserved = TotalDemand(processed, s)
  <2>1. TotalDemand(processed, s) = SumOf(Demanded(s), processed)
    BY <1>1, TotalIsSum, TotalNow
  <2>2. SumOf(Demanded(s), {}) = 0
    BY SumOfNothing
  <2> QED
    BY <1>1, <2>1, <2>2 DEF Init
<1>3. \A i \in Instances : DrawingOf(i)
  BY DEF Init, Idle, DrawingOf
<1> QED
  BY <1>1, <1>2, <1>3 DEF Ledger, ReservedIsDemanded

\* A handler whose transaction, message and locked rows stay as they are.
LEMMA DrawingKept ==
  ASSUME TypeOK, NEW j \in Instances, DrawingOf(j),
         handler'[j] = handler[j], held'[j] = held[j], local'[j] = local[j],
         \A k \in DOMAIN log : log'[k] = log[k],
         \A s \in held[j] : stock'[s].reserved = stock[s].reserved
  PROVE  DrawingOf(j)'
<1> SUFFICES ASSUME handler[j].pc = "reserve" PROVE DrawingOf(j)'
  BY DEF DrawingOf
<1>1. Subject(j)' = Subject(j)
  BY DEF TypeOK, Subject
<1>2. Lines(j)' = Lines(j) /\ \A s : Drawn(j, s)' = Drawn(j, s)
  BY <1>1 DEF Lines, Drawn
<1> QED
  BY <1>2 DEF DrawingOf

\* Demand depends on the processed orders alone.
LEMMA DemandKept ==
  ASSUME UNCHANGED processed
  PROVE  \A s : TotalDemand(processed, s)' = TotalDemand(processed, s)
BY TotalNow

\* A step that moves no unit and leaves nobody reserving who was not before.
LEMMA LedgerKept ==
  ASSUME IndInv, Ledger, UNCHANGED processed,
         \A s \in Stocked : stock'[s].reserved = stock[s].reserved,
         \A k \in DOMAIN log : log'[k] = log[k],
         \A j \in Instances :
            \/ handler'[j].pc # "reserve"
            \/ /\ handler'[j] = handler[j] /\ held'[j] = held[j] /\ local'[j] = local[j]
  PROVE  Ledger'
<1>1. TypeOK /\ \A j \in Instances : held[j] \subseteq Stocked
  BY DEF IndInv, TypeOK
<1>2. ReservedIsDemanded'
  BY DemandKept DEF Ledger, ReservedIsDemanded
<1>3. ASSUME NEW j \in Instances PROVE DrawingOf(j)'
  <2>1. CASE handler'[j].pc # "reserve"
    BY <2>1 DEF DrawingOf
  <2>2. CASE handler'[j] = handler[j] /\ held'[j] = held[j] /\ local'[j] = local[j]
    BY <1>1, <2>2, DrawingKept DEF Ledger
  <2> QED
    BY <2>1, <2>2
<1> QED
  BY <1>2, <1>3 DEF Ledger

\* The check passed: every line is locked, nothing is drawn yet.
LEMMA StockCheckedLedger ==
  ASSUME IndInv, Ledger, NEW i \in Instances, StockChecked(i)
  PROVE  Ledger'
<1> DEFINE h == [handler[i] EXCEPT !.pc = "reserve", !.line = 1]
<1>1. /\ TypeOK /\ handler[i].pc = "lock" /\ held[i] = Wanted(i) /\ AllCovered(i)
      /\ handler' = [handler EXCEPT ![i] = h]
      /\ UNCHANGED <<tables, env, group, tx, faults>>
  BY DEF IndInv, StockChecked
<1>2. /\ handler'[i].pc = "reserve" /\ handler'[i].line = 1
      /\ handler'[i].offset = handler[i].offset
      /\ \A j \in Instances : j # i => handler'[j] = handler[j]
  BY <1>1 DEF TypeOK
<1>3. Subject(i)' = Subject(i) /\ Lines(i)' = Lines(i)
  BY <1>1, <1>2 DEF Subject, Lines, env
<1>4. Subject(i) \in Orders /\ Len(Lines(i)) \in Nat
  BY <1>1, SubjectType, LinesOf DEF Lines
<1>5. ASSUME NEW s PROVE Drawn(i, s)' = 0
  <2>1. 1..(handler'[i].line - 1) = {}
    BY <1>2
  <2> QED
    BY <2>1, SumOfNothing DEF Drawn
<1>6. ASSUME NEW s \in held[i] PROVE local[i][s].reserved = stock[s].reserved + 0
  <2>1. local[i][s] = stock[s] /\ stock[s] \in StockRow
    BY <1>1 DEF IndInv, Safe, CopiesCurrent, TypeOK
  <2> QED
    BY <2>1 DEF StockRow
<1>7. \A k \in DOMAIN Lines(i) : Lines(i)[k].sku \in held[i]
  BY <1>1 DEF Wanted, AllCovered, LineIsCovered
<1>8. DrawingOf(i)'
  BY <1>1, <1>2, <1>3, <1>4, <1>5, <1>6, <1>7 DEF DrawingOf, tx, tables
<1>9. ASSUME NEW j \in Instances, j # i PROVE DrawingOf(j)'
  BY <1>1, <1>2, <1>9, DrawingKept DEF Ledger, tx, tables, env
<1>10. ReservedIsDemanded' /\ IsFiniteSet(processed)'
  BY <1>1, DemandKept DEF Ledger, ReservedIsDemanded, tables
<1> QED
  BY <1>8, <1>9, <1>10 DEF Ledger

\* One line more is drawn.
LEMMA ReserveLineLedger ==
  ASSUME IndInv, Ledger, NEW i \in Instances, ReserveLine(i)
  PROVE  Ledger'
<1>1. /\ TypeOK /\ handler[i].pc = "reserve" /\ handler[i].line \in DOMAIN Lines(i)
      /\ UNCHANGED <<tables, env, group, held, faults>>
  BY DEF IndInv, ReserveLine
<1>2. Subject(i) \in Orders
  BY <1>1, SubjectType
<1>3. PICK o \in Orders : o = Subject(i)
  BY <1>2
<1>4. PICK n \in DOMAIN Items[o] : n = handler[i].line
  BY <1>1, <1>3 DEF Lines
<1>5. PICK l \in [sku : SKUs, qty : Int] : l = Items[o][n]
  BY LinesOf
<1>6. /\ local' = [local EXCEPT ![i][l.sku] =
                      [available |-> @.available - l.qty, reserved |-> @.reserved + l.qty]]
      /\ handler' = [handler EXCEPT ![i].line = @ + 1]
      /\ l = Line(i)
  BY <1>3, <1>4, <1>5 DEF ReserveLine, Line, Lines
<1>7. n \in Nat \ {0} /\ n \in 1..Len(Items[o]) /\ Len(Items[o]) \in Nat
  BY LinesOf
<1>8. /\ handler'[i].pc = "reserve" /\ handler'[i].line = n + 1
      /\ handler'[i].offset = handler[i].offset
      /\ \A j \in Instances : j # i => handler'[j] = handler[j]
  BY <1>1, <1>4, <1>6 DEF TypeOK
<1>9. local \in [Instances -> [Stocked -> StockRow]] /\ held[i] \subseteq Stocked
  BY <1>1 DEF TypeOK
<1>10. /\ \A s \in held[i] : local'[i][s].reserved =
              IF s = l.sku THEN local[i][s].reserved + l.qty ELSE local[i][s].reserved
       /\ \A j \in Instances : j # i => local'[j] = local[j]
  BY <1>6, <1>9
<1>11. Subject(i)' = o /\ Lines(i)' = Items[o] /\ Lines(i) = Items[o]
  BY <1>1, <1>3, <1>8 DEF Subject, Lines, env
<1>12. ASSUME NEW s \in held[i]
       PROVE  local'[i][s].reserved = stock'[s].reserved + Drawn(i, s)'
  <2> DEFINE asked == Asked(o, s)
             before == SumOf(asked, 1..(n - 1))
  <2>1. before \in Int /\ SumOf(asked, 1..n) = before + asked[n]
    BY AskedSum
  <2>2. asked[n] = IF l.sku = s THEN l.qty ELSE 0
    BY <1>5 DEF Asked
  <2>3. Drawn(i, s) = before /\ Drawn(i, s)' = SumOf(asked, 1..n)
    <3>1. (n + 1) - 1 = n
      BY <1>7
    <3> QED
      BY <1>3, <1>4, <1>8, <1>11, <3>1 DEF Drawn
  <2>4. local[i][s].reserved = stock[s].reserved + before
    BY <1>1, <2>3 DEF Ledger, DrawingOf
  <2>5. stock'[s].reserved = stock[s].reserved /\ stock[s].reserved \in Nat
    BY <1>1, <1>9 DEF TypeOK, StockRow, tables
  <2> HIDE DEF before, asked
  <2> QED
    BY <1>10, <2>1, <2>2, <2>3, <2>4, <2>5
<1>13. n + 1 \in 1..(Len(Items[o]) + 1)
  BY <1>7
<1>14. \A k \in DOMAIN Lines(i) : Lines(i)[k].sku \in held[i]
  BY <1>1 DEF Ledger, DrawingOf
<1>15. DrawingOf(i)'
  BY <1>1, <1>8, <1>11, <1>12, <1>13, <1>14 DEF DrawingOf
<1>16. ASSUME NEW j \in Instances, j # i PROVE DrawingOf(j)'
  BY <1>1, <1>8, <1>10, <1>16, DrawingKept DEF Ledger, tables, env
<1>17. ReservedIsDemanded' /\ IsFiniteSet(processed)'
  BY <1>1, DemandKept DEF Ledger, ReservedIsDemanded, tables
<1> QED
  BY <1>15, <1>16, <1>17 DEF Ledger

\* The order counts from now on, with all its lines.
LEMMA CommittedLedger ==
  ASSUME IndInv, Ledger, NEW i \in Instances, AllReserved(i), Subject(i) \notin processed,
         Write(i), Released(i), OthersKeep(i), UNCHANGED log,
         handler'[i].pc # "reserve"
  PROVE  Ledger'
<1>1. TypeOK /\ Subject(i) \in Orders /\ handler[i].pc = "reserve" /\ DrawingOf(i)
  BY SubjectType DEF IndInv, AllReserved, Ledger
<1>2. PICK o \in Orders : o = Subject(i)
  BY <1>1
<1>3. /\ stock' = [s \in Stocked |-> IF s \in held[i] THEN local[i][s] ELSE stock[s]]
      /\ processed' = processed \cup {o} /\ o \notin processed
  BY <1>2 DEF Write
<1>4. Lines(i) = Items[o]
  BY <1>2 DEF Lines
<1>5. \A s : Drawn(i, s) = SumOf(Asked(o, s), DOMAIN Items[o])
  <2>1. handler[i].line > Len(Items[o]) /\ handler[i].line \in 1..(Len(Items[o]) + 1)
    BY <1>1, <1>4 DEF AllReserved, DrawingOf
  <2>2. 1..(handler[i].line - 1) = DOMAIN Items[o]
    <3>1. PICK m \in Nat : m = Len(Items[o]) /\ DOMAIN Items[o] = 1..m
      BY LinesOf
    <3>2. PICK n \in 1..(m + 1) : n = handler[i].line /\ n > m
      BY <2>1, <3>1
    <3>3. n - 1 = m
      BY <3>1, <3>2
    <3> QED
      BY <3>1, <3>2, <3>3
  <2> QED
    BY <1>2, <2>2 DEF Drawn
<1>6. ASSUME NEW s \in Stocked
      PROVE  stock'[s].reserved = stock[s].reserved + Demand(o, s)
  <2>1. Demand(o, s) = SumOf(Asked(o, s), DOMAIN Items[o])
    BY DemandIsSum
  <2>2. CASE s \in held[i]
    BY <1>1, <1>3, <1>5, <2>1, <2>2 DEF DrawingOf
  <2>3. CASE s \notin held[i]
    <3>1. \A k \in DOMAIN Items[o] : Asked(o, s)[k] = 0
      BY <1>1, <1>4, <2>3 DEF DrawingOf, Asked
    <3>2. SumOf(Asked(o, s), DOMAIN Items[o]) = 0
      <4>1. IsFiniteSet(DOMAIN Items[o])
        BY LinesOf
      <4> QED
        BY <3>1, <4>1, SumOfZeros
    <3>3. stock[s].reserved \in Nat
      BY <1>1 DEF TypeOK, StockRow
    <3> QED
      BY <1>3, <2>1, <2>3, <3>2, <3>3
  <2> QED
    BY <2>2, <2>3
<1>7. IsFiniteSet(processed) /\ processed \in SUBSET Orders
  BY <1>1 DEF Ledger, TypeOK
<1>8. IsFiniteSet(processed') /\ processed' \in SUBSET Orders
  BY <1>3, <1>7, FS_AddElement
<1>9. ASSUME NEW s \in Stocked PROVE (stock[s].reserved = TotalDemand(processed, s))'
  <2>1. TotalDemand(processed, s) = SumOf(Demanded(s), processed)
    BY <1>7, TotalIsSum, TotalNow
  <2>2. TotalDemand(processed, s)' = SumOf(Demanded(s), processed')
    BY <1>8, TotalIsSum, TotalNow
  <2>3. \A q \in Orders : Demanded(s)[q] = Demand(q, s) /\ Demanded(s)[q] \in Int
    BY DemandIsSum DEF Demanded
  <2>4. SumOf(Demanded(s), processed \cup {o}) = SumOf(Demanded(s), processed) + Demanded(s)[o]
    <3>1. \A x \in processed \cup {o} : Demanded(s)[x] \in Int
      BY <1>7, <2>3
    <3> QED
      BY <1>3, <1>7, <3>1, SumWith
  <2>5. stock[s].reserved = TotalDemand(processed, s)
    BY DEF Ledger, ReservedIsDemanded
  <2> QED
    BY <1>3, <1>6, <2>1, <2>2, <2>3, <2>4, <2>5
<1>10. /\ held'[i] = {}
       /\ \A j \in Instances : j # i => held'[j] = held[j] /\ local'[j] = local[j]
  BY <1>1, ReleasedFrame
<1>11. ASSUME NEW j \in Instances, j # i PROVE DrawingOf(j)'
  <2>1. \A s \in held[j] : s \notin held[i] /\ s \in Stocked
    BY <1>1, <1>11 DEF IndInv, Safe, LocksExclusive, TypeOK
  <2>2. \A s \in held[j] : stock'[s].reserved = stock[s].reserved
    BY <1>3, <2>1
  <2>3. handler'[j] = handler[j] /\ held'[j] = held[j] /\ local'[j] = local[j]
    BY <1>10, <1>11 DEF OthersKeep
  <2> QED
    BY <1>1, <2>2, <2>3, DrawingKept DEF Ledger
<1>12. DrawingOf(i)'
  BY DEF DrawingOf
<1> QED
  BY <1>8, <1>9, <1>11, <1>12 DEF Ledger, ReservedIsDemanded

LEMMA LedgerNext == IndInv /\ Ledger /\ [OpenNext]_vars => Ledger'
<1> SUFFICES ASSUME IndInv, Ledger, [OpenNext]_vars PROVE Ledger'
  OBVIOUS
<1>1. TypeOK /\ log \in Seq(Orders) /\ stock \in [Stocked -> StockRow]
  BY DEF IndInv, TypeOK
<1>2. CASE UNCHANGED vars
  BY <1>2, LedgerKept DEF vars
<1>3. ASSUME NEW o \in Orders, Announce(o) PROVE Ledger'
  <2>1. \A k \in DOMAIN log : log'[k] = log[k]
    BY <1>1, <1>3 DEF Announce
  <2> QED
    BY <1>3, <2>1, LedgerKept DEF Announce, tables, tx
<1>4. ASSUME NEW s \in Stocked, Restock(s) PROVE Ledger'
  <2>1. \A r \in Stocked : stock'[r].reserved = stock[r].reserved
    BY <1>1, <1>4 DEF Restock, StockRow
  <2> QED
    BY <1>4, <2>1, LedgerKept DEF Restock, tx
<1>5. ASSUME NEW i \in Instances, StockChecked(i) \/ ReserveLine(i) PROVE Ledger'
  BY <1>5, StockCheckedLedger, ReserveLineLedger
<1>6. ASSUME NEW i \in Instances, CommitReservation(i) \/ CommitReplyLost(i) PROVE Ledger'
  <2>1. /\ AllReserved(i) /\ Subject(i) \notin processed /\ Write(i) /\ Released(i)
        /\ UNCHANGED env
        /\ Stop(i) \/ (handler[i].pc # "idle" /\ Goto(i, "commit"))
    BY <1>6 DEF CommitReservation, CommitReplyLost, AllReserved
  <2>2. UNCHANGED <<log, restocks>>
    BY <2>1 DEF env
  <2>3. OthersKeep(i) /\ handler'[i].pc # "reserve"
    <3>1. CASE Stop(i)
      BY <1>1, <2>2, <3>1, StopFrame
    <3>2. CASE handler[i].pc # "idle" /\ Goto(i, "commit")
      BY <1>1, <2>2, <3>2, GotoFrame DEF HandlerPCs
    <3> QED
      BY <2>1, <3>1, <3>2
  <2> QED
    BY <2>1, <2>2, <2>3, CommittedLedger
<1>7. ASSUME NEW i \in Instances, NEW s \in Stocked, LockRow(i, s) PROVE Ledger'
  <2>1. \A j \in Instances : j # i => held'[j] = held[j] /\ local'[j] = local[j]
    BY <1>1, <1>7 DEF LockRow, TypeOK
  <2>2. handler[i].pc = "lock" /\ UNCHANGED <<tables, env, handler>>
    BY <1>7 DEF LockRow
  <2> QED
    BY <2>1, <2>2, LedgerKept DEF tables, env
<1>8. ASSUME NEW i \in Instances,
             \/ FetchMessage(i) \/ AlreadyProcessed(i) \/ NotProcessed(i) \/ RecordFailure(i)
             \/ CommitMessages(i) \/ CommitError(i) \/ Rebalance(i)
      PROVE  Ledger'
  <2>1. UNCHANGED <<stock, processed, log, tx>>
    BY <1>8 DEF FetchMessage, AlreadyProcessed, NotProcessed, RecordFailure,
       CommitMessages, CommitError, Rebalance, tables, env
  <2>2. \/ UNCHANGED handler
        \/ \E h : h.pc # "reserve" /\ handler' = [handler EXCEPT ![i] = h]
    <3>1. CASE FetchMessage(i)
      BY <3>1 DEF FetchMessage
    <3>2. ASSUME NEW pc \in {"lock", "commit"}, Goto(i, pc)
          PROVE  \E h : h.pc # "reserve" /\ handler' = [handler EXCEPT ![i] = h]
      <4>1. [handler[i] EXCEPT !.pc = pc].pc = pc
        BY <1>1 DEF TypeOK
      <4> QED
        BY <3>2, <4>1 DEF Goto
    <3>3. ASSUME Stop(i)
          PROVE  \E h : h.pc # "reserve" /\ handler' = [handler EXCEPT ![i] = h]
      BY <3>3 DEF Stop, Idle
    <3> QED
      BY <1>8, <3>1, <3>2, <3>3 DEF AlreadyProcessed, NotProcessed, RecordFailure,
         CommitMessages, CommitError, Rebalance
  <2>3. \A j \in Instances : handler'[j].pc # "reserve" \/ handler'[j] = handler[j]
    BY <1>1, <2>2 DEF TypeOK
  <2> QED
    BY <2>1, <2>3, LedgerKept DEF tx
<1>9. ASSUME NEW i \in Instances,
             \/ StockRefused(i) \/ LineRefused(i) \/ LineInvalid(i) \/ UniqueViolation(i)
             \/ DeadlockVictim(i) \/ HandlerError(i) \/ Restart(i)
      PROVE  Ledger'
  <2>1. /\ UNCHANGED <<tables, env>> /\ Released(i)
        /\ Stop(i) \/ (handler[i].pc # "idle" /\ Goto(i, "refuse"))
    BY <1>9 DEF StockRefused, LineRefused, LineInvalid, UniqueViolation, DeadlockVictim,
       HandlerError, Restart
  <2>2. OthersKeep(i) /\ handler'[i].pc # "reserve"
    BY <1>1, <2>1, StopFrame, GotoFrame DEF env, HandlerPCs
  <2>3. \A j \in Instances : j # i => held'[j] = held[j] /\ local'[j] = local[j]
    BY <1>1, <2>1, ReleasedFrame
  <2> QED
    BY <2>1, <2>2, <2>3, LedgerKept DEF OthersKeep, tables, env
<1> QED
  BY <1>2, <1>3, <1>4, <1>5, <1>6, <1>7, <1>8, <1>9
     DEF OpenNext, ServiceNext, ConsumerStep, ReserveStep, ConsumerFault

\* What is reserved is what the processed orders asked for, whatever sums of
\* lines and orders that takes: a transaction that dies on the way leaves
\* nothing behind, and no order counts twice (stock_repo.go:23-129).
THEOREM ReservedAsDemanded == Spec => []ReservedIsDemanded
<1>1. Ledger => ReservedIsDemanded
  BY DEF Ledger
<1> QED
  BY <1>1, LedgerInit, LedgerNext, Invariant, BoundedIsOpen, PTL DEF Spec

\* The orders announced as reserved are the processed ones, and a row that
\* balances has what they asked for less than it was ever stocked with.
LEMMA PromisesKept == IndInv /\ Ledger => UnitsPromisedOnce
<1> SUFFICES ASSUME IndInv, Ledger, NEW s \in Stocked
             PROVE  stock[s].available
                      = InitialStock[s] + restocks[s] - TotalDemand(Promised, s)
  BY DEF UnitsPromisedOnce
<1>1. Promised = processed
  <2>1. processed \subseteq Orders
    BY DEF IndInv, TypeOK
  <2>2. ASSUME NEW o \in Orders
        PROVE  o \in processed <=> Answers(o, "stock.reserved") # {}
    BY DEF IndInv, Safe, Announced
  <2> QED
    BY <2>1, <2>2 DEF Promised
<1>2. stock[s].reserved = TotalDemand(Promised, s)
  BY <1>1 DEF Ledger, ReservedIsDemanded
<1>3. stock[s].available + stock[s].reserved = InitialStock[s] + restocks[s]
  BY DEF IndInv, Safe, Conserved, Balanced
<1>4. /\ stock[s].available \in Int /\ stock[s].reserved \in Int
      /\ InitialStock[s] \in Int /\ restocks[s] \in Int
  BY InventoryAssumption DEF IndInv, TypeOK, StockRow
<1>5. stock[s].available = InitialStock[s] + restocks[s] - stock[s].reserved
  BY <1>3, <1>4
<1> QED
  BY <1>2, <1>5, Zenon

\* No unit is available or promised twice: whichever reservations of a SKU
\* race, roll back or are repeated, what is left for sale is what nobody was
\* told to have (stock_repo.go:43-129).
THEOREM NoUnitPromisedTwice == Spec => []UnitsPromisedOnce
  BY PromisesKept, LedgerInit, LedgerNext, Invariant, BoundedIsOpen, PTL DEF Spec

-----------------------------------------------------------------------------
(* A refusal is final while nobody restocks *)

Working(i) == handler[i].pc # "idle"

\* No two handlers work on one order, as they do after a rebalance.
NoTwins ==
    \A i, j \in Instances : i # j /\ Working(i) /\ Working(j) => Subject(i) # Subject(j)

NoRestock == \A s \in Stocked : ~Restock(s)

\* Some line names no stocked SKU, or asks for more than there is: alone, or
\* with the lines before it.
Uncoverable(o) ==
    \E k \in DOMAIN Items[o] :
        \/ Items[o][k].sku \notin Stocked
        \/ stock[Items[o][k].sku].available < Items[o][k].qty
        \/ stock[Items[o][k].sku].available < SumOf(Asked(o, Items[o][k].sku), 1..k)

\* A handler that reserves has found enough for each line alone, and for the
\* lines it has done together.
CoveringOf(i) ==
    /\ \A s \in held[i] : local[i][s].available <= stock[s].available
    /\ \A k \in DOMAIN Lines(i) :
         /\ Lines(i)[k].qty <= stock[Lines(i)[k].sku].available
         /\ k < handler[i].line =>
              SumOf(Asked(Subject(i), Lines(i)[k].sku), 1..k) <= stock[Lines(i)[k].sku].available

RefusalOf(i) ==
    /\ handler[i].pc \in {"lock", "reserve", "refuse"} => Subject(i) \notin processed
    /\ handler[i].pc = "refuse" => Uncoverable(Subject(i))
    /\ handler[i].pc = "reserve" => CoveringOf(i)

Refusals ==
    /\ \A i \in Instances : RefusalOf(i)
    /\ \A o \in Orders : Answers(o, "stock.failed") # {} => Uncoverable(o) /\ o \notin processed

\* Where units only go, what could not be covered cannot be covered.
LEMMA UncoverableStays ==
  ASSUME NEW o \in Orders, Uncoverable(o),
         stock \in [Stocked -> StockRow], stock' \in [Stocked -> StockRow],
         \A s \in Stocked : stock'[s].available <= stock[s].available
  PROVE  Uncoverable(o)'
<1>1. PICK k \in DOMAIN Items[o] :
        \/ Items[o][k].sku \notin Stocked
        \/ stock[Items[o][k].sku].available < Items[o][k].qty
        \/ stock[Items[o][k].sku].available < SumOf(Asked(o, Items[o][k].sku), 1..k)
  BY DEF Uncoverable
<1>2. PICK s, q : s = Items[o][k].sku /\ q = Items[o][k].qty
  OBVIOUS
<1>3. q \in Int /\ SumOf(Asked(o, s), 1..k) \in Int
  BY <1>2, LinesOf, AskedSum
<1>4. CASE s \notin Stocked
  BY <1>2, <1>4 DEF Uncoverable
<1>5. CASE s \in Stocked
  <2>1. PICK x, y \in Nat : x = stock[s].available /\ y = stock'[s].available /\ y <= x
    BY <1>5 DEF StockRow
  <2>2. x < q \/ x < SumOf(Asked(o, s), 1..k)
    BY <1>1, <1>2, <1>5, <2>1
  <2>3. y < q \/ y < SumOf(Asked(o, s), 1..k)
    BY <1>3, <2>1, <2>2
  <2> QED
    BY <1>2, <2>1, <2>3 DEF Uncoverable
<1> QED
  BY <1>4, <1>5

\* A handler whose transaction, message and locked rows stay as they are.
LEMMA RefusalKept ==
  ASSUME TypeOK, stock' \in [Stocked -> StockRow], NEW j \in Instances,
         DrawingOf(j), RefusalOf(j),
         handler'[j] = handler[j], held'[j] = held[j], local'[j] = local[j],
         \A k \in DOMAIN log : log'[k] = log[k],
         \A s \in held[j] : stock'[s] = stock[s],
         \A s \in Stocked : stock'[s].available <= stock[s].available,
         Subject(j) \in processed' => Subject(j) \in processed \/ handler[j].pc = "idle"
  PROVE  RefusalOf(j)'
<1> SUFFICES ASSUME handler[j].pc \in {"lock", "reserve", "refuse"} PROVE RefusalOf(j)'
  BY DEF RefusalOf
<1>1. Subject(j)' = Subject(j) /\ Subject(j) \in Orders
  BY SubjectType DEF TypeOK, Subject
<1>2. Lines(j)' = Lines(j)
  BY <1>1 DEF Lines
<1>3. Subject(j)' \notin processed'
  BY <1>1 DEF RefusalOf
<1>4. handler[j].pc = "refuse" => Uncoverable(Subject(j))'
  <2>1. PICK o \in Orders : o = Subject(j) /\ o = Subject(j)'
    BY <1>1
  <2>2. handler[j].pc = "refuse" => Uncoverable(o)
    BY <2>1 DEF RefusalOf
  <2>3. handler[j].pc = "refuse" => Uncoverable(o)'
    BY <2>2, UncoverableStays DEF TypeOK
  <2> QED
    BY <2>1, <2>3 DEF Uncoverable
<1>5. ASSUME handler[j].pc = "reserve" PROVE CoveringOf(j)'
  <2>1. \A k \in DOMAIN Lines(j) : Lines(j)[k].sku \in held[j]
    BY <1>5 DEF DrawingOf
  <2>2. CoveringOf(j)
    BY <1>5 DEF RefusalOf
  <2> QED
    BY <1>1, <1>2, <2>1, <2>2 DEF CoveringOf
<1> QED
  BY <1>3, <1>4, <1>5 DEF RefusalOf

\* A step that moves no unit and writes no answer.
LEMMA RefusalsKept ==
  ASSUME TypeOK, Ledger, Refusals, UNCHANGED <<stock, processed, outbox>>,
         \A k \in DOMAIN log : log'[k] = log[k],
         \A j \in Instances :
            \/ RefusalOf(j)'
            \/ handler'[j] = handler[j] /\ held'[j] = held[j] /\ local'[j] = local[j]
  PROVE  Refusals'
<1>1. /\ stock \in [Stocked -> StockRow] /\ \A s \in Stocked : stock[s].available <= stock[s].available
      /\ \A j \in Instances : held[j] \subseteq Stocked
  BY DEF TypeOK, StockRow
<1>2. \A j \in Instances : RefusalOf(j)'
  BY <1>1, RefusalKept DEF Refusals, Ledger
<1>3. \A o \in Orders : /\ Answers(o, "stock.failed")' = Answers(o, "stock.failed")
                        /\ Uncoverable(o)' <=> Uncoverable(o)
  BY DEF Answers, Uncoverable
<1> QED
  BY <1>2, <1>3 DEF Refusals

LEMMA RefusalsInit == Init => Refusals
BY DEF Init, Idle, Refusals, RefusalOf, Answers

\* The check passed: there is enough for each line alone.
LEMMA StockCheckedRefusals ==
  ASSUME IndInv, Ledger, Refusals, NEW i \in Instances, StockChecked(i)
  PROVE  Refusals'
<1> DEFINE h == [handler[i] EXCEPT !.pc = "reserve", !.line = 1]
<1>1. /\ TypeOK /\ handler[i].pc = "lock" /\ held[i] = Wanted(i) /\ AllCovered(i)
      /\ handler' = [handler EXCEPT ![i] = h]
      /\ UNCHANGED <<tables, env, group, tx, faults>>
  BY DEF IndInv, StockChecked
<1>2. /\ handler'[i].pc = "reserve" /\ handler'[i].line = 1
      /\ handler'[i].offset = handler[i].offset
      /\ \A j \in Instances : j # i => handler'[j] = handler[j]
  BY <1>1 DEF TypeOK
<1>3. Subject(i)' = Subject(i) /\ Lines(i)' = Lines(i)
  BY <1>1, <1>2 DEF Subject, Lines, env
<1>4. Subject(i) \notin processed
  BY <1>1 DEF Refusals, RefusalOf
<1>5. ASSUME NEW s \in held[i]
      PROVE  local[i][s] = stock[s] /\ local[i][s].available <= stock[s].available
  <2>1. local[i][s] = stock[s] /\ stock[s] \in StockRow
    BY <1>1 DEF IndInv, Safe, CopiesCurrent, TypeOK
  <2> QED
    BY <2>1 DEF StockRow
<1>6. ASSUME NEW k \in DOMAIN Lines(i)
      PROVE  Lines(i)[k].qty <= stock[Lines(i)[k].sku].available /\ ~(k < 1)
  <2>1. Lines(i)[k].sku \in held[i]
    BY <1>1 DEF Wanted, AllCovered, LineIsCovered
  <2>2. Lines(i)[k].qty <= local[i][Lines(i)[k].sku].available
    <3>1. PICK l : l = Lines(i)[k]
      OBVIOUS
    <3>2. local[i][l.sku].available >= l.qty
      BY <1>1, <3>1 DEF AllCovered, LineIsCovered
    <3>3. local[i][l.sku].available \in Nat /\ l.qty \in Int
      <4>1. local[i][l.sku] \in StockRow /\ Subject(i) \in Orders
        BY <1>1, <2>1, <3>1, SubjectType DEF TypeOK
      <4> QED
        BY <3>1, <4>1, LinesOf DEF StockRow, Lines
    <3> QED
      BY <3>1, <3>2, <3>3
  <2>3. k \in 1..Len(Lines(i)) /\ Len(Lines(i)) \in Nat
    BY <1>1, SubjectType, LinesOf DEF Lines
  <2> QED
    BY <1>5, <2>1, <2>2, <2>3
<1>7. CoveringOf(i)'
  BY <1>1, <1>2, <1>3, <1>5, <1>6 DEF CoveringOf, tx, tables
<1>8. RefusalOf(i)'
  BY <1>1, <1>2, <1>3, <1>4, <1>7 DEF RefusalOf, tables
<1> QED
  BY <1>1, <1>2, <1>8, RefusalsKept DEF tables, env, tx

\* One line more is done: what the lines before it left suffices for it.
LEMMA ReserveLineRefusals ==
  ASSUME IndInv, Ledger, Refusals, NEW i \in Instances, ReserveLine(i)
  PROVE  Refusals'
<1>1. /\ TypeOK /\ handler[i].pc = "reserve" /\ handler[i].line \in DOMAIN Lines(i)
      /\ DrawingOf(i) /\ CoveringOf(i) /\ Subject(i) \notin processed
      /\ UNCHANGED <<tables, env, group, held, faults>>
  BY DEF IndInv, Ledger, Refusals, RefusalOf, ReserveLine
<1>2. PICK o \in Orders : o = Subject(i)
  BY <1>1, SubjectType
<1>3. PICK n \in DOMAIN Items[o] : n = handler[i].line
  BY <1>1, <1>2 DEF Lines
<1>4. PICK l \in [sku : SKUs, qty : Int] : l = Items[o][n]
  BY LinesOf
<1>5. /\ l.qty > 0 /\ local[i][l.sku].available >= l.qty
      /\ local' = [local EXCEPT ![i][l.sku] =
                      [available |-> @.available - l.qty, reserved |-> @.reserved + l.qty]]
      /\ handler' = [handler EXCEPT ![i].line = @ + 1]
  BY <1>2, <1>3, <1>4 DEF ReserveLine, Line, Lines
<1>6. /\ handler'[i].pc = "reserve" /\ handler'[i].line = n + 1
      /\ handler'[i].offset = handler[i].offset
      /\ \A j \in Instances : j # i => handler'[j] = handler[j]
  BY <1>1, <1>3, <1>5 DEF TypeOK
<1>7. /\ local \in [Instances -> [Stocked -> StockRow]] /\ held[i] \subseteq Stocked
      /\ l.sku \in held[i] /\ stock \in [Stocked -> StockRow]
  BY <1>1, <1>2, <1>3, <1>4 DEF TypeOK, DrawingOf, Lines
<1>8. /\ \A s \in held[i] : local'[i][s].available =
             IF s = l.sku THEN local[i][s].available - l.qty ELSE local[i][s].available
      /\ \A j \in Instances : j # i => local'[j] = local[j]
  BY <1>5, <1>7
<1>9. Subject(i)' = o /\ Lines(i)' = Items[o] /\ Lines(i) = Items[o]
  BY <1>1, <1>2, <1>6 DEF Subject, Lines, env
<1>10. ASSUME NEW s \in held[i] PROVE local'[i][s].available <= stock[s].available
  <2>1. PICK x, y \in Nat : x = local[i][s].available /\ y = stock[s].available
    BY <1>7 DEF StockRow
  <2>2. x <= y
    BY <1>1, <2>1 DEF CoveringOf
  <2>3. local'[i][s].available = x - l.qty \/ local'[i][s].available = x
    BY <1>8, <2>1
  <2> QED
    BY <1>5, <2>1, <2>2, <2>3
<1>11. SumOf(Asked(o, l.sku), 1..n) <= stock[l.sku].available
  <2> DEFINE sum == SumOf(Asked(o, l.sku), 1..n)
             before == SumOf(Asked(o, l.sku), 1..(n - 1))
  <2>1. before \in Int /\ sum = before + l.qty
    <3>1. Asked(o, l.sku)[n] = l.qty
      BY <1>4 DEF Asked
    <3> QED
      BY <3>1, AskedSum
  <2>2. local[i][l.sku].reserved = stock[l.sku].reserved + before
    BY <1>1, <1>2, <1>3, <1>7 DEF DrawingOf, Drawn
  <2>3. Balanced(local[i][l.sku], l.sku) /\ Balanced(stock[l.sku], l.sku)
    BY <1>7 DEF IndInv, Safe, Conserved
  <2>4. /\ local[i][l.sku].available + local[i][l.sku].reserved
                = stock[l.sku].available + stock[l.sku].reserved
        /\ local[i][l.sku].available \in Nat /\ local[i][l.sku].reserved \in Nat
        /\ stock[l.sku].available \in Nat /\ stock[l.sku].reserved \in Nat
    BY <1>7, <2>3 DEF Balanced, StockRow
  <2> HIDE DEF sum, before
  <2>5. sum <= stock[l.sku].available
    BY <1>5, <2>1, <2>2, <2>4
  <2> QED
    BY <2>5 DEF sum
<1>12. ASSUME NEW k \in DOMAIN Items[o]
       PROVE  /\ Items[o][k].qty <= stock[Items[o][k].sku].available
              /\ k < n + 1 =>
                   SumOf(Asked(o, Items[o][k].sku), 1..k) <= stock[Items[o][k].sku].available
  <2>1. k \in Nat /\ n \in Nat
    BY LinesOf
  <2>2. k < n + 1 => k < n \/ k = n
    BY <2>1
  <2>3. /\ Items[o][k].qty <= stock[Items[o][k].sku].available
        /\ k < n =>
             SumOf(Asked(o, Items[o][k].sku), 1..k) <= stock[Items[o][k].sku].available
    BY <1>1, <1>2, <1>3, <1>9 DEF CoveringOf
  <2> QED
    BY <1>4, <1>11, <2>2, <2>3
<1>13. CoveringOf(i)'
  BY <1>1, <1>6, <1>9, <1>10, <1>12 DEF CoveringOf, tables
<1>14. RefusalOf(i)'
  BY <1>1, <1>2, <1>6, <1>9, <1>13 DEF RefusalOf, tables
<1> QED
  BY <1>1, <1>6, <1>8, <1>14, RefusalsKept DEF tables, env

\* Both ways to refuse: the order cannot be covered as things stand.
LEMMA RefusedRefusals ==
  ASSUME IndInv, Ledger, Refusals, NEW i \in Instances, StockRefused(i) \/ LineRefused(i)
  PROVE  Refusals'
<1>1. /\ TypeOK /\ handler[i].pc \in {"lock", "reserve"} /\ Goto(i, "refuse") /\ Released(i)
      /\ UNCHANGED <<tables, env, group, faults>>
  BY DEF IndInv, StockRefused, LineRefused
<1>2. Subject(i) \notin processed
  BY <1>1 DEF Refusals, RefusalOf
<1>3. PICK o \in Orders : o = Subject(i) /\ Lines(i) = Items[o]
  BY <1>1, SubjectType DEF Lines
<1>4. ASSUME StockRefused(i) PROVE Uncoverable(o)
  <2>1. PICK k \in DOMAIN Items[o] : ~LineIsCovered(i, Items[o][k])
    BY <1>3, <1>4 DEF StockRefused, AllCovered
  <2>2. PICK l \in [sku : SKUs, qty : Int] : l = Items[o][k]
    BY LinesOf
  <2>3. CASE l.sku \notin Stocked
    BY <2>2, <2>3 DEF Uncoverable
  <2>4. CASE l.sku \in Stocked
    <3>1. l.sku \in held[i] /\ local[i][l.sku] = stock[l.sku] /\ stock[l.sku] \in StockRow
      BY <1>1, <1>3, <1>4, <2>2, <2>4
         DEF StockRefused, Wanted, IndInv, Safe, CopiesCurrent, TypeOK
    <3>2. ~(stock[l.sku].available >= l.qty)
      BY <2>1, <2>2, <2>4, <3>1 DEF LineIsCovered
    <3>3. stock[l.sku].available < l.qty
      BY <3>1, <3>2 DEF StockRow
    <3> QED
      BY <2>2, <3>3 DEF Uncoverable
  <2> QED
    BY <2>3, <2>4
<1>5. ASSUME LineRefused(i) PROVE Uncoverable(o)
  <2>1. PICK n \in DOMAIN Items[o] : n = handler[i].line
    BY <1>3, <1>5 DEF LineRefused
  <2>2. PICK l \in [sku : SKUs, qty : Int] : l = Items[o][n]
    BY LinesOf
  <2>3. /\ local[i][l.sku].available < l.qty /\ DrawingOf(i) /\ handler[i].pc = "reserve"
    BY <1>3, <1>5, <2>1, <2>2 DEF LineRefused, Line, Lines, Ledger
  <2>4. l.sku \in held[i] /\ l.sku \in Stocked
    BY <1>1, <1>3, <2>2, <2>3 DEF DrawingOf, TypeOK
  <2> DEFINE sum == SumOf(Asked(o, l.sku), 1..n)
             before == SumOf(Asked(o, l.sku), 1..(n - 1))
  <2>5. before \in Int /\ sum = before + l.qty
    <3>1. Asked(o, l.sku)[n] = l.qty
      BY <2>2 DEF Asked
    <3> QED
      BY <3>1, AskedSum
  <2>6. local[i][l.sku].reserved = stock[l.sku].reserved + before
    BY <1>3, <2>1, <2>3, <2>4 DEF DrawingOf, Drawn
  <2>7. Balanced(local[i][l.sku], l.sku) /\ Balanced(stock[l.sku], l.sku)
    BY <2>4 DEF IndInv, Safe, Conserved
  <2>8. local[i][l.sku] \in StockRow /\ stock[l.sku] \in StockRow
    BY <1>1, <2>4 DEF TypeOK
  <2>9. /\ local[i][l.sku].available + local[i][l.sku].reserved
                = stock[l.sku].available + stock[l.sku].reserved
        /\ local[i][l.sku].available \in Nat /\ local[i][l.sku].reserved \in Nat
        /\ stock[l.sku].available \in Nat /\ stock[l.sku].reserved \in Nat
    BY <2>7, <2>8 DEF Balanced, StockRow
  <2>10. stock[l.sku].available < sum
    <3> HIDE DEF sum, before
    <3> QED
      BY <2>3, <2>5, <2>6, <2>9
  <2> QED
    BY <2>2, <2>10 DEF Uncoverable
<1>6. /\ handler'[i].pc = "refuse" /\ handler'[i].offset = handler[i].offset
      /\ \A j \in Instances : j # i => handler'[j] = handler[j]
  BY <1>1 DEF Goto, TypeOK
<1>7. Subject(i)' = o /\ Uncoverable(o)'
  BY <1>1, <1>3, <1>4, <1>5, <1>6 DEF Subject, env, Uncoverable, tables
<1>8. RefusalOf(i)'
  BY <1>1, <1>2, <1>3, <1>6, <1>7 DEF RefusalOf, tables
<1> QED
  BY <1>1, <1>6, <1>8, ReleasedFrame, RefusalsKept DEF tables, env

\* The answer goes out for an order that cannot be covered.
LEMMA RecordFailureRefusals ==
  ASSUME IndInv, Ledger, Refusals, NEW i \in Instances, RecordFailure(i)
  PROVE  Refusals'
<1>1. /\ TypeOK /\ handler[i].pc = "refuse" /\ Answer(Subject(i), "stock.failed")
      /\ Goto(i, "commit") /\ UNCHANGED <<stock, processed, env, group, tx, faults>>
  BY DEF IndInv, RecordFailure
<1>2. PICK o \in Orders : o = Subject(i)
  BY <1>1, SubjectType
<1>3. Uncoverable(o) /\ o \notin processed
  BY <1>1, <1>2 DEF Refusals, RefusalOf
<1>4. \A q \in Orders :
        q # o => Answers(q, "stock.failed")' = Answers(q, "stock.failed")
  BY <1>1, <1>2, AnswerAppended
<1>5. \A q \in Orders : Answers(q, "stock.failed")' # {} => Uncoverable(q)' /\ q \notin processed'
  BY <1>1, <1>3, <1>4 DEF Refusals, Uncoverable
<1>6. handler'[i].pc = "commit" /\ OthersKeep(i)
  BY <1>1, GotoFrame DEF env, HandlerPCs
<1>7. /\ stock \in [Stocked -> StockRow] /\ \A s \in Stocked : stock[s].available <= stock[s].available
      /\ \A j \in Instances : held[j] \subseteq Stocked
  BY <1>1 DEF TypeOK, StockRow
<1>8. ASSUME NEW j \in Instances, j # i PROVE RefusalOf(j)'
  BY <1>1, <1>6, <1>7, <1>8, RefusalKept DEF Refusals, Ledger, OthersKeep, env, tx
<1>9. RefusalOf(i)'
  BY <1>6 DEF RefusalOf
<1> QED
  BY <1>5, <1>8, <1>9 DEF Refusals

\* What commits could be covered, so it was not refused; and it is the
\* business of no other handler.
LEMMA CommittedRefusals ==
  ASSUME IndInv, Ledger, Refusals, NoTwins, NEW i \in Instances,
         AllReserved(i), Subject(i) \notin processed,
         Write(i), Released(i), OthersKeep(i), UNCHANGED log,
         handler'[i].pc \in {"commit", "idle"}, stock' \in [Stocked -> StockRow]
  PROVE  Refusals'
<1>1. /\ TypeOK /\ handler[i].pc = "reserve" /\ DrawingOf(i) /\ CoveringOf(i)
  BY DEF IndInv, AllReserved, Ledger, Refusals, RefusalOf
<1>2. PICK o \in Orders : o = Subject(i) /\ Lines(i) = Items[o]
  BY <1>1, SubjectType DEF Lines
<1>3. /\ stock' = [s \in Stocked |-> IF s \in held[i] THEN local[i][s] ELSE stock[s]]
      /\ Answer(o, "stock.reserved") /\ processed' = processed \cup {o}
  BY <1>2 DEF Write
<1>4. ~Uncoverable(o)
  <2> SUFFICES ASSUME NEW k \in DOMAIN Items[o]
               PROVE  /\ Items[o][k].sku \in Stocked
                      /\ ~(stock[Items[o][k].sku].available < Items[o][k].qty)
                      /\ ~(stock[Items[o][k].sku].available
                              < SumOf(Asked(o, Items[o][k].sku), 1..k))
    BY DEF Uncoverable
  <2>1. PICK l \in [sku : SKUs, qty : Int] : l = Items[o][k]
    BY LinesOf
  <2>2. l.sku \in Stocked
    BY <1>1, <1>2, <2>1 DEF DrawingOf, TypeOK
  <2>3. k < handler[i].line
    <3>1. k \in 1..Len(Items[o]) /\ Len(Items[o]) \in Nat
      BY LinesOf
    <3>2. handler[i].line > Len(Items[o]) /\ handler[i].line \in 1..(Len(Items[o]) + 1)
      BY <1>1, <1>2 DEF AllReserved, DrawingOf
    <3> QED
      BY <3>1, <3>2
  <2>4. /\ l.qty <= stock[l.sku].available
        /\ SumOf(Asked(o, l.sku), 1..k) <= stock[l.sku].available
    BY <1>1, <1>2, <2>1, <2>3 DEF CoveringOf
  <2>5. stock[l.sku].available \in Nat /\ SumOf(Asked(o, l.sku), 1..k) \in Int /\ l.qty \in Int
    BY <1>1, <2>2, AskedSum DEF TypeOK, StockRow
  <2>6. ~(stock[l.sku].available < l.qty)
    BY <2>4, <2>5
  <2>7. ~(stock[l.sku].available < SumOf(Asked(o, l.sku), 1..k))
    BY <2>4, <2>5
  <2> QED
    BY <2>1, <2>2, <2>6, <2>7
<1>5. \A s \in Stocked : stock'[s].available <= stock[s].available
  <2>1. \A s \in Stocked : stock[s].available <= stock[s].available
    BY <1>1 DEF TypeOK, StockRow
  <2> QED
    BY <1>1, <1>3, <2>1 DEF CoveringOf
<1>6. Answers(o, "stock.failed") = {}
  BY <1>4 DEF Refusals
<1>7. \A q \in Orders : Answers(q, "stock.failed")' = Answers(q, "stock.failed")
  BY <1>1, <1>3, AnswerAppended
<1>8. ASSUME NEW q \in Orders, Answers(q, "stock.failed")' # {}
      PROVE  Uncoverable(q)' /\ q \notin processed'
  <2>1. q # o /\ Uncoverable(q) /\ q \notin processed
    BY <1>6, <1>7, <1>8 DEF Refusals
  <2>2. Uncoverable(q)'
    BY <1>1, <1>5, <2>1, UncoverableStays DEF TypeOK
  <2> QED
    BY <1>3, <2>1, <2>2
<1>9. /\ held'[i] = {}
      /\ \A j \in Instances : j # i => held'[j] = held[j] /\ local'[j] = local[j]
  BY <1>1, ReleasedFrame
<1>10. ASSUME NEW j \in Instances, j # i PROVE RefusalOf(j)'
  <2>1. \A s \in held[j] : s \notin held[i] /\ s \in Stocked
    BY <1>1, <1>10 DEF IndInv, Safe, LocksExclusive, TypeOK
  <2>2. \A s \in held[j] : stock'[s] = stock[s]
    BY <1>3, <2>1
  <2>3. Subject(j) # o \/ handler[j].pc = "idle"
    BY <1>1, <1>2, <1>10 DEF NoTwins, Working
  <2>4. handler'[j] = handler[j] /\ held'[j] = held[j] /\ local'[j] = local[j]
    BY <1>9, <1>10 DEF OthersKeep
  <2>5. RefusalOf(j) /\ DrawingOf(j)
    BY DEF Refusals, Ledger
  <2> QED
    BY <1>1, <1>3, <1>5, <2>2, <2>3, <2>4, <2>5, RefusalKept
<1>11. RefusalOf(i)'
  BY DEF RefusalOf
<1> QED
  BY <1>8, <1>10, <1>11 DEF Refusals

LEMMA RefusalsNext ==
  IndInv /\ Ledger /\ Refusals /\ NoTwins /\ [ServiceNext]_vars => Refusals'
<1> SUFFICES ASSUME IndInv, Ledger, Refusals, NoTwins, [ServiceNext]_vars PROVE Refusals'
  OBVIOUS
<1>1. TypeOK /\ log \in Seq(Orders) /\ TypeOK'
  BY NextInv DEF IndInv, OpenNext, TypeOK
<1>2. CASE UNCHANGED vars
  BY <1>1, <1>2, RefusalsKept DEF vars
<1>3. ASSUME NEW o \in Orders, Announce(o) PROVE Refusals'
  <2>1. \A k \in DOMAIN log : log'[k] = log[k]
    BY <1>1, <1>3 DEF Announce
  <2> QED
    BY <1>1, <1>3, <2>1, RefusalsKept DEF Announce, tables, tx
<1>4. ASSUME NEW i \in Instances,
             \/ StockChecked(i) \/ ReserveLine(i) \/ StockRefused(i) \/ LineRefused(i)
             \/ RecordFailure(i)
      PROVE  Refusals'
  BY <1>4, StockCheckedRefusals, ReserveLineRefusals, RefusedRefusals, RecordFailureRefusals
<1>5. ASSUME NEW i \in Instances, CommitReservation(i) \/ CommitReplyLost(i) PROVE Refusals'
  <2>1. /\ AllReserved(i) /\ Subject(i) \notin processed /\ Write(i) /\ Released(i)
        /\ UNCHANGED env
        /\ Stop(i) \/ (handler[i].pc # "idle" /\ Goto(i, "commit"))
    BY <1>5 DEF CommitReservation, CommitReplyLost, AllReserved
  <2>2. UNCHANGED <<log, restocks>>
    BY <2>1 DEF env
  <2>3. OthersKeep(i) /\ handler'[i].pc \in {"commit", "idle"}
    <3>1. CASE Stop(i)
      BY <1>1, <2>2, <3>1, StopFrame
    <3>2. CASE handler[i].pc # "idle" /\ Goto(i, "commit")
      BY <1>1, <2>2, <3>2, GotoFrame DEF HandlerPCs
    <3> QED
      BY <2>1, <3>1, <3>2
  <2> QED
    BY <1>1, <2>1, <2>2, <2>3, CommittedRefusals DEF TypeOK
<1>6. ASSUME NEW i \in Instances, NEW s \in Stocked, LockRow(i, s) PROVE Refusals'
  <2>1. \A j \in Instances : j # i => held'[j] = held[j] /\ local'[j] = local[j]
    BY <1>1, <1>6 DEF LockRow, TypeOK
  <2>2. handler[i].pc = "lock" /\ UNCHANGED <<stock, processed, outbox, log, handler>>
    BY <1>6 DEF LockRow, tables, env
  <2>3. RefusalOf(i)'
    BY <2>2 DEF Refusals, RefusalOf, Subject
  <2> QED
    BY <1>1, <2>1, <2>2, <2>3, RefusalsKept
<1>7. ASSUME NEW i \in Instances, NotProcessed(i) PROVE Refusals'
  <2>1. /\ handler[i].pc = "check" /\ Subject(i) \notin processed /\ Goto(i, "lock")
        /\ UNCHANGED <<stock, processed, outbox, log, tx>>
    BY <1>7 DEF NotProcessed, tables, env
  <2>2. /\ handler'[i].pc = "lock" /\ handler'[i].offset = handler[i].offset
        /\ \A j \in Instances : j # i => handler'[j] = handler[j]
    BY <1>1, <2>1 DEF Goto, TypeOK
  <2>3. RefusalOf(i)'
    BY <2>1, <2>2 DEF RefusalOf, Subject
  <2> QED
    BY <1>1, <2>1, <2>2, <2>3, RefusalsKept DEF tx
<1>8. ASSUME NEW i \in Instances,
             \/ FetchMessage(i) \/ AlreadyProcessed(i)
             \/ CommitMessages(i) \/ CommitError(i) \/ Rebalance(i)
      PROVE  Refusals'
  <2>1. UNCHANGED <<stock, processed, outbox, log, tx>>
    BY <1>8 DEF FetchMessage, AlreadyProcessed, CommitMessages, CommitError, Rebalance,
       tables, env
  <2>2. \A j \in Instances :
          handler'[j].pc \in {"idle", "check", "commit"} \/ handler'[j] = handler[j]
    <3>1. CASE FetchMessage(i)
      BY <1>1, <3>1 DEF FetchMessage, TypeOK
    <3>2. CASE AlreadyProcessed(i)
      BY <1>1, <3>2 DEF AlreadyProcessed, Goto, TypeOK
    <3>3. CASE Stop(i)
      BY <1>1, <3>3 DEF Stop, Idle, TypeOK
    <3>4. CASE UNCHANGED handler
      BY <3>4
    <3> QED
      BY <1>8, <3>1, <3>2, <3>3, <3>4 DEF CommitMessages, CommitError, Rebalance
  <2>3. \A j \in Instances : RefusalOf(j)' \/ handler'[j] = handler[j]
    BY <2>2 DEF RefusalOf
  <2> QED
    BY <1>1, <2>1, <2>3, RefusalsKept DEF tx
<1>9. ASSUME NEW i \in Instances,
             \/ LineInvalid(i) \/ UniqueViolation(i)
             \/ DeadlockVictim(i) \/ HandlerError(i) \/ Restart(i)
      PROVE  Refusals'
  <2>1. UNCHANGED <<stock, processed, outbox, log>> /\ Released(i) /\ Stop(i)
    BY <1>9 DEF LineInvalid, UniqueViolation, DeadlockVictim, HandlerError, Restart,
       tables, env
  <2>2. OthersKeep(i) /\ handler'[i].pc = "idle"
    BY <1>1, <2>1, StopFrame
  <2>3. \A j \in Instances : j # i => held'[j] = held[j] /\ local'[j] = local[j]
    BY <1>1, <2>1, ReleasedFrame
  <2>4. RefusalOf(i)'
    BY <2>2 DEF RefusalOf
  <2> QED
    BY <1>1, <2>1, <2>2, <2>3, <2>4, RefusalsKept DEF OthersKeep
<1> QED
  BY <1>2, <1>3, <1>4, <1>5, <1>6, <1>7, <1>8, <1>9
     DEF ServiceNext, ConsumerStep, ReserveStep, ConsumerFault

\* A restock, or two handlers on one order after a rebalance, is all that can
\* make an order refused and reserved: over any errors, restarts, duplicates
\* and competition for the rows a refused order stays uncoverable, line by
\* line (stock_repo.go:32-109, inventory_usecase.go:19-42).
THEOREM RefusalIsFinal ==
  Spec /\ [][NoRestock]_vars /\ []NoTwins => []NeverBothAnswers
<1>1. [OpenNext]_vars /\ [NoRestock]_vars => [ServiceNext]_vars
  BY DEF OpenNext, NoRestock
<1>2. IndInv /\ Refusals => NeverBothAnswers
  BY DEF IndInv, TypeOK, Refusals, NeverBothAnswers
<1> QED
  BY <1>1, <1>2, LedgerInit, LedgerNext, RefusalsInit, RefusalsNext, InvInit, NextInv,
     BoundedIsOpen, PTL DEF Spec

-----------------------------------------------------------------------------
(* Offsets and answers while no handler gives up *)

\* The errors that end a handler with its message unanswered.
GivesUp(i) == HandlerError(i) \/ DeadlockVictim(i) \/ LineInvalid(i)
NoneGivesUp == \A i \in Instances : ~GivesUp(i)

\* The messages whose order has an answer.
Settled == {k \in DOMAIN log : Answered(log[k])}

WorkingOn(i, k) == Working(i) /\ handler[i].offset = k

ProgressOf(i) ==
    Working(i) => /\ \A k \in DOMAIN log : k < handler[i].offset => k \in Settled
                  /\ handler[i].pc = "commit" => handler[i].offset \in Settled

\* The owner of the partition is at work on the only message behind its
\* position that may lack an answer; a zombie is behind that.
PositionSettled ==
    \A k \in DOMAIN log : k <= group.position => k \in Settled \/ WorkingOn(group.owner, k)

CommittedSettled == \A k \in DOMAIN log : k <= group.committed => k \in Settled

Progress ==
    /\ group.position <= Len(log) /\ group.committed <= Len(log)
    /\ CommittedSettled /\ PositionSettled
    /\ \A i \in Instances : ProgressOf(i)

LEMMA ProgressInit == Init => Progress
<1> SUFFICES ASSUME Init PROVE Progress
  OBVIOUS
<1>1. log = <<>> /\ DOMAIN log = {} /\ Len(log) = 0
  BY DEF Init
<1>2. group.position = 0 /\ group.committed = 0
  BY DEF Init, NewGroup
<1>3. \A i \in Instances : ~Working(i)
  BY DEF Init, Idle, Working
<1> QED
  BY <1>1, <1>2, <1>3 DEF Progress, CommittedSettled, PositionSettled, ProgressOf

LEMMA AnswerSteps ==
  ASSUME [OpenNext]_vars
  PROVE  \/ UNCHANGED <<processed, outbox>>
         \/ \E i \in Instances :
               \/ RecordFailure(i)
               \/ (CommitReservation(i) \/ CommitReplyLost(i)) /\ Write(i)
<1>1. ASSUME NEW i \in Instances, ReserveStep(i)
      PROVE  \/ UNCHANGED <<processed, outbox>> \/ RecordFailure(i)
             \/ CommitReservation(i) /\ Write(i)
  BY <1>1 DEF ReserveStep, AlreadyProcessed, NotProcessed, LockRow, StockChecked, StockRefused,
     ReserveLine, LineRefused, LineInvalid, CommitReservation, UniqueViolation,
     DeadlockVictim, tables
<1>2. ASSUME NEW i \in Instances, FetchMessage(i) \/ CommitMessages(i)
      PROVE  UNCHANGED <<processed, outbox>>
  BY <1>2 DEF FetchMessage, CommitMessages, tables
<1>3. ASSUME NEW i \in Instances, ConsumerFault(i)
      PROVE  UNCHANGED <<processed, outbox>> \/ (CommitReplyLost(i) /\ Write(i))
  BY <1>3 DEF ConsumerFault, HandlerError, CommitReplyLost, CommitError, Rebalance, Restart, tables
<1>4. ASSUME NEW o, Announce(o) PROVE UNCHANGED <<processed, outbox>>
  BY <1>4 DEF Announce, tables
<1>5. ASSUME NEW s, Restock(s) PROVE UNCHANGED <<processed, outbox>>
  BY <1>5 DEF Restock
<1>6. UNCHANGED vars => UNCHANGED <<processed, outbox>>
  BY DEF vars
<1> QED
  BY <1>1, <1>2, <1>3, <1>4, <1>5, <1>6 DEF OpenNext, ServiceNext, ConsumerStep

\* An answer is never taken back.
LEMMA AnsweredStays ==
  ASSUME TypeOK, [OpenNext]_vars
  PROVE  \A o \in Orders : Answered(o) => Answered(o)'
<1>1. CASE UNCHANGED <<processed, outbox>>
  BY <1>1 DEF Answered, Answers
<1>2. ASSUME NEW i \in Instances, Working(i), NEW t \in {"stock.reserved", "stock.failed"},
             Answer(Subject(i), t), processed \subseteq processed'
      PROVE  \A o \in Orders : Answered(o) => Answered(o)'
  <2>1. PICK q \in Orders : q = Subject(i)
    BY <1>2, SubjectType DEF Working
  <2>2. \A o \in Orders : Answers(o, "stock.failed") \subseteq Answers(o, "stock.failed")'
    BY <1>2, <2>1, AnswerAppended
  <2> QED
    BY <1>2, <2>2 DEF Answered
<1>3. ASSUME NEW i \in Instances, RecordFailure(i)
      PROVE  \A o \in Orders : Answered(o) => Answered(o)'
  BY <1>2, <1>3 DEF RecordFailure, Working
<1>4. ASSUME NEW i \in Instances, CommitReservation(i) \/ CommitReplyLost(i), Write(i)
      PROVE  \A o \in Orders : Answered(o) => Answered(o)'
  BY <1>2, <1>4 DEF CommitReservation, CommitReplyLost, AllReserved, Write, Working
<1> QED
  BY <1>1, <1>3, <1>4, AnswerSteps

LEMMA SettledStays ==
  ASSUME TypeOK, [OpenNext]_vars, log' \in Seq(Orders),
         \A k \in DOMAIN log : k \in DOMAIN log' /\ log'[k] = log[k]
  PROVE  Settled \subseteq Settled'
<1>1. ASSUME NEW k \in DOMAIN log, Answered(log[k]) PROVE k \in Settled'
  <2>1. PICK o \in Orders : o = log[k] /\ o = log'[k]
    BY ElementOfSeq DEF TypeOK
  <2>2. Answered(o)'
    BY <1>1, <2>1, AnsweredStays
  <2> QED
    BY <2>1, <2>2 DEF Settled, Answered, Answers
<1> QED
  BY <1>1 DEF Settled

\* A handler goes on with its message.
LEMMA ProgressGoes ==
  ASSUME TypeOK, TypeOK', Progress, Settled \subseteq Settled', UNCHANGED <<log, group>>,
         NEW i \in Instances, OthersKeep(i), Working(i), handler'[i].pc # "idle",
         handler'[i].offset = handler[i].offset,
         handler'[i].pc = "commit" => handler[i].offset \in Settled'
  PROVE  Progress'
<1>1. CommittedSettled'
  BY DEF Progress, CommittedSettled
<1>2. PositionSettled'
  <2>1. \A j \in Instances : \A k : WorkingOn(j, k) => WorkingOn(j, k)'
    BY DEF WorkingOn, Working, OthersKeep
  <2>2. group.owner \in Instances
    BY DEF TypeOK, IsGroup
  <2> QED
    BY <2>1, <2>2 DEF Progress, PositionSettled
<1>3. \A j \in Instances : ProgressOf(j)'
  BY DEF Progress, ProgressOf, Working, OthersKeep
<1> QED
  BY <1>1, <1>2, <1>3 DEF Progress

\* A handler is done with a message that has its answer.
LEMMA ProgressEnds ==
  ASSUME TypeOK, TypeOK', Progress, Settled \subseteq Settled', UNCHANGED log,
         NEW i \in Instances, OthersKeep(i), Working(i), handler'[i].pc = "idle",
         handler[i].offset \in Settled',
         group' = group \/ group' = CommitOffset(group, handler[i].offset)
  PROVE  Progress'
<1>1. /\ group \in [owner : Instances, position : Nat, committed : Nat]
      /\ handler[i].offset \in 1..Len(log) /\ Len(log) \in Nat /\ DOMAIN log = 1..Len(log)
  BY LenProperties DEF TypeOK, Working, IsGroup
<1>2. /\ group'.owner = group.owner /\ group'.position = group.position
      /\ group'.committed = group.committed \/ group'.committed = handler[i].offset
  BY <1>1 DEF CommitOffset
<1>3. CommittedSettled'
  <2>1. ASSUME NEW k \in DOMAIN log, k <= handler[i].offset PROVE k \in Settled'
    <3>1. k < handler[i].offset \/ k = handler[i].offset
      BY <1>1, <2>1
    <3> QED
      BY <3>1 DEF Progress, ProgressOf
  <2> QED
    BY <1>2, <2>1 DEF Progress, CommittedSettled
<1>4. PositionSettled'
  <2>1. \A j \in Instances : \A k :
          WorkingOn(j, k) => WorkingOn(j, k)' \/ (j = i /\ k = handler[i].offset)
    BY DEF WorkingOn, Working, OthersKeep
  <2> QED
    BY <1>1, <1>2, <2>1 DEF Progress, PositionSettled
<1>5. \A j \in Instances : ProgressOf(j)'
  BY DEF Progress, ProgressOf, Working, OthersKeep
<1>6. group'.committed <= Len(log)
  BY <1>1, <1>2 DEF Progress
<1> QED
  BY <1>2, <1>3, <1>4, <1>5, <1>6 DEF Progress

\* A new generation starts where the offset was committed.
LEMMA ProgressRestarts ==
  ASSUME TypeOK, TypeOK', Progress, Settled \subseteq Settled', UNCHANGED log,
         NEW j \in Instances, group' = Reassign(group, j),
         \A i \in Instances : handler'[i] = handler[i] \/ handler'[i].pc = "idle"
  PROVE  Progress'
<1>1. group \in [owner : Instances, position : Nat, committed : Nat]
  BY DEF TypeOK, IsGroup
<1>2. group'.position = group.committed /\ group'.committed = group.committed
  BY <1>1 DEF Reassign
<1>3. CommittedSettled' /\ PositionSettled'
  BY <1>2 DEF Progress, CommittedSettled, PositionSettled
<1>4. \A i \in Instances : ProgressOf(i)'
  BY DEF Progress, ProgressOf, Working
<1> QED
  BY <1>2, <1>3, <1>4 DEF Progress

\* The owner, idle, has answered all it was given, and takes the next.
LEMMA ProgressFetches ==
  ASSUME TypeOK, TypeOK', Progress, Settled \subseteq Settled',
         NEW i \in Instances, FetchMessage(i)
  PROVE  Progress'
<1>1. /\ group.owner = i /\ ~Working(i) /\ HasNext(group, log) /\ group' = Deliver(group)
      /\ handler' = [handler EXCEPT ![i] =
                         [pc |-> "check", offset |-> group.position + 1, line |-> 0]]
      /\ UNCHANGED log
  BY DEF FetchMessage, Working, env
<1>2. /\ group \in [owner : Instances, position : Nat, committed : Nat]
      /\ Len(log) \in Nat /\ DOMAIN log = 1..Len(log)
  BY LenProperties DEF TypeOK, IsGroup
<1>3. PICK n \in Nat : n = group.position /\ n < Len(log)
  BY <1>1, <1>2 DEF HasNext
<1>4. group'.position = n + 1 /\ group'.committed = group.committed /\ group'.owner = i
  BY <1>1, <1>2, <1>3 DEF Deliver
<1>5. /\ handler'[i].pc = "check" /\ handler'[i].offset = n + 1
      /\ \A j \in Instances : j # i => handler'[j] = handler[j]
  BY <1>1, <1>3 DEF TypeOK
<1>6. ASSUME NEW k \in DOMAIN log, k <= n PROVE k \in Settled'
  BY <1>1, <1>3, <1>6 DEF Progress, PositionSettled, WorkingOn
<1>7. \A k \in DOMAIN log : (k < n + 1 <=> k <= n) /\ (k <= n + 1 <=> k <= n \/ k = n + 1)
  BY <1>2, <1>3
<1>8. PositionSettled'
  BY <1>1, <1>4, <1>5, <1>6, <1>7 DEF PositionSettled, WorkingOn, Working
<1>9. CommittedSettled'
  BY <1>1, <1>4 DEF Progress, CommittedSettled
<1>10. \A j \in Instances : ProgressOf(j)'
  BY <1>1, <1>5, <1>6, <1>7 DEF Progress, ProgressOf, Working
<1>11. group'.position <= Len(log') /\ group'.committed <= Len(log')
  BY <1>1, <1>2, <1>3, <1>4 DEF Progress
<1> QED
  BY <1>8, <1>9, <1>10, <1>11 DEF Progress

LEMMA ProgressNext ==
  IndInv /\ Progress /\ [OpenNext]_vars /\ [NoneGivesUp]_vars => Progress'
<1> SUFFICES ASSUME IndInv, Progress, [OpenNext]_vars, [NoneGivesUp]_vars PROVE Progress'
  OBVIOUS
<1>1. /\ TypeOK /\ log \in Seq(Orders) /\ TypeOK'
      /\ Len(log) \in Nat /\ DOMAIN log = 1..Len(log)
  BY NextInv, LenProperties DEF IndInv, TypeOK
<1>2. UNCHANGED log => Settled \subseteq Settled'
  BY <1>1, SettledStays
<1>3. CASE UNCHANGED vars
  BY <1>3 DEF vars, Progress, CommittedSettled, PositionSettled, ProgressOf, WorkingOn,
     Working, Settled, Answered, Answers
<1>4. ASSUME NEW o \in Orders, Announce(o) PROVE Progress'
  <2>1. /\ log' = Append(log, o) /\ UNCHANGED <<group, handler>>
    BY <1>4 DEF Announce
  <2>2. /\ log' \in Seq(Orders) /\ Len(log') = Len(log) + 1 /\ DOMAIN log' = 1..(Len(log) + 1)
        /\ \A k \in DOMAIN log : log'[k] = log[k]
    BY <1>1, <2>1
  <2>3. Settled \subseteq Settled' /\ \A k \in DOMAIN log' : k \in DOMAIN log \/ k = Len(log) + 1
    BY <1>1, <2>2, SettledStays
  <2>4. group.position \in Nat /\ group.committed \in Nat
    BY <1>1 DEF TypeOK, IsGroup
  <2>5. CommittedSettled' /\ PositionSettled'
    <3>1. ASSUME NEW k \in DOMAIN log', k <= group.committed \/ k <= group.position
          PROVE  k \in DOMAIN log
      BY <1>1, <2>2, <2>4, <3>1 DEF Progress
    <3>2. \A j \in Instances : \A k : WorkingOn(j, k)' <=> WorkingOn(j, k)
      BY <2>1 DEF WorkingOn, Working
    <3>3. group.owner \in Instances
      BY <1>1 DEF TypeOK, IsGroup
    <3> QED
      BY <2>1, <2>3, <3>1, <3>2, <3>3 DEF Progress, CommittedSettled, PositionSettled
  <2>6. ASSUME NEW j \in Instances PROVE ProgressOf(j)'
    <3>1. Working(j) => handler[j].offset \in DOMAIN log
      BY <1>1 DEF TypeOK, Working
    <3>2. ASSUME Working(j), NEW k \in DOMAIN log', k < handler[j].offset PROVE k \in DOMAIN log
      BY <1>1, <2>2, <3>1, <3>2
    <3> QED
      BY <2>1, <2>3, <3>2 DEF Progress, ProgressOf, Working
  <2> QED
    BY <1>1, <2>1, <2>2, <2>4, <2>5, <2>6 DEF Progress
<1>5. ASSUME UNCHANGED <<handler, group, log>> PROVE Progress'
  <2>1. Settled \subseteq Settled' /\ group.owner \in Instances
    BY <1>1, <1>2, <1>5 DEF TypeOK, IsGroup
  <2>2. \A j \in Instances : \A k : WorkingOn(j, k)' <=> WorkingOn(j, k)
    BY <1>5 DEF WorkingOn, Working
  <2>3. CommittedSettled' /\ PositionSettled'
    BY <1>5, <2>1, <2>2 DEF Progress, CommittedSettled, PositionSettled
  <2>4. \A j \in Instances : ProgressOf(j)'
    BY <1>5, <2>1 DEF Progress, ProgressOf, Working
  <2> QED
    BY <1>5, <2>3, <2>4 DEF Progress
<1>6. ASSUME NEW i \in Instances, FetchMessage(i) PROVE Progress'
  BY <1>1, <1>2, <1>6, ProgressFetches DEF FetchMessage, env
\* Its order is, or has just been, answered.
<1>7. ASSUME NEW i \in Instances,
             AlreadyProcessed(i) \/ RecordFailure(i) \/ CommitReservation(i)
      PROVE  Progress'
  <2>1. Working(i) /\ UNCHANGED <<log, group>> /\ Goto(i, "commit")
    BY <1>7 DEF AlreadyProcessed, RecordFailure, CommitReservation, AllReserved, Working, env
  <2>2. /\ OthersKeep(i) /\ handler'[i].pc = "commit" /\ handler'[i].offset = handler[i].offset
    BY <1>1, <2>1 DEF Goto, TypeOK, OthersKeep
  <2>3. Answered(Subject(i))'
    <3>1. PICK o \in Orders : o = Subject(i) /\ o = Subject(i)'
      BY <1>1, <2>1, <2>2, SubjectType DEF Working, Subject
    <3>2. CASE AlreadyProcessed(i)
      BY <3>1, <3>2 DEF AlreadyProcessed, Answered, tables
    <3>3. CASE RecordFailure(i)
      BY <1>1, <3>1, <3>3, AnswerAppended DEF RecordFailure, Answered
    <3>4. CASE CommitReservation(i)
      BY <3>1, <3>4 DEF CommitReservation, Write, Answered
    <3> QED
      BY <1>7, <3>2, <3>3, <3>4
  <2>4. handler[i].offset \in Settled'
    BY <1>1, <2>1, <2>2, <2>3 DEF Settled, Subject, TypeOK, Working
  <2> QED
    BY <1>1, <1>2, <2>1, <2>2, <2>4, ProgressGoes
<1>8. ASSUME NEW i \in Instances,
             \/ NotProcessed(i) \/ StockChecked(i) \/ StockRefused(i)
             \/ ReserveLine(i) \/ LineRefused(i)
      PROVE  Progress'
  <2>1. Working(i) /\ UNCHANGED <<log, group>>
    BY <1>8 DEF NotProcessed, StockChecked, StockRefused, ReserveLine, LineRefused, Working, env
  <2>2. /\ OthersKeep(i) /\ handler'[i].pc \in {"lock", "reserve", "refuse"}
        /\ handler'[i].offset = handler[i].offset
    <3>1. handler[i] \in [pc : HandlerPCs, offset : Nat, line : Nat] /\ handler \in Handlers
      BY <1>1 DEF TypeOK, Handlers
    <3>2. ASSUME NEW pc \in {"lock", "refuse"}, Goto(i, pc)
          PROVE  /\ OthersKeep(i) /\ handler'[i].pc = pc
                 /\ handler'[i].offset = handler[i].offset
      BY <3>1, <3>2 DEF Goto, Handlers, OthersKeep
    <3>3. CASE StockChecked(i)
      BY <3>1, <3>3 DEF StockChecked, Handlers, OthersKeep
    <3>4. CASE ReserveLine(i)
      <4>1. handler[i].pc = "reserve" /\ handler' = [handler EXCEPT ![i].line = @ + 1]
        BY <3>4 DEF ReserveLine
      <4> QED
        BY <3>1, <4>1 DEF Handlers, OthersKeep
    <3> QED
      BY <1>8, <3>2, <3>3, <3>4 DEF NotProcessed, StockRefused, LineRefused
  <2> QED
    BY <1>1, <1>2, <2>1, <2>2, ProgressGoes
<1>9. ASSUME NEW i \in Instances,
             \/ UniqueViolation(i) \/ CommitReplyLost(i) \/ CommitMessages(i) \/ CommitError(i)
      PROVE  Progress'
  <2>1. /\ Working(i) /\ UNCHANGED log /\ Stop(i)
        /\ group' = group \/ group' = CommitOffset(group, handler[i].offset)
    BY <1>9 DEF UniqueViolation, CommitReplyLost, CommitMessages, CommitError, AllReserved,
       Working, env
  <2>2. OthersKeep(i) /\ handler'[i].pc = "idle"
    BY <1>1, <2>1, StopFrame
  <2>3. handler[i].offset \in Settled'
    <3>1. handler[i].pc = "commit" => handler[i].offset \in Settled
      BY <2>1 DEF Progress, ProgressOf
    <3>2. ASSUME Subject(i) \in processed' PROVE handler[i].offset \in Settled'
      BY <1>1, <2>1, <3>2 DEF Settled, Answered, Subject, TypeOK, Working
    <3>3. CASE UniqueViolation(i)
      BY <3>2, <3>3 DEF UniqueViolation, tables
    <3>4. CASE CommitReplyLost(i)
      BY <3>2, <3>4 DEF CommitReplyLost, Write
    <3> QED
      BY <1>2, <1>9, <2>1, <3>1, <3>3, <3>4 DEF CommitMessages, CommitError
  <2> QED
    BY <1>1, <1>2, <2>1, <2>2, <2>3, ProgressEnds
<1>10. ASSUME NEW i \in Instances, Rebalance(i) PROVE Progress'
  BY <1>1, <1>2, <1>10, ProgressRestarts DEF Rebalance, env
<1>11. ASSUME NEW i \in Instances, Restart(i) PROVE Progress'
  <2>1. UNCHANGED log /\ Stop(i)
    BY <1>11 DEF Restart, env
  <2>2. OthersKeep(i) /\ handler'[i].pc = "idle"
    BY <1>1, <2>1, StopFrame
  <2>3. CASE group.owner = i
    BY <1>1, <1>2, <1>11, <2>1, <2>2, <2>3, ProgressRestarts DEF Restart, OthersKeep
  <2>4. CASE group.owner # i
    <3>1. group' = group /\ group.owner \in Instances
      BY <1>1, <1>11, <2>4 DEF Restart, TypeOK, IsGroup
    <3>2. Settled \subseteq Settled'
      BY <1>2, <2>1
    <3>3. \A k : WorkingOn(group.owner, k)' <=> WorkingOn(group.owner, k)
      BY <2>2, <2>4, <3>1 DEF WorkingOn, Working, OthersKeep
    <3>4. CommittedSettled' /\ PositionSettled'
      BY <2>1, <3>1, <3>2, <3>3 DEF Progress, CommittedSettled, PositionSettled
    <3>5. \A j \in Instances : ProgressOf(j)'
      BY <2>1, <2>2, <3>2 DEF Progress, ProgressOf, Working, OthersKeep
    <3> QED
      BY <2>1, <3>1, <3>4, <3>5 DEF Progress
  <2> QED
    BY <2>3, <2>4
<1>12. ASSUME NEW i \in Instances, GivesUp(i), ~UNCHANGED vars PROVE Progress'
  BY <1>12 DEF NoneGivesUp
<1>13. ASSUME NEW s, Restock(s) PROVE UNCHANGED <<handler, group, log>>
  BY <1>13 DEF Restock
<1>14. ASSUME NEW i, NEW s, LockRow(i, s) PROVE UNCHANGED <<handler, group, log>>
  BY <1>14 DEF LockRow, env
<1> QED
  BY <1>3, <1>4, <1>5, <1>6, <1>7, <1>8, <1>9, <1>10, <1>11, <1>12, <1>13, <1>14
     DEF OpenNext, ServiceNext, ConsumerStep, ReserveStep, ConsumerFault, GivesUp

\* The committed offset passes a message without an answer only after a handler
\* gave up on an error: over rebalances, zombies that commit late and move the
\* offset back, failed commits and restarts, of any number of instances
\* (order_created_consumer.go:62-88).
THEOREM CommitsAreAnswered ==
  Spec /\ [][NoneGivesUp]_vars => []CommittedIsAnswered
<1>1. Progress => CommittedIsAnswered
  BY DEF Progress, CommittedSettled, CommittedIsAnswered, Settled
<1> QED
  BY <1>1, ProgressInit, ProgressNext, InvInit, NextInv, BoundedIsOpen, PTL DEF Spec

=============================================================================
