--------------------- MODULE NotificationServiceProofs ----------------------
(***************************************************************************)
(* Proofs about NotificationService, for any number of instances, orders,  *)
(* messages and faults.                                                    *)
(***************************************************************************)
EXTENDS NotificationService, TLAPS

Typed == TypeOK /\ group \in [Topics -> [owner : Instances, position : Nat, committed : Nat]]

\* The two kinds of faults that lose a transaction.
Lost == faults["error"] + faults["restart"]

\* Between its INSERT and the end of its transaction a handler has the key for
\* itself: it is not in the table, and nobody else has inserted it.
KeyHeld ==
    \A i \in Instances, t \in Topics : Inserted(i, t) =>
        /\ Key(i, t) \notin inbox
        /\ \A j \in Instances \ {i} : Inserted(j, t) => Subject(j, t) # Subject(i, t)

\* The transaction of a handler that notified order o of event t is open.
Pending(o, t) ==
    \E i \in Instances : handler[i][t].pc = "commitTx" /\ Subject(i, t) = o

\* Every notification but one was lost with its transaction; that one is
\* pending or marked.
NotifiedOnce ==
    \A o \in Orders, t \in Topics :
        /\ sent[o][t] <= 1 + Lost
        /\ <<o, t>> \in inbox \/ Pending(o, t) \/ sent[o][t] <= Lost

NotifiedFirst ==
    /\ \A i \in Instances, t \in Topics :
          handler[i][t].pc = "commitTx" => sent[Subject(i, t)][t] > 0
    /\ \A o \in Orders, t \in Topics : <<o, t>> \in inbox => sent[o][t] > 0

IndInv == Typed /\ KeyHeld /\ NotifiedOnce /\ NotifiedFirst

-----------------------------------------------------------------------------
\* What the invariant says of the properties that the runs check.
LEMMA Consequences == IndInv => TypeOK /\ RepeatedOnlyAfterRollback /\ MarkedIsNotified
<1> SUFFICES ASSUME IndInv PROVE TypeOK /\ RepeatedOnlyAfterRollback /\ MarkedIsNotified
  OBVIOUS
<1>1. TypeOK
  BY DEF IndInv, Typed
<1>2. RepeatedOnlyAfterRollback
  <2>1. faults["error"] \in Nat /\ faults["restart"] \in Nat
    BY <1>1 DEF TypeOK, FaultKinds
  <2>2. \A o \in Orders, t \in Topics : sent[o][t] \in Nat /\ sent[o][t] <= 1 + Lost
    BY <1>1 DEF IndInv, NotifiedOnce, TypeOK
  <2> QED
    BY <2>1, <2>2 DEF Lost, RepeatedOnlyAfterRollback
<1>3. ASSUME NEW key \in inbox PROVE sent[key[1]][key[2]] > 0
  <2>1. key \in Orders \X Topics
    BY <1>1 DEF TypeOK
  <2>2. PICK o \in Orders, t \in Topics : key = <<o, t>>
    BY <2>1
  <2> QED
    BY <2>2 DEF IndInv, NotifiedFirst
<1> QED
  BY <1>1, <1>2, <1>3 DEF MarkedIsNotified

\* Nothing was published, and nothing is handled.
LEMMA InvInit == Init => IndInv
<1> SUFFICES ASSUME Init PROVE IndInv
  OBVIOUS
<1>1. Typed
  BY DEF Init, Typed, TypeOK, Idle, HandlerPCs, IsGroup, NewGroup
<1>2. KeyHeld /\ NotifiedOnce /\ NotifiedFirst
  BY DEF Init, KeyHeld, NotifiedOnce, NotifiedFirst, Inserted, Idle, Lost, FaultKinds
<1> QED
  BY <1>1, <1>2 DEF IndInv

-----------------------------------------------------------------------------
Handlers == [Instances -> [Topics -> [pc : HandlerPCs, offset : Nat]]]

HandlerTyped ==
    /\ handler \in Handlers
    /\ \A i \in Instances, t \in Topics :
          handler[i][t].pc # "idle" => handler[i][t].offset \in DOMAIN log[t]

RestTyped ==
    /\ inbox \in SUBSET (Orders \X Topics)
    /\ sent \in [Orders -> [Topics -> Nat]]
    /\ log \in [Topics -> Seq(Orders)]
    /\ group \in [Topics -> [owner : Instances, position : Nat, committed : Nat]]
    /\ faults \in [FaultKinds -> Nat]

LEMMA TypedParts == Typed <=> HandlerTyped /\ RestTyped
BY DEF Typed, TypeOK, HandlerTyped, RestTyped, Handlers, IsGroup

LEMMA TypedNext == HandlerTyped' /\ RestTyped' => Typed'
BY DEF Typed, TypeOK, HandlerTyped, RestTyped, Handlers, IsGroup

\* What a handler works on is an order.
LEMMA SubjectType ==
  ASSUME Typed, NEW i \in Instances, NEW t \in Topics, handler[i][t].pc # "idle"
  PROVE  Subject(i, t) \in Orders
<1>1. log[t] \in Seq(Orders) /\ handler[i][t].offset \in DOMAIN log[t]
  BY DEF Typed, TypeOK
<1> QED
  BY <1>1 DEF Subject

\* Two steps of a goroutine, as the others see them.
Elsewhere(i, t) ==
    \A j \in Instances, u \in Topics : ~(j = i /\ u = t) =>
        handler'[j][u].pc = handler[j][u].pc /\ Subject(j, u)' = Subject(j, u)

LEMMA GotoFrame ==
  ASSUME Typed, NEW i \in Instances, NEW t \in Topics, NEW p \in HandlerPCs,
         handler[i][t].pc # "idle", Goto(i, t, p), UNCHANGED log
  PROVE  /\ HandlerTyped'
         /\ handler'[i][t].pc = p /\ Subject(i, t)' = Subject(i, t)
         /\ Elsewhere(i, t)
<1>1. handler \in Handlers /\ HandlerTyped
  BY TypedParts DEF HandlerTyped
<1> DEFINE h == [handler[i][t] EXCEPT !.pc = p]
<1>2. h \in [pc : HandlerPCs, offset : Nat] /\ h.pc = p /\ h.offset = handler[i][t].offset
  BY <1>1 DEF Handlers
<1>3. handler' = [handler EXCEPT ![i][t] = h]
  BY DEF Goto
<1> HIDE DEF h
<1>4. handler' \in Handlers /\ handler'[i][t] = h
  BY <1>1, <1>2, <1>3 DEF Handlers
<1>5. ASSUME NEW j \in Instances, NEW u \in Topics, ~(j = i /\ u = t)
      PROVE  handler'[j][u] = handler[j][u]
  BY <1>1, <1>3, <1>5 DEF Handlers
<1>6. HandlerTyped'
  BY <1>1, <1>2, <1>4, <1>5 DEF HandlerTyped
<1>7. Subject(i, t)' = Subject(i, t)
  BY <1>2, <1>4 DEF Subject
<1>8. Elsewhere(i, t)
  BY <1>5 DEF Elsewhere, Subject
<1> QED
  BY <1>2, <1>4, <1>6, <1>7, <1>8

LEMMA StopFrame ==
  ASSUME Typed, NEW i \in Instances, NEW t \in Topics, Stop(i, t), UNCHANGED log
  PROVE  /\ HandlerTyped'
         /\ handler'[i][t].pc = "idle"
         /\ Elsewhere(i, t)
<1>1. handler \in Handlers /\ HandlerTyped
  BY TypedParts DEF HandlerTyped
<1>2. Idle \in [pc : HandlerPCs, offset : Nat] /\ Idle.pc = "idle"
  BY DEF Idle, HandlerPCs
<1>3. handler' = [handler EXCEPT ![i][t] = Idle]
  BY DEF Stop
<1>4. handler' \in Handlers /\ handler'[i][t] = Idle
  BY <1>1, <1>2, <1>3 DEF Handlers
<1>5. ASSUME NEW j \in Instances, NEW u \in Topics, ~(j = i /\ u = t)
      PROVE  handler'[j][u] = handler[j][u]
  BY <1>1, <1>3, <1>5 DEF Handlers
<1>6. HandlerTyped'
  BY <1>1, <1>2, <1>4, <1>5 DEF HandlerTyped
<1>7. Elsewhere(i, t)
  BY <1>5 DEF Elsewhere, Subject
<1> QED
  BY <1>2, <1>4, <1>6, <1>7

LEMMA FaultFrame ==
  ASSUME Typed, NEW k \in FaultKinds, Fault(k)
  PROVE  /\ faults' \in [FaultKinds -> Nat]
         /\ Lost \in Nat /\ Lost' \in Nat /\ Lost' >= Lost
         /\ k \in {"error", "restart"} => Lost' = Lost + 1
<1>1. faults \in [FaultKinds -> Nat] /\ faults' = [faults EXCEPT ![k] = @ + 1]
  BY DEF Typed, TypeOK, Fault
<1>2. faults' \in [FaultKinds -> Nat]
  BY <1>1
<1>3. /\ faults["error"] \in Nat /\ faults["restart"] \in Nat
      /\ faults'["error"] = IF k = "error" THEN faults["error"] + 1 ELSE faults["error"]
      /\ faults'["restart"] = IF k = "restart" THEN faults["restart"] + 1 ELSE faults["restart"]
  BY <1>1 DEF FaultKinds
<1> QED
  BY <1>2, <1>3 DEF Lost

LEMMA LostType == Typed => Lost \in Nat
<1> SUFFICES ASSUME Typed PROVE Lost \in Nat
  OBVIOUS
<1>1. faults["error"] \in Nat /\ faults["restart"] \in Nat
  BY DEF Typed, TypeOK, FaultKinds
<1> QED
  BY <1>1 DEF Lost

\* A transaction that ends with its key marked.
LEMMA TransactionEnds ==
  ASSUME IndInv, NEW i \in Instances, NEW t \in Topics,
         handler[i][t].pc = "commitTx", inbox' = inbox \cup {<<Subject(i, t), t>>},
         handler'[i][t].pc \in {"commit", "idle"}, Elsewhere(i, t), UNCHANGED sent
  PROVE  /\ KeyHeld' /\ NotifiedFirst'
         /\ UNCHANGED faults => NotifiedOnce'
<1> DEFINE s == Subject(i, t)
<1>1. Typed /\ s \in Orders
  BY SubjectType DEF IndInv
<1> HIDE DEF s
<1>2. ASSUME NEW j \in Instances, NEW u \in Topics, Inserted(j, u)'
      PROVE  ~(j = i /\ u = t) /\ Inserted(j, u) /\ Subject(j, u)' = Subject(j, u)
  BY <1>2 DEF Inserted, Elsewhere
<1>3. ASSUME NEW j \in Instances, NEW u \in Topics, Inserted(j, u)'
      PROVE  <<Subject(j, u), u>> \notin inbox \cup {<<s, t>>}
  BY <1>2, <1>3 DEF IndInv, KeyHeld, Inserted, Key, s
<1>4. KeyHeld'
  BY <1>2, <1>3 DEF IndInv, KeyHeld, Key, s
<1>5. NotifiedFirst'
  <2>1. sent[s][t] > 0
    BY DEF IndInv, NotifiedFirst, s
  <2>2. \A j \in Instances, u \in Topics :
           handler'[j][u].pc = "commitTx" => sent[Subject(j, u)'][u] > 0
    BY DEF IndInv, NotifiedFirst, Elsewhere
  <2>3. \A o \in Orders, u \in Topics : <<o, u>> \in inbox' => sent[o][u] > 0
    BY <2>1 DEF IndInv, NotifiedFirst, s
  <2> QED
    BY <2>2, <2>3 DEF NotifiedFirst, Subject
<1>6. ASSUME UNCHANGED faults PROVE NotifiedOnce'
  <2>1. Lost' = Lost
    BY <1>6 DEF Lost
  <2>2. ASSUME NEW o \in Orders, NEW u \in Topics, Pending(o, u)
        PROVE  <<o, u>> \in inbox' \/ Pending(o, u)'
    <3>1. PICK j \in Instances : handler[j][u].pc = "commitTx" /\ Subject(j, u) = o
      BY <2>2 DEF Pending
    <3> QED
      BY <3>1 DEF Pending, Elsewhere
  <2> QED
    BY <2>1, <2>2 DEF IndInv, NotifiedOnce
<1> QED
  BY <1>4, <1>5, <1>6

\* A lost transaction pays for the notification it may have sent.
LEMMA LostCovers ==
  ASSUME IndInv, UNCHANGED sent,
         Lost \in Nat, Lost' = Lost + 1
  PROVE  NotifiedOnce'
<1>1. \A o \in Orders, t \in Topics : sent[o][t] \in Nat /\ sent[o][t] <= 1 + Lost
  BY DEF IndInv, NotifiedOnce, Typed, TypeOK
<1> QED
  BY <1>1 DEF NotifiedOnce

\* A fault that loses no transaction.
LEMMA LostGrows ==
  ASSUME IndInv, UNCHANGED <<inbox, sent>>, Lost \in Nat, Lost' \in Nat, Lost' >= Lost,
         \A o \in Orders, t \in Topics : Pending(o, t) => Pending(o, t)'
  PROVE  NotifiedOnce'
<1>1. SUFFICES ASSUME NEW o \in Orders, NEW t \in Topics
      PROVE  /\ sent[o][t] <= 1 + Lost'
             /\ <<o, t>> \in inbox \/ Pending(o, t)' \/ sent[o][t] <= Lost'
  BY DEF NotifiedOnce
<1>2. sent[o][t] \in Nat
  BY DEF IndInv, Typed, TypeOK
<1>3. /\ sent[o][t] <= 1 + Lost
      /\ <<o, t>> \in inbox \/ Pending(o, t) \/ sent[o][t] <= Lost
  BY DEF IndInv, NotifiedOnce
<1> QED
  BY <1>2, <1>3

-----------------------------------------------------------------------------
LEMMA InsertInv ==
  ASSUME IndInv, NEW i \in Instances, NEW t \in Topics, Insert(i, t)
  PROVE  IndInv'
<1>1. /\ Typed /\ handler[i][t].pc = "insert" /\ Key(i, t) \notin inbox
      /\ \A j \in Instances : ~(Inserted(j, t) /\ Key(j, t) = Key(i, t))
      /\ Goto(i, t, "notify") /\ UNCHANGED <<inbox, sent, log, group, faults>>
  BY DEF IndInv, Insert
<1>2. /\ HandlerTyped' /\ handler'[i][t].pc = "notify"
      /\ Subject(i, t)' = Subject(i, t) /\ Elsewhere(i, t)
  BY <1>1, GotoFrame DEF HandlerPCs
<1>3. Typed'
  BY <1>1, <1>2, TypedParts, TypedNext DEF RestTyped
<1>4. KeyHeld'
  BY <1>1, <1>2 DEF IndInv, KeyHeld, Inserted, Key, Elsewhere
<1>5. NotifiedOnce'
  BY <1>1, <1>2 DEF IndInv, NotifiedOnce, Pending, Lost, Elsewhere
<1>6. NotifiedFirst'
  BY <1>1, <1>2 DEF IndInv, NotifiedFirst, Elsewhere
<1> QED
  BY <1>3, <1>4, <1>5, <1>6 DEF IndInv

LEMMA DuplicateKeyInv ==
  ASSUME IndInv, NEW i \in Instances, NEW t \in Topics, DuplicateKey(i, t)
  PROVE  IndInv'
<1>1. /\ Typed /\ handler[i][t].pc = "insert" /\ Goto(i, t, "commit")
      /\ UNCHANGED <<inbox, sent, log, group, faults>>
  BY DEF IndInv, DuplicateKey
<1>2. /\ HandlerTyped' /\ handler'[i][t].pc = "commit"
      /\ Subject(i, t)' = Subject(i, t) /\ Elsewhere(i, t)
  BY <1>1, GotoFrame DEF HandlerPCs
<1>3. Typed'
  BY <1>1, <1>2, TypedParts, TypedNext DEF RestTyped
<1>4. KeyHeld'
  BY <1>1, <1>2 DEF IndInv, KeyHeld, Inserted, Key, Elsewhere
<1>5. NotifiedOnce'
  BY <1>1, <1>2 DEF IndInv, NotifiedOnce, Pending, Lost, Elsewhere
<1>6. NotifiedFirst'
  BY <1>1, <1>2 DEF IndInv, NotifiedFirst, Elsewhere
<1> QED
  BY <1>3, <1>4, <1>5, <1>6 DEF IndInv

LEMMA NotifyInv ==
  ASSUME IndInv, NEW i \in Instances, NEW t \in Topics, Notify(i, t)
  PROVE  IndInv'
<1>1. Typed /\ handler[i][t].pc = "notify"
  BY DEF IndInv, Notify
<1>2. PICK s \in Orders : s = Subject(i, t)
  BY <1>1, SubjectType
<1>3. /\ Typed /\ handler[i][t].pc = "notify" /\ Goto(i, t, "commitTx")
      /\ sent' = [sent EXCEPT ![s][t] = @ + 1]
      /\ UNCHANGED <<inbox, log, group, faults>>
  BY <1>1, <1>2 DEF Notify
<1>4. /\ HandlerTyped' /\ handler'[i][t].pc = "commitTx"
      /\ Subject(i, t)' = s /\ Elsewhere(i, t)
  BY <1>3, <1>2, GotoFrame DEF HandlerPCs
<1>5. sent \in [Orders -> [Topics -> Nat]]
  BY <1>3 DEF Typed, TypeOK
<1>6. /\ sent' \in [Orders -> [Topics -> Nat]]
      /\ sent'[s][t] = sent[s][t] + 1
      /\ \A o \in Orders, u \in Topics : ~(o = s /\ u = t) => sent'[o][u] = sent[o][u]
  BY <1>3, <1>5
<1>7. Typed'
  BY <1>3, <1>4, <1>6, TypedParts, TypedNext DEF RestTyped
<1>8. KeyHeld'
  BY <1>3, <1>2, <1>4 DEF IndInv, KeyHeld, Inserted, Key, Elsewhere
<1>9. NotifiedOnce'
  <2>1. <<s, t>> \notin inbox /\ ~Pending(s, t)
    BY <1>3, <1>2 DEF IndInv, KeyHeld, Inserted, Key, Pending
  <2>2. sent[s][t] <= Lost /\ Lost' = Lost /\ Lost \in Nat
    BY <1>3, <2>1, LostType DEF IndInv, NotifiedOnce, Lost
  <2>3. Pending(s, t)'
    BY <1>4 DEF Pending
  <2>4. sent'[s][t] <= 1 + Lost'
    BY <1>5, <1>6, <2>2
  <2>5. ASSUME NEW o \in Orders, NEW u \in Topics, Pending(o, u) PROVE Pending(o, u)'
    <3>1. PICK j \in Instances : handler[j][u].pc = "commitTx" /\ Subject(j, u) = o
      BY <2>5 DEF Pending
    <3>2. ~(j = i /\ u = t)
      BY <1>3, <3>1
    <3> QED
      BY <1>4, <3>1, <3>2 DEF Pending, Elsewhere
  <2>6. ASSUME NEW o \in Orders, NEW u \in Topics, ~(o = s /\ u = t)
        PROVE  /\ sent'[o][u] <= 1 + Lost'
               /\ <<o, u>> \in inbox' \/ Pending(o, u)' \/ sent'[o][u] <= Lost'
    BY <1>3, <1>6, <2>2, <2>5, <2>6 DEF IndInv, NotifiedOnce
  <2> QED
    BY <2>3, <2>4, <2>6 DEF NotifiedOnce
<1>10. NotifiedFirst'
  <2>1. \A o \in Orders, u \in Topics : sent[o][u] > 0 => sent'[o][u] > 0
    BY <1>5, <1>6
  <2>2. sent'[s][t] > 0
    BY <1>5, <1>6
  <2>3. ASSUME NEW j \in Instances, NEW u \in Topics, handler'[j][u].pc = "commitTx"
        PROVE  sent'[Subject(j, u)'][u] > 0
    <3>1. CASE j = i /\ u = t
      BY <1>4, <2>2, <3>1
    <3>2. CASE ~(j = i /\ u = t)
      <4>1. handler[j][u].pc = "commitTx" /\ Subject(j, u)' = Subject(j, u)
        BY <1>4, <2>3, <3>2 DEF Elsewhere
      <4>2. Subject(j, u) \in Orders
        BY <1>3, <4>1, SubjectType
      <4> QED
        BY <2>1, <4>1, <4>2 DEF IndInv, NotifiedFirst
    <3> QED
      BY <3>1, <3>2
  <2> QED
    BY <1>3, <2>1, <2>3 DEF IndInv, NotifiedFirst, Subject
<1> QED
  BY <1>7, <1>8, <1>9, <1>10 DEF IndInv

LEMMA CommitTxInv ==
  ASSUME IndInv, NEW i \in Instances, NEW t \in Topics, CommitTx(i, t)
  PROVE  IndInv'
<1> DEFINE s == Subject(i, t)
<1>1. /\ Typed /\ handler[i][t].pc = "commitTx" /\ Goto(i, t, "commit")
      /\ inbox' = inbox \cup {<<s, t>>}
      /\ UNCHANGED <<sent, log, group, faults>>
  BY DEF IndInv, CommitTx, Key
<1>2. s \in Orders
  BY <1>1, SubjectType
<1>3. /\ HandlerTyped' /\ handler'[i][t].pc = "commit" /\ Elsewhere(i, t)
  BY <1>1, GotoFrame DEF HandlerPCs
<1>4. Typed'
  BY <1>1, <1>2, <1>3, TypedParts, TypedNext DEF RestTyped
<1>5. KeyHeld' /\ NotifiedOnce' /\ NotifiedFirst'
  BY <1>1, <1>2, <1>3, TransactionEnds DEF s
<1> QED
  BY <1>4, <1>5 DEF IndInv

LEMMA HandlerErrorInv ==
  ASSUME IndInv, NEW i \in Instances, NEW t \in Topics, HandlerError(i, t)
  PROVE  IndInv'
<1>1. /\ Typed /\ Stop(i, t) /\ Fault("error") /\ UNCHANGED <<inbox, sent, log, group>>
  BY DEF IndInv, HandlerError
<1>2. HandlerTyped' /\ handler'[i][t].pc = "idle" /\ Elsewhere(i, t)
  BY <1>1, StopFrame
<1>3. faults' \in [FaultKinds -> Nat] /\ Lost \in Nat /\ Lost' = Lost + 1
  BY <1>1, FaultFrame DEF FaultKinds
<1>4. Typed'
  BY <1>1, <1>2, <1>3, TypedParts, TypedNext DEF RestTyped
<1>5. KeyHeld'
  BY <1>1, <1>2 DEF IndInv, KeyHeld, Inserted, Key, Elsewhere
<1>6. NotifiedOnce'
  BY <1>1, <1>3, LostCovers
<1>7. NotifiedFirst'
  BY <1>1, <1>2 DEF IndInv, NotifiedFirst, Elsewhere
<1> QED
  BY <1>4, <1>5, <1>6, <1>7 DEF IndInv

LEMMA CommitReplyLostInv ==
  ASSUME IndInv, NEW i \in Instances, NEW t \in Topics, CommitReplyLost(i, t)
  PROVE  IndInv'
<1> DEFINE s == Subject(i, t)
<1>1. /\ Typed /\ handler[i][t].pc = "commitTx" /\ Stop(i, t) /\ Fault("error")
      /\ inbox' = inbox \cup {<<s, t>>}
      /\ UNCHANGED <<sent, log, group>>
  BY DEF IndInv, CommitReplyLost, Key
<1>2. s \in Orders
  BY <1>1, SubjectType
<1>3. HandlerTyped' /\ handler'[i][t].pc = "idle" /\ Elsewhere(i, t)
  BY <1>1, StopFrame
<1>4. faults' \in [FaultKinds -> Nat] /\ Lost \in Nat /\ Lost' = Lost + 1
  BY <1>1, FaultFrame DEF FaultKinds
<1>5. Typed'
  BY <1>1, <1>2, <1>3, <1>4, TypedParts, TypedNext DEF RestTyped
<1>6. KeyHeld' /\ NotifiedFirst'
  BY <1>1, <1>2, <1>3, TransactionEnds DEF s
<1>7. NotifiedOnce'
  BY <1>1, <1>4, LostCovers
<1> QED
  BY <1>5, <1>6, <1>7 DEF IndInv

LEMMA CommitMessagesInv ==
  ASSUME IndInv, NEW i \in Instances, NEW t \in Topics, CommitMessages(i, t)
  PROVE  IndInv'
<1> DEFINE g == CommitOffset(group[t], handler[i][t].offset)
<1>1. /\ Typed /\ handler[i][t].pc = "commit" /\ Stop(i, t)
      /\ group' = [group EXCEPT ![t] = g]
      /\ UNCHANGED <<inbox, sent, log, faults>>
  BY DEF IndInv, CommitMessages
<1>2. HandlerTyped' /\ handler'[i][t].pc = "idle" /\ Elsewhere(i, t)
  BY <1>1, StopFrame
<1>3. g \in [owner : Instances, position : Nat, committed : Nat]
  <2>1. group[t] \in [owner : Instances, position : Nat, committed : Nat]
    BY <1>1 DEF Typed
  <2>2. handler[i][t].offset \in Nat
    BY <1>1 DEF Typed, TypeOK
  <2> QED
    BY <2>1, <2>2 DEF CommitOffset
<1> HIDE DEF g
<1>4. group' \in [Topics -> [owner : Instances, position : Nat, committed : Nat]]
  BY <1>1, <1>3 DEF Typed
<1>5. Typed'
  BY <1>1, <1>2, <1>4, TypedParts, TypedNext DEF RestTyped
<1>6. KeyHeld'
  BY <1>1, <1>2 DEF IndInv, KeyHeld, Inserted, Key, Elsewhere
<1>7. NotifiedOnce'
  BY <1>1, <1>2 DEF IndInv, NotifiedOnce, Pending, Lost, Elsewhere
<1>8. NotifiedFirst'
  BY <1>1, <1>2 DEF IndInv, NotifiedFirst, Elsewhere
<1> QED
  BY <1>5, <1>6, <1>7, <1>8 DEF IndInv

LEMMA CommitErrorInv ==
  ASSUME IndInv, NEW i \in Instances, NEW t \in Topics, CommitError(i, t)
  PROVE  IndInv'
<1>1. /\ Typed /\ handler[i][t].pc = "commit" /\ Stop(i, t) /\ Fault("commit")
      /\ UNCHANGED <<inbox, sent, log, group>>
  BY DEF IndInv, CommitError
<1>2. HandlerTyped' /\ handler'[i][t].pc = "idle" /\ Elsewhere(i, t)
  BY <1>1, StopFrame
<1>3. faults' \in [FaultKinds -> Nat] /\ Lost \in Nat /\ Lost' \in Nat /\ Lost' >= Lost
  BY <1>1, FaultFrame DEF FaultKinds
<1>4. Typed'
  BY <1>1, <1>2, <1>3, TypedParts, TypedNext DEF RestTyped
<1>5. KeyHeld'
  BY <1>1, <1>2 DEF IndInv, KeyHeld, Inserted, Key, Elsewhere
<1>6. NotifiedOnce'
  <2>2. \A o \in Orders, u \in Topics : Pending(o, u) => Pending(o, u)'
    BY <1>1, <1>2 DEF Pending, Elsewhere
  <2> QED
    BY <1>1, <1>3, <2>2, LostGrows
<1>7. NotifiedFirst'
  BY <1>1, <1>2 DEF IndInv, NotifiedFirst, Elsewhere
<1> QED
  BY <1>4, <1>5, <1>6, <1>7 DEF IndInv

LEMMA RebalanceInv ==
  ASSUME IndInv, NEW i \in Instances, NEW t \in Topics, Rebalance(t, i)
  PROVE  IndInv'
<1>1. /\ Typed /\ Fault("rebalance") /\ group' = [group EXCEPT ![t] = Reassign(@, i)]
      /\ UNCHANGED <<inbox, sent, log, handler>>
  BY DEF IndInv, Rebalance
<1>2. faults' \in [FaultKinds -> Nat] /\ Lost \in Nat /\ Lost' \in Nat /\ Lost' >= Lost
  BY <1>1, FaultFrame DEF FaultKinds
<1>3. group' \in [Topics -> [owner : Instances, position : Nat, committed : Nat]]
  BY <1>1 DEF Typed, Reassign
<1>4. HandlerTyped'
  BY <1>1, TypedParts DEF HandlerTyped
<1>5. Typed'
  BY <1>1, <1>2, <1>3, <1>4, TypedParts, TypedNext DEF RestTyped
<1>6. KeyHeld' /\ NotifiedFirst'
  BY <1>1 DEF IndInv, KeyHeld, NotifiedFirst, Inserted, Key, Subject
<1>7. NotifiedOnce'
  <2>2. \A o \in Orders, u \in Topics : Pending(o, u) => Pending(o, u)'
    BY <1>1 DEF Pending, Subject
  <2> QED
    BY <1>1, <1>2, <2>2, LostGrows
<1> QED
  BY <1>5, <1>6, <1>7 DEF IndInv

LEMMA RestartInv ==
  ASSUME IndInv, NEW i \in Instances, Restart(i)
  PROVE  IndInv'
<1>1. PICK j \in Instances :
      /\ Typed /\ Fault("restart")
      /\ handler' = [handler EXCEPT ![i] = [t \in Topics |-> Idle]]
      /\ group' = [t \in Topics |-> IF group[t].owner = i
                                      THEN Reassign(group[t], j) ELSE group[t]]
      /\ UNCHANGED <<inbox, sent, log>>
  BY DEF IndInv, Restart
<1>2. faults' \in [FaultKinds -> Nat] /\ Lost \in Nat /\ Lost' = Lost + 1
  BY <1>1, FaultFrame DEF FaultKinds
<1>3. group' \in [Topics -> [owner : Instances, position : Nat, committed : Nat]]
  BY <1>1 DEF Typed, Reassign
<1>4. handler \in Handlers /\ HandlerTyped
  BY <1>1, TypedParts DEF HandlerTyped
<1>5. /\ handler' \in Handlers
      /\ \A u \in Topics : handler'[i][u].pc = "idle"
      /\ \A k \in Instances \ {i}, u \in Topics : handler'[k][u] = handler[k][u]
  BY <1>1, <1>4 DEF Handlers, Idle, HandlerPCs
<1>6. HandlerTyped'
  BY <1>1, <1>4, <1>5 DEF HandlerTyped
<1>7. Typed'
  BY <1>1, <1>2, <1>3, <1>6, TypedParts, TypedNext DEF RestTyped
<1>8. KeyHeld'
  BY <1>1, <1>5 DEF IndInv, KeyHeld, Inserted, Key, Subject
<1>9. NotifiedOnce'
  BY <1>1, <1>2, LostCovers
<1>10. NotifiedFirst'
  BY <1>1, <1>5 DEF IndInv, NotifiedFirst, Subject
<1> QED
  BY <1>7, <1>8, <1>9, <1>10 DEF IndInv

LEMMA FetchMessageInv ==
  ASSUME IndInv, NEW i \in Instances, NEW t \in Topics, FetchMessage(i, t)
  PROVE  IndInv'
<1> DEFINE h == [pc |-> "insert", offset |-> group[t].position + 1]
           g == Deliver(group[t])
<1>1. /\ Typed /\ handler[i][t].pc = "idle" /\ HasNext(group[t], log[t])
      /\ group' = [group EXCEPT ![t] = g]
      /\ handler' = [handler EXCEPT ![i][t] = h]
      /\ UNCHANGED <<inbox, sent, log, faults>>
  BY DEF IndInv, FetchMessage
<1>2. handler \in Handlers /\ HandlerTyped
  BY <1>1, TypedParts DEF HandlerTyped
<1>3. /\ group[t] \in [owner : Instances, position : Nat, committed : Nat]
      /\ log[t] \in Seq(Orders)
  BY <1>1 DEF Typed, TypeOK
<1>4. /\ g \in [owner : Instances, position : Nat, committed : Nat]
      /\ h \in [pc : HandlerPCs, offset : Nat] /\ h.pc = "insert"
      /\ h.offset \in DOMAIN log[t]
  BY <1>1, <1>3 DEF Deliver, HasNext, HandlerPCs
<1> HIDE DEF h, g
<1>5. group' \in [Topics -> [owner : Instances, position : Nat, committed : Nat]]
  BY <1>1, <1>4 DEF Typed
<1>6. handler' \in Handlers /\ handler'[i][t] = h
  BY <1>1, <1>2, <1>4 DEF Handlers
<1>7. ASSUME NEW j \in Instances, NEW u \in Topics, ~(j = i /\ u = t)
      PROVE  handler'[j][u] = handler[j][u]
  BY <1>1, <1>2, <1>7 DEF Handlers
<1>8. HandlerTyped'
  BY <1>1, <1>2, <1>4, <1>6, <1>7 DEF HandlerTyped
<1>9. Typed'
  BY <1>1, <1>5, <1>8, TypedParts, TypedNext DEF RestTyped
<1>10. Elsewhere(i, t) /\ handler'[i][t].pc = "insert"
  BY <1>1, <1>4, <1>6, <1>7 DEF Elsewhere, Subject
<1>11. KeyHeld'
  BY <1>1, <1>10 DEF IndInv, KeyHeld, Inserted, Key, Elsewhere
<1>12. NotifiedOnce'
  BY <1>1, <1>10 DEF IndInv, NotifiedOnce, Pending, Lost, Elsewhere
<1>13. NotifiedFirst'
  BY <1>1, <1>10 DEF IndInv, NotifiedFirst, Elsewhere
<1> QED
  BY <1>9, <1>11, <1>12, <1>13 DEF IndInv

\* The messages that were delivered stay where they are.
LEMMA EventPublishedInv ==
  ASSUME IndInv, NEW o \in Orders, NEW t \in Topics, EventPublished(o, t)
  PROVE  IndInv'
<1>1. /\ Typed /\ log' = [log EXCEPT ![t] = Append(@, o)]
      /\ UNCHANGED <<inbox, sent, group, handler, faults>>
  BY DEF IndInv, EventPublished
<1>2. log \in [Topics -> Seq(Orders)]
  BY <1>1 DEF Typed, TypeOK
<1>3. ASSUME NEW u \in Topics
      PROVE  /\ log'[u] \in Seq(Orders)
             /\ \A n \in DOMAIN log[u] : n \in DOMAIN log'[u] /\ log'[u][n] = log[u][n]
  <2>1. CASE u = t
    <3>1. log[t] \in Seq(Orders) /\ log'[t] = Append(log[t], o)
      BY <1>1, <1>2
    <3> QED
      BY <2>1, <3>1
  <2>2. CASE u # t
    BY <1>1, <1>2, <2>2
  <2> QED
    BY <2>1, <2>2
<1>4. log' \in [Topics -> Seq(Orders)]
  <2>1. log' \in [Topics -> Seq(Orders)] <=> \A u \in Topics : log'[u] \in Seq(Orders)
    BY <1>1, <1>2
  <2> QED
    BY <1>3, <2>1
<1>5. HandlerTyped /\ HandlerTyped'
  BY <1>1, <1>3, TypedParts DEF HandlerTyped
<1>6. Typed'
  BY <1>1, <1>4, <1>5, TypedParts, TypedNext DEF RestTyped
<1>7. \A j \in Instances, u \in Topics :
         handler[j][u].pc # "idle" => Subject(j, u)' = Subject(j, u)
  BY <1>1, <1>3, <1>5 DEF HandlerTyped, Subject
<1>8. KeyHeld'
  BY <1>1, <1>7 DEF IndInv, KeyHeld, Inserted, Key
<1>9. NotifiedOnce'
  BY <1>1, <1>7 DEF IndInv, NotifiedOnce, Pending, Lost
<1>10. NotifiedFirst'
  BY <1>1, <1>7 DEF IndInv, NotifiedFirst
<1> QED
  BY <1>6, <1>8, <1>9, <1>10 DEF IndInv

LEMMA NextInv == IndInv /\ [Next]_vars => IndInv'
<1> SUFFICES ASSUME IndInv, [Next]_vars PROVE IndInv'
  OBVIOUS
<1>1. CASE UNCHANGED vars
  BY <1>1 DEF IndInv, vars, Typed, TypeOK, KeyHeld, NotifiedOnce, NotifiedFirst,
     Pending, Inserted, Key, Subject, Lost
<1>2. ASSUME NEW o \in Orders, NEW t \in Topics, EventPublished(o, t) PROVE IndInv'
  BY <1>2, EventPublishedInv
<1>3. ASSUME NEW i \in Instances, NEW t \in Topics, ConsumerStep(i, t) PROVE IndInv'
  BY <1>3, FetchMessageInv, InsertInv, DuplicateKeyInv, NotifyInv, CommitTxInv,
     CommitMessagesInv DEF ConsumerStep
<1>4. ASSUME NEW i \in Instances, NEW t \in Topics, ConsumerFault(i, t) PROVE IndInv'
  BY <1>4, HandlerErrorInv, CommitReplyLostInv, CommitErrorInv, RebalanceInv
     DEF ConsumerFault
<1>5. ASSUME NEW i \in Instances, Restart(i) PROVE IndInv'
  BY <1>5, RestartInv
<1> QED
  BY <1>1, <1>2, <1>3, <1>4, <1>5 DEF Next

-----------------------------------------------------------------------------
\* The inductive invariant: a key has one transaction at a time, and every
\* notification but one per lost transaction is pending or marked.
THEOREM Invariant == Spec => []IndInv
  BY InvInit, NextInv, PTL DEF Spec

\* Typing: a handler names a message that was delivered to it.
THEOREM TypeCorrect == Spec => []TypeOK
  BY Invariant, Consequences, PTL

\* A second notification of an event costs a lost transaction, whatever is
\* duplicated, redelivered or handled by two instances (inbox_repo.go:31-50).
THEOREM NoFreeRepetition == Spec => []RepeatedOnlyAfterRollback
  BY Invariant, Consequences, PTL

\* The mark in the inbox never stands for a notification that was not sent.
THEOREM NoEmptyMark == Spec => []MarkedIsNotified
  BY Invariant, Consequences, PTL

=============================================================================
