------------------------ MODULE NotificationService -------------------------
(***************************************************************************)
(* The notification service: one consumer per order event, the inbox table *)
(* with the key (order_id, event_type), and the notification that is sent  *)
(* inside the transaction which inserts that key.                          *)
(*                                                                         *)
(* The order service is the environment: it announces an order, and then   *)
(* one verdict of it, each possibly more than once.                        *)
(* Definitions introduced by "Mutant" are no part of Next, see README.md.  *)
(***************************************************************************)
EXTENDS Naturals, Sequences, FiniteSets, ConsumerGroup

CONSTANTS
    Orders,       \* order ids
    Instances,    \* notification-service processes, members of the groups
    MaxMessages,  \* bound: MaxMessages[t] messages in topic t
    MaxFaults     \* bound: MaxFaults[k] faults of kind k

Verdicts == {"order.confirmed", "order.cancelled"}
Topics   == {"order.created"} \cup Verdicts

\* "error" - a database call fails or its reply is lost; "commit" - an offset
\* commit fails; "rebalance" - a new generation; "restart" - a process dies.
FaultKinds == {"error", "commit", "rebalance", "restart"}

ASSUME NotificationAssumption ==
    /\ MaxMessages \in [Topics -> Nat]
    /\ MaxFaults \in [FaultKinds -> Nat]

VARIABLES
    inbox,    \* committed rows of inbox_events: <<order, event type>>
    sent,     \* sent[o][t]: notifications the customer got of event t of o
    log,      \* log[t]: the topic t, as order ids
    group,    \* group[t]: the consumer group on it
    handler,  \* handler[i][t]: [pc, offset] of the consumeLoop of i on t
    faults    \* faults that happened, per kind

vars == <<inbox, sent, log, group, handler, faults>>

-----------------------------------------------------------------------------
Fault(kind) ==
    /\ faults[kind] < MaxFaults[kind]
    /\ faults' = [faults EXCEPT ![kind] = @ + 1]

Idle == [pc |-> "idle", offset |-> 0]

Goto(i, t, pc) == handler' = [handler EXCEPT ![i][t] = [@ EXCEPT !.pc = pc]]
Stop(i, t)     == handler' = [handler EXCEPT ![i][t] = Idle]

Subject(i, t) == log[t][handler[i][t].offset]
Key(i, t)     == <<Subject(i, t), t>>

\* The key is inserted and the transaction of the goroutine still open.
Inserted(i, t) == handler[i][t].pc \in {"notify", "commitTx"}

Init ==
    /\ inbox   = {}
    /\ sent    = [o \in Orders |-> [t \in Topics |-> 0]]
    /\ log     = [t \in Topics |-> <<>>]
    /\ group   \in [Topics -> {NewGroup(i) : i \in Instances}]
    /\ handler = [i \in Instances |-> [t \in Topics |-> Idle]]
    /\ faults  = [k \in FaultKinds |-> 0]

Published(t) == {log[t][k] : k \in DOMAIN log[t]}

\* What the order service publishes, one verdict per order.
EventPublished(o, t) ==
    /\ Len(log[t]) < MaxMessages[t]
    /\ t \in Verdicts => /\ o \in Published("order.created")
                         /\ \A v \in Verdicts \ {t} : o \notin Published(v)
    /\ log' = [log EXCEPT ![t] = Append(@, o)]
    /\ UNCHANGED <<inbox, sent, group, handler, faults>>

-----------------------------------------------------------------------------
(* consumeLoop, handleMessage and MarkProcessedAndNotify *)

\* Mutant: the error of FetchMessage is not looked at.
FetchErrorIgnored(i, t) ==
    /\ group[t].owner = i
    /\ handler[i][t].pc = "idle"
    /\ group[t].position < MaxMessages[t]
    /\ group' = [group EXCEPT ![t] = Deliver(@)]
    /\ handler' = [handler EXCEPT ![i][t] =
                      [pc |-> "insert", offset |-> group[t].position + 1]]
    /\ UNCHANGED <<inbox, sent, log, faults>>

\* Mutant: ReadMessage, which commits the offset on delivery.
ReadMessage(i, t) ==
    /\ group[t].owner = i
    /\ handler[i][t].pc = "idle"
    /\ HasNext(group[t], log[t])
    /\ group' = [group EXCEPT ![t] = CommitOffset(Deliver(@), @.position + 1)]
    /\ handler' = [handler EXCEPT ![i][t] =
                      [pc |-> "insert", offset |-> group[t].position + 1]]
    /\ UNCHANGED <<inbox, sent, log, faults>>

FetchMessage(i, t) ==
    /\ group[t].owner = i
    /\ handler[i][t].pc = "idle"
    /\ HasNext(group[t], log[t])
    /\ group' = [group EXCEPT ![t] = Deliver(@)]
    /\ handler' = [handler EXCEPT ![i][t] =
                      [pc |-> "insert", offset |-> group[t].position + 1]]
    /\ UNCHANGED <<inbox, sent, log, faults>>

\* Mutant: a SELECT asks for the row before, and there is no key.
InsertWithoutKey(i, t) ==
    /\ handler[i][t].pc = "insert"
    /\ Key(i, t) \notin inbox
    /\ Goto(i, t, "notify")
    /\ UNCHANGED <<inbox, sent, log, group, faults>>

\* Mutant: the INSERT runs outside the transaction.
InsertCommitted(i, t) ==
    /\ handler[i][t].pc = "insert"
    /\ Key(i, t) \notin inbox
    /\ inbox' = inbox \cup {Key(i, t)}
    /\ Goto(i, t, "notify")
    /\ UNCHANGED <<sent, log, group, faults>>

\* The INSERT waits while another open transaction has inserted the key.
Insert(i, t) ==
    /\ handler[i][t].pc = "insert"
    /\ Key(i, t) \notin inbox
    /\ \A j \in Instances : ~(Inserted(j, t) /\ Key(j, t) = Key(i, t))
    /\ Goto(i, t, "notify")
    /\ UNCHANGED <<inbox, sent, log, group, faults>>

\* Code 23505: ErrAlreadyProcessed, the offset is committed.
DuplicateKey(i, t) ==
    /\ handler[i][t].pc = "insert"
    /\ Key(i, t) \in inbox
    /\ Goto(i, t, "commit")
    /\ UNCHANGED <<inbox, sent, log, group, faults>>

\* The notification leaves before the transaction commits.
Notify(i, t) ==
    /\ handler[i][t].pc = "notify"
    /\ sent' = [sent EXCEPT ![Subject(i, t)][t] = @ + 1]
    /\ Goto(i, t, "commitTx")
    /\ UNCHANGED <<inbox, log, group, faults>>

CommitTx(i, t) ==
    /\ handler[i][t].pc = "commitTx"
    /\ inbox' = inbox \cup {Key(i, t)}
    /\ Goto(i, t, "commit")
    /\ UNCHANGED <<sent, log, group, faults>>

\* INSERT or COMMIT fails: rolled back, and the loop goes on with the next
\* message; what was sent stays sent.
HandlerError(i, t) ==
    /\ handler[i][t].pc \in {"insert", "commitTx"}
    /\ Fault("error")
    /\ Stop(i, t)
    /\ UNCHANGED <<inbox, sent, log, group>>

\* The COMMIT took effect and its reply was lost.
CommitReplyLost(i, t) ==
    /\ handler[i][t].pc = "commitTx"
    /\ Fault("error")
    /\ inbox' = inbox \cup {Key(i, t)}
    /\ Stop(i, t)
    /\ UNCHANGED <<sent, log, group>>

CommitMessages(i, t) ==
    /\ handler[i][t].pc = "commit"
    /\ group' = [group EXCEPT ![t] = CommitOffset(@, handler[i][t].offset)]
    /\ Stop(i, t)
    /\ UNCHANGED <<inbox, sent, log, faults>>

CommitError(i, t) ==
    /\ handler[i][t].pc = "commit"
    /\ Fault("commit")
    /\ Stop(i, t)
    /\ UNCHANGED <<inbox, sent, log, group>>

\* The goroutine that is handling a message carries on.
Rebalance(t, i) ==
    /\ Fault("rebalance")
    /\ group' = [group EXCEPT ![t] = Reassign(@, i)]
    /\ UNCHANGED <<inbox, sent, log, handler>>

\* The process dies: open transactions are rolled back, partitions move.
Restart(i) ==
    /\ Fault("restart")
    /\ handler' = [handler EXCEPT ![i] = [t \in Topics |-> Idle]]
    /\ \E j \in Instances :
         group' = [t \in Topics |-> IF group[t].owner = i
                                      THEN Reassign(group[t], j) ELSE group[t]]
    /\ UNCHANGED <<inbox, sent, log>>

-----------------------------------------------------------------------------
ConsumerStep(i, t) ==
    \/ FetchMessage(i, t)
    \/ Insert(i, t) \/ DuplicateKey(i, t)
    \/ Notify(i, t)
    \/ CommitTx(i, t)
    \/ CommitMessages(i, t)

ConsumerFault(i, t) ==
    \/ HandlerError(i, t) \/ CommitReplyLost(i, t)
    \/ CommitError(i, t) \/ Rebalance(t, i)

Next ==
    \/ \E o \in Orders, t \in Topics : EventPublished(o, t)
    \/ \E i \in Instances, t \in Topics : ConsumerStep(i, t) \/ ConsumerFault(i, t)
    \/ \E i \in Instances : Restart(i)

Spec == Init /\ [][Next]_vars

\* One goroutine per topic runs as long as its process does.
FairSpec == Spec /\ \A i \in Instances, t \in Topics : WF_vars(ConsumerStep(i, t))

-----------------------------------------------------------------------------
(* Properties *)

HandlerPCs == {"idle", "insert", "notify", "commitTx", "commit"}

\* The variables keep the shape the code gives them, and a handler names a
\* message that was delivered.
TypeOK ==
    /\ inbox \in SUBSET (Orders \X Topics)
    /\ sent \in [Orders -> [Topics -> Nat]]
    /\ log \in [Topics -> Seq(Orders)]
    /\ \A t \in Topics : IsGroup(group[t], Instances)
    /\ handler \in [Instances -> [Topics -> [pc : HandlerPCs, offset : Nat]]]
    /\ \A i \in Instances, t \in Topics :
            handler[i][t].pc # "idle" => handler[i][t].offset \in DOMAIN log[t]
    /\ faults \in [FaultKinds -> Nat]

\* A customer hears of an event a second time only if a transaction was lost
\* after its notification: duplicates in the topic, rebalances, zombies and
\* failed offset commits never repeat one (inbox_repo.go:31-50).
RepeatedOnlyAfterRollback ==
    \A o \in Orders, t \in Topics :
        sent[o][t] <= 1 + faults["error"] + faults["restart"]

\* An event marked in the inbox was notified: the mark never suppresses the
\* first notification, wherever the process dies in between.
MarkedIsNotified == \A key \in inbox : sent[key[1]][key[2]] > 0

\* Every event of every order is notified, whatever the other events of the
\* order did, over restarts, rebalances and failed offset commits; only an
\* error of the handler may drop one.
EveryEventNotified ==
    \A o \in Orders, t \in Topics :
        (\E k \in DOMAIN log[t] : k > group[t].position /\ log[t][k] = o)
            ~> (sent[o][t] > 0 \/ faults["error"] > 0)

\* What publisher.go:31 of the order service promises with its key, "the
\* events of one order are ordered": no verdict is notified before the
\* acceptance of the order.
EventsOfOrderInOrder ==
    \A o \in Orders, t \in Verdicts : sent[o][t] > 0 => sent[o]["order.created"] > 0

=============================================================================
