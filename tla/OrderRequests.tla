--------------------------- MODULE OrderRequests ----------------------------
(***************************************************************************)
(* POST /orders and GET /orders/:id from a client's connection to Postgres *)
(* and back, while the two processes on the way are told to stop.          *)
(*                                                                         *)
(* A request comes in at the gateway, which calls the order service over   *)
(* gRPC, or directly at the order service's own HTTP server.  No end of a  *)
(* call knows the other: each has a state of its own, and no call has a    *)
(* deadline.  On SIGTERM a process drains its servers for at most five     *)
(* seconds, in the order in which main stops them.                         *)
(*                                                                         *)
(* The rate limiter and the cache of the gateway are in Gateway.tla: the   *)
(* requests here have their token and are not in the cache.                *)
(* Definitions introduced by "Mutant" are no part of Next, see README.md.  *)
(***************************************************************************)
EXTENDS Integers, Sequences, FiniteSets, SequencesExt

CONSTANTS
    Creates,    \* POST requests, named by the id of the order they create
    Gets,       \* GET requests
    TargetOf,   \* TargetOf[g]: the order that GET request g asks for
    Carts,      \* bodies of POST requests: sequences of order lines
    Limit,      \* amounts are from -Limit to Limit - 1; 2^63 in the code
    PoolSize,   \* connections of the order service's pool
    MaxKinds    \* bound: different kinds of faults in one behaviour

Requests == Creates \cup Gets

\* "db" - a database call fails, whether or not it took effect; "leave" - a
\* client hangs up; "kill" - the order service dies.
FaultKinds == {"db", "leave", "kill"}

ASSUME OrderRequestsAssumption ==
    /\ Creates \cap Gets = {}
    /\ TargetOf \in [Gets -> Creates]
    /\ Carts \subseteq Seq([price : Int, quantity : Int, currency : STRING, fits : BOOLEAN])
    /\ Limit \in Nat \ {0}
    /\ PoolSize \in Nat \ {0}
    /\ MaxKinds \in Nat

VARIABLES
    client,   \* client[r]: what the client knows of its request
    via,      \* via[r]: the server it was sent to
    cart,     \* cart[r]: the order lines in its body
    knows,    \* GETs that were sent after the 201 for the order they ask for
    gateway,  \* gateway[r]: the gateway's handler, or the code it was given
    server,   \* server[r]: the order service's handler, or its result
    stored,   \* stored[o]: the total in each row of orders with id o
    front,    \* main of the gateway
    service,  \* main of the order service
    faults    \* kinds of faults that happened

request == <<via, cart, knows>>
vars    == <<client, via, cart, knows, gateway, server, stored, front, service, faults>>

Fault(kind) ==
    /\ faults' = faults \cup {kind}
    /\ Cardinality(faults') <= MaxKinds

-----------------------------------------------------------------------------
(* Money and carts *)

Money(amount, currency) == [amount |-> amount, currency |-> currency]

NoRow == <<>>

\* What a signed integer type with this limit makes of a number.
Wrap(n, limit) == ((n + limit) % (2 * limit)) - limit

\* Mutant: the quantity times the price in a narrower integer type.
SubtotalNarrow(line) == Money(Wrap(line.price * line.quantity, Limit \div 2), line.currency)

Subtotal(line) == Money(Wrap(line.price * line.quantity, Limit), line.currency)

\* Both Adds of one currency and of two: the first one's is kept.
Add(m, other) == Money(Wrap(m.amount + other.amount, Limit), m.currency)

Total(c) == FoldLeft(LAMBDA m, line : Add(m, Subtotal(line)), Money(0, c[1].currency), c)

\* The binding rules of createOrderRequest, the same in both servers.
Valid(c) == c # <<>> /\ \A i \in DOMAIN c : c[i].price > 0 /\ c[i].quantity > 0

\* The rules say nothing of the longest sku and name, or, in the order
\* service, of the largest quantity, that a row of order_items can take.
Storable(c) == \A i \in DOMAIN c : c[i].fits

-----------------------------------------------------------------------------
Init ==
    /\ client  = [r \in Requests |-> "new"]
    /\ via     = [r \in Requests |-> "none"]
    /\ cart    = [r \in Requests |-> <<>>]
    /\ knows   = {}
    /\ gateway = [r \in Requests |-> "none"]
    /\ server  = [r \in Requests |-> "none"]
    /\ stored  = [o \in Creates |-> NoRow]
    /\ front   = [phase |-> "up", late |-> FALSE]
    /\ service = [phase |-> "up", late |-> FALSE, forced |-> FALSE]
    /\ faults  = {}

-----------------------------------------------------------------------------
(* The client *)

\* A process that is told to stop closes its listeners first.
Listening(v) == (IF v = "gateway" THEN front.phase ELSE service.phase) = "up"

\* A handler of a GET has no body to read.
Send(r, v, c) ==
    /\ client[r] = "new"
    /\ via'   = [via EXCEPT ![r] = v]
    /\ cart'  = [cart EXCEPT ![r] = c]
    /\ knows' = IF r \in Gets /\ client[TargetOf[r]] = "201" THEN knows \cup {r} ELSE knows
    /\ client' = [client EXCEPT ![r] = IF Listening(v) THEN "sent" ELSE "refused"]
    /\ gateway' = IF Listening(v) /\ v = "gateway"
                    THEN [gateway EXCEPT ![r] = IF r \in Gets THEN "calling" ELSE "reading"]
                    ELSE gateway
    /\ server' = IF Listening(v) /\ v = "direct"
                   THEN [server EXCEPT ![r] = IF r \in Gets THEN "row" ELSE "reading"]
                   ELSE server
    /\ UNCHANGED <<stored, front, service, faults>>

Leave(r) ==
    /\ client[r] = "sent"
    /\ Fault("leave")
    /\ client' = [client EXCEPT ![r] = "left"]
    /\ UNCHANGED <<request, gateway, server, stored, front, service>>

\* What a client is told, if it still listens.
Tell(r, answer) == client' = [client EXCEPT ![r] = IF @ = "sent" THEN answer ELSE @]

Goto(r, pc)   == gateway' = [gateway EXCEPT ![r] = pc]
Become(r, pc) == server' = [server EXCEPT ![r] = pc]

-----------------------------------------------------------------------------
(* The gateway's handlers *)

\* ShouldBindJSON reads the body, however long the client takes for it.
GatewayBody(r) ==
    /\ gateway[r] = "reading"
    /\ IF client[r] = "sent" /\ Valid(cart[r])
         THEN Goto(r, "calling") /\ UNCHANGED client
         ELSE Goto(r, "done") /\ Tell(r, "400")
    /\ UNCHANGED <<request, server, stored, front, service, faults>>

\* The gRPC server goes on while the HTTP server next to it is drained.
Accepting == service.phase \in {"up", "http"}

\* NewOrder rejects an empty order before there is a transaction.
Accepted(r) == IF r \in Gets THEN "row"
               ELSE IF cart[r] = <<>> THEN "ErrEmptyItems" ELSE "begin"

Invoke(r) ==
    /\ gateway[r] = "calling"
    /\ Accepting
    /\ Goto(r, "waiting")
    /\ Become(r, Accepted(r))
    /\ UNCHANGED <<client, request, stored, front, service, faults>>

\* Mutant: grpc.WaitForReady(true).
InvokeWaitsForReady(r) ==
    /\ gateway[r] = "calling"
    /\ ~Accepting
    /\ UNCHANGED vars

\* The connection is refused, and a call does not wait for a better one.
InvokeUnavailable(r) ==
    /\ gateway[r] = "calling"
    /\ ~Accepting
    /\ Goto(r, "Unavailable")
    /\ UNCHANGED <<client, request, server, stored, front, service, faults>>

\* The request's context ends with the client's connection, and the gateway's
\* connection to the order service with its main.
CallCanceled(r) ==
    /\ gateway[r] \in {"calling", "waiting"}
    /\ client[r] = "left" \/ front.phase = "closing"
    /\ Goto(r, "Canceled")
    /\ UNCHANGED <<client, request, server, stored, front, service, faults>>

ConnectionBroken == service.forced \/ service.phase = "down"

RpcBroken(r) ==
    /\ gateway[r] = "waiting"
    /\ ConnectionBroken
    /\ Goto(r, "Unavailable")
    /\ UNCHANGED <<client, request, server, stored, front, service, faults>>

GRPCCodes == {"OK", "Short", "InvalidArgument", "Internal", "Unavailable", "Canceled"}

\* Codes that no method here returns have a case of their own in the code too.
writeGRPCError(code) ==
    CASE code = "InvalidArgument" -> "400"
      [] code = "Unavailable"     -> "503"
      [] OTHER                    -> "500"

GatewayStatus(r, code) ==
    CASE code = "OK"    -> IF r \in Gets THEN "200" ELSE "201"
      [] code = "Short" -> "short"
      [] OTHER          -> writeGRPCError(code)

GatewayReply(r) ==
    /\ gateway[r] \in GRPCCodes
    /\ Tell(r, GatewayStatus(r, gateway[r]))
    /\ Goto(r, "done")
    /\ UNCHANGED <<request, server, stored, front, service, faults>>

-----------------------------------------------------------------------------
(* The order service's handlers *)

DirectBody(r) ==
    /\ server[r] = "reading"
    /\ IF client[r] = "sent" /\ Valid(cart[r])
         THEN Become(r, Accepted(r)) /\ UNCHANGED client
         ELSE Become(r, "done") /\ Tell(r, "400")
    /\ UNCHANGED <<request, gateway, stored, front, service, faults>>

\* Whether the handler's context may have ended by now.  That of an HTTP
\* handler ends with the connection, never because the server is shut down.
Cancelled(r) ==
    IF via[r] = "direct" THEN client[r] = "left"
    ELSE gateway[r] # "waiting" \/ service.forced

PoolOpen   == service.phase \in {"up", "http", "grpc"}
OpenTx     == {r \in Requests : server[r] = "tx"}
CanAcquire == PoolOpen /\ Cardinality(OpenTx) < PoolSize

BeginTx(r) ==
    /\ server[r] = "begin"
    /\ CanAcquire
    /\ Become(r, "tx")
    /\ UNCHANGED <<client, request, gateway, stored, front, service, faults>>

Insert(r) == stored' = [stored EXCEPT ![r] = <<Total(cart[r])>>]

\* SaveWithEvent: the order, its items and its event in one transaction.
CommitTx(r) ==
    /\ server[r] = "tx"
    /\ Storable(cart[r])
    /\ Insert(r)
    /\ Become(r, "ok")
    /\ UNCHANGED <<client, request, gateway, front, service, faults>>

\* The commit took effect and the handler is told of an error.
CommitReplyLost(r) ==
    /\ server[r] = "tx"
    /\ Storable(cart[r])
    /\ \/ Fault("db")
       \/ Cancelled(r) /\ UNCHANGED faults
    /\ Insert(r)
    /\ Become(r, "error")
    /\ UNCHANGED <<client, request, gateway, front, service>>

\* GetByID takes a connection for each of its two statements.
GetRow(r) ==
    /\ server[r] = "row"
    /\ CanAcquire
    /\ Become(r, IF stored[TargetOf[r]] = NoRow THEN "error" ELSE "items")
    /\ UNCHANGED <<client, request, gateway, stored, front, service, faults>>

GetItems(r) ==
    /\ server[r] = "items"
    /\ CanAcquire
    /\ Become(r, "ok")
    /\ UNCHANGED <<client, request, gateway, stored, front, service, faults>>

\* The items stop in the middle; rows.Err is not asked.
GetItemsCut(r) ==
    /\ server[r] = "items"
    /\ CanAcquire
    /\ \/ Fault("db")
       \/ Cancelled(r) /\ UNCHANGED faults
    /\ Become(r, "short")
    /\ UNCHANGED <<client, request, gateway, stored, front, service>>

\* Mutant: the error of tx.Commit is not looked at.
DbErrorIgnored(r) ==
    /\ server[r] \in {"begin", "tx", "row", "items"}
    /\ Fault("db")
    /\ Become(r, IF server[r] = "tx" THEN "ok" ELSE "error")
    /\ UNCHANGED <<client, request, gateway, stored, front, service>>

DbError(r) ==
    /\ server[r] \in {"begin", "tx", "row", "items"}
    /\ Fault("db")
    /\ Become(r, "error")
    /\ UNCHANGED <<client, request, gateway, stored, front, service>>

\* Errors that are nobody's fault: the context has ended, the pool is closed,
\* or a column is too small.
DbRefuses(r) ==
    /\ server[r] \in {"begin", "tx", "row", "items"}
    /\ \/ Cancelled(r)
       \/ server[r] # "tx" /\ ~PoolOpen
       \/ server[r] = "tx" /\ ~Storable(cart[r])
    /\ Become(r, "error")
    /\ UNCHANGED <<client, request, gateway, stored, front, service, faults>>

Results == {"ok", "short", "error", "ErrEmptyItems"}

mapDomainErrToGRPC(result) ==
    IF result = "ErrEmptyItems" THEN "InvalidArgument" ELSE "Internal"

GRPCStatus(result) ==
    CASE result = "ok"    -> "OK"
      [] result = "short" -> "Short"
      [] OTHER            -> mapDomainErrToGRPC(result)

\* GetOrder answers 404 to every error; its response does not show items.
DirectStatus(r, result) ==
    IF r \in Gets
      THEN IF result \in {"ok", "short"} THEN "200" ELSE "404"
      ELSE CASE result = "ok"            -> "201"
             [] result = "ErrEmptyItems" -> "400"
             [] OTHER                    -> "500"

\* The handler returns.  A caller that gave up is not there to hear it.
Return(r) ==
    /\ server[r] \in Results
    /\ IF via[r] = "direct"
         THEN Tell(r, DirectStatus(r, server[r])) /\ UNCHANGED gateway
         ELSE /\ IF gateway[r] = "waiting" /\ ~ConnectionBroken
                   THEN Goto(r, GRPCStatus(server[r])) ELSE UNCHANGED gateway
              /\ UNCHANGED client
    /\ Become(r, "done")
    /\ UNCHANGED <<request, stored, front, service, faults>>

-----------------------------------------------------------------------------
(* main of the order service *)

ActiveAt(v) == {r \in Requests : via[r] = v /\ server[r] \notin {"none", "done"}}

ServicePhase(phase) == service' = [service EXCEPT !.phase = phase]

Terminate ==
    /\ service.phase = "up"
    /\ ServicePhase("http")
    /\ UNCHANGED <<client, request, gateway, server, stored, front, faults>>

\* One shutdownCtx for both servers: five seconds from the signal on.
Deadline ==
    /\ service.phase \in {"http", "grpc"}
    /\ ~service.late
    /\ service' = [service EXCEPT !.late = TRUE]
    /\ UNCHANGED <<client, request, gateway, server, stored, front, faults>>

\* Mutant: httpSrv.Shutdown(context.Background()).
HttpShutdownUnbounded ==
    /\ service.phase = "http"
    /\ ActiveAt("direct") = {}
    /\ ServicePhase("grpc")
    /\ UNCHANGED <<client, request, gateway, server, stored, front, faults>>

\* Handlers that are not done when the time is up go on.
HttpShutdown ==
    /\ service.phase = "http"
    /\ ActiveAt("direct") = {} \/ service.late
    /\ ServicePhase("grpc")
    /\ UNCHANGED <<client, request, gateway, server, stored, front, faults>>

\* Mutant: Stop instead of GracefulStop.
StopAtOnce ==
    /\ service.phase = "grpc"
    /\ service' = [service EXCEPT !.phase = "pool", !.forced = TRUE]
    /\ UNCHANGED <<client, request, gateway, server, stored, front, faults>>

GracefulStop ==
    /\ service.phase = "grpc"
    /\ ActiveAt("gateway") = {}
    /\ ServicePhase("pool")
    /\ UNCHANGED <<client, request, gateway, server, stored, front, faults>>

\* Stop closes the connections and waits for no handler.
Stop ==
    /\ service.phase = "grpc"
    /\ service.late
    /\ service' = [service EXCEPT !.phase = "pool", !.forced = TRUE]
    /\ UNCHANGED <<client, request, gateway, server, stored, front, faults>>

\* Mutant: os.Exit at the end of main, which runs no deferred call.
ExitBeforeClose ==
    /\ service.phase = "pool"
    /\ ServicePhase("exit")
    /\ UNCHANGED <<client, request, gateway, server, stored, front, faults>>

\* The deferred pool.Close waits for the connections that are in use.
ClosePool ==
    /\ service.phase = "pool"
    /\ OpenTx = {}
    /\ ServicePhase("exit")
    /\ UNCHANGED <<client, request, gateway, server, stored, front, faults>>

\* The handlers go with their process, and open transactions with them.
ServiceGone ==
    /\ ServicePhase("down")
    /\ server' = [r \in Requests |-> IF server[r] = "none" THEN "none" ELSE "done"]
    /\ client' = [r \in Requests |-> IF via[r] = "direct" /\ client[r] = "sent"
                                       THEN "reset" ELSE client[r]]
    /\ UNCHANGED <<request, gateway, stored, front>>

Exit ==
    /\ service.phase = "exit"
    /\ ServiceGone
    /\ UNCHANGED faults

Kill ==
    /\ service.phase # "down"
    /\ Fault("kill")
    /\ ServiceGone

-----------------------------------------------------------------------------
(* main of the gateway *)

GatewayTerminate ==
    /\ front.phase = "up"
    /\ front' = [front EXCEPT !.phase = "draining"]
    /\ UNCHANGED <<client, request, gateway, server, stored, service, faults>>

GatewayDeadline ==
    /\ front.phase = "draining"
    /\ ~front.late
    /\ front' = [front EXCEPT !.late = TRUE]
    /\ UNCHANGED <<client, request, gateway, server, stored, service, faults>>

GatewayIdle == \A r \in Requests : gateway[r] \in {"none", "done"}

GatewayShutdown ==
    /\ front.phase = "draining"
    /\ GatewayIdle \/ front.late
    /\ front' = [front EXCEPT !.phase = "closing"]
    /\ UNCHANGED <<client, request, gateway, server, stored, service, faults>>

GatewayExit ==
    /\ front.phase = "closing"
    /\ front' = [front EXCEPT !.phase = "down"]
    /\ gateway' = [r \in Requests |-> IF gateway[r] = "none" THEN "none" ELSE "done"]
    /\ client' = [r \in Requests |-> IF via[r] = "gateway" /\ client[r] = "sent"
                                       THEN "reset" ELSE client[r]]
    /\ UNCHANGED <<request, server, stored, service, faults>>

-----------------------------------------------------------------------------
ClientNext(r) ==
    \/ \E v \in {"gateway", "direct"}, c \in IF r \in Creates THEN Carts ELSE {<<>>} :
          Send(r, v, c)
    \/ Leave(r)

\* What a handler does of itself, once it has the request's body.
GatewayStep(r) ==
    Invoke(r) \/ InvokeUnavailable(r) \/ CallCanceled(r) \/ RpcBroken(r) \/ GatewayReply(r)

ServerStep(r) ==
    \/ BeginTx(r) \/ CommitTx(r) \/ GetRow(r) \/ GetItems(r)
    \/ DbRefuses(r) \/ Return(r)

DbFaults(r) == DbError(r) \/ CommitReplyLost(r) \/ GetItemsCut(r)

ServiceMain == HttpShutdown \/ GracefulStop \/ Stop \/ ClosePool \/ Exit
GatewayMain == GatewayShutdown \/ GatewayExit

Next ==
    \/ \E r \in Requests : \/ ClientNext(r)
                           \/ GatewayBody(r) \/ DirectBody(r)
                           \/ GatewayStep(r) \/ ServerStep(r) \/ DbFaults(r)
    \/ Terminate \/ Deadline \/ ServiceMain \/ Kill
    \/ GatewayTerminate \/ GatewayDeadline \/ GatewayMain

Spec == Init /\ [][Next]_vars

\* The two mains run and their timers fire.  A handler may hang: in a call to
\* Postgres, which has no deadline, or in one to the order service.  Nobody has
\* to send a request, or all of its body, and nobody has to stop a process.
FairSpec ==
    /\ Spec
    /\ WF_vars(Deadline) /\ WF_vars(ServiceMain)
    /\ WF_vars(GatewayDeadline) /\ WF_vars(GatewayMain)

\* No handler hangs: Postgres answers each call, if only with an error.
ServersRun  == \A r \in Requests : WF_vars(ServerStep(r))
HandlersRun == ServersRun /\ \A r \in Requests : WF_vars(GatewayStep(r))

-----------------------------------------------------------------------------
(* Properties *)

ClientStates == {"new", "sent", "left", "201", "200", "short", "400", "404", "500",
                 "503", "reset", "refused"}
GatewayStates == {"none", "reading", "calling", "waiting", "done"} \cup GRPCCodes
ServerStates  == {"none", "reading", "begin", "tx", "row", "items", "done"} \cup Results

\* A process whose main has returned has no transaction open.
TypeOK ==
    /\ client \in [Requests -> ClientStates]
    /\ via \in [Requests -> {"none", "gateway", "direct"}]
    /\ cart \in [Requests -> Carts \cup {<<>>}]
    /\ knows \in SUBSET Gets
    /\ gateway \in [Requests -> GatewayStates]
    /\ server \in [Requests -> ServerStates]
    /\ stored \in [Creates -> {NoRow} \cup {<<Total(c)>> : c \in Carts}]
    /\ front \in [phase : {"up", "draining", "closing", "down"}, late : BOOLEAN]
    /\ service \in [phase : {"up", "http", "grpc", "pool", "exit", "down"},
                    late : BOOLEAN, forced : BOOLEAN]
    /\ faults \in SUBSET FaultKinds
    /\ service.phase \in {"exit", "down"} => OpenTx = {}

\* What a client was told is so: a 201 stands for a committed order with the
\* total of the cart that was sent, a GET shows a committed order, and an
\* order that was turned down is not there (SaveWithEvent, order_repo.go:26-75).
CreatedIsStored ==
    /\ \A o \in Creates :
          /\ client[o] = "201" => stored[o] = <<Total(cart[o])>>
          /\ client[o] \in {"new", "400", "refused"} => stored[o] = NoRow
    /\ \A g \in Gets : client[g] \in {"200", "short"} => stored[TargetOf[g]] # NoRow

Price(c) == FoldLeft(LAMBDA n, line : n + line.price * line.quantity, 0, c)

\* The stored total is the price of the cart whenever that fits an amount, in
\* the currency of the lines if they have one (order.go:78-110).
TotalIsExact ==
    \A o \in Creates : stored[o] # NoRow =>
        LET c == cart[o]
        IN  /\ Price(c) < Limit => stored[o][1].amount = Price(c)
            /\ \A i \in DOMAIN c : (\A j \in DOMAIN c : c[i].currency = c[j].currency)
                                      => stored[o][1].currency = c[i].currency

\* Stopping a process in time fails no request that it had begun: a request
\* is answered with an error only if a database call failed, a column was too
\* small, the five seconds were not enough or the process was killed; a 503
\* without any of these is for a call that never reached a handler, and a GET
\* sent after the 201 finds the order (main.go:104-127 of the order service).
FailureIsExcused ==
    LET failing == "db" \in faults \/ service.late
        killed  == "kill" \in faults
    IN \A r \in Requests :
        /\ client[r] = "500" => \/ failing \/ front.late
                                \/ ~Storable(cart[r])
                                \/ r \in Gets \ knows
        /\ client[r] = "404" => failing \/ r \in Gets \ knows
        /\ client[r] = "503" => /\ service.phase # "up"
                                /\ server[r] = "none" \/ service.late \/ killed
        /\ client[r] = "reset" =>
              IF via[r] = "direct" THEN service.late \/ killed ELSE front.late
        /\ client[r] = "short" => "db" \in faults

\* A request whose body has arrived is answered, or its connection is closed,
\* although no call on its way has a deadline, provided that no handler hangs
\* (order_client.go:40-50 of the gateway).
Begun(r) == \/ gateway[r] \notin {"none", "reading"}
            \/ server[r] \notin {"none", "reading"}

BegunIsAnswered ==
    HandlersRun => \A r \in Requests : Begun(r) ~> client[r] # "sent"

\* Also while clients are slow to send a body and handlers hang, a gateway that
\* is told to stop exits, and an order service that is told to stop has its two
\* servers stopped.  The order service then exits too, provided that none of
\* its handlers hangs: the deferred pool.Close waits without limit for the
\* connections they hold (main.go:45 and 104-127 of the order service).
ProcessesExit ==
    /\ front.phase # "up" ~> front.phase = "down"
    /\ service.phase # "up" ~> service.phase \in {"pool", "exit", "down"}
    /\ ServersRun => (service.phase # "up" ~> service.phase = "down")

=============================================================================
