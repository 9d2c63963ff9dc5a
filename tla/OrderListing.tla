---------------------------- MODULE OrderListing ----------------------------
(***************************************************************************)
(* GET /orders: a client reads the orders of one customer page by page.    *)
(* The position is no offset but the key (created_at, id) of the last row  *)
(* it was given, and created_at is taken from the clock of whichever       *)
(* process runs NewOrder, some time before the row is committed: orders    *)
(* can appear anywhere in the list while a client is half-way through it.  *)
(*                                                                         *)
(* An order's status changes all the time and its key never does, so a row *)
(* is its key here.  A request that fails answers 500 and moves no client. *)
(*                                                                         *)
(* A definition introduced by "Mutant" is no part of Next: it is the       *)
(* definition below it with a mistake in it.                               *)
(***************************************************************************)
EXTENDS Integers, FiniteSets

CONSTANTS
    Orders,        \* order ids, compared as the uuids in the key are
    CustomerOf,    \* CustomerOf[o]: who placed order o
    Clients,       \* clients that page through a list
    ListOf,        \* ListOf[c]: the customer whose orders client c reads
    Times,         \* what a clock can show, as fine as TIMESTAMPTZ stores it
    Limits,        \* limits that requests to the order service ask for
    DefaultLimit,  \* 20
    MaxLimit       \* 100

Unstamped == 0     \* no order of this id yet

ASSUME OrderListingAssumption ==
    /\ Orders \subseteq Nat
    /\ Times \subseteq Nat \ {Unstamped}
    /\ Limits \subseteq Int
    /\ DefaultLimit \in Nat \ {0}
    /\ MaxLimit \in Nat

VARIABLES
    createdAt,  \* createdAt[o]: orders.created_at
    table,      \* orders whose rows are committed
    reader,     \* reader[c]: how far client c is, and the cursor it was given
    base,       \* base[c]: orders that were there when c read its first page
    shown       \* shown[c][o]: how often c was given order o

vars == <<createdAt, table, reader, base, shown>>

-----------------------------------------------------------------------------
Init ==
    /\ createdAt = [o \in Orders |-> Unstamped]
    /\ table     = {}
    /\ reader    = [c \in Clients |-> [phase |-> "idle", at |-> 0, id |-> 0]]
    /\ base      = [c \in Clients |-> {}]
    /\ shown     = [c \in Clients |-> [o \in Orders |-> 0]]

\* NewOrder takes the time from the clock of its process ...
NewOrder(o, t) ==
    /\ createdAt[o] = Unstamped
    /\ createdAt' = [createdAt EXCEPT ![o] = t]
    /\ UNCHANGED <<table, reader, base, shown>>

\* ... and the row is there once SaveWithEvent has committed, if it ever does.
SaveWithEvent(o) ==
    /\ createdAt[o] # Unstamped
    /\ o \notin table
    /\ table' = table \cup {o}
    /\ UNCHANGED <<createdAt, reader, base, shown>>

-----------------------------------------------------------------------------
(* One page *)

PageSize(limit) == IF limit <= 0 \/ limit > MaxLimit THEN DefaultLimit ELSE limit

Mine(c) == {o \in table : CustomerOf[o] = ListOf[c]}

\* Mutant: the cursor is compared by its time alone.
BelowInTime(o, c) == createdAt[o] < reader[c].at

\* (created_at, id) < ($2, $3), with the pair that decodeCursor returns.
Below(o, c) ==
    \/ createdAt[o] < reader[c].at
    \/ createdAt[o] = reader[c].at /\ o < reader[c].id

\* Mutant: OFFSET, by the number of orders the client already has.
RemainingByOffset(c) ==
    LET newer(o) == {q \in Mine(c) : \/ createdAt[q] > createdAt[o]
                                     \/ createdAt[q] = createdAt[o] /\ q > o}
        given == {q \in Orders : shown[c][q] > 0}
    IN  {o \in Mine(c) : Cardinality(newer(o)) >= Cardinality(given)}

\* The rows that match WHERE.  Without a cursor, those of the customer.
Remaining(c) == {o \in Mine(c) : reader[c].phase = "idle" \/ Below(o, c)}

Newer(o, q) ==
    createdAt[o] > createdAt[q] \/ (createdAt[o] = createdAt[q] /\ o > q)

\* ORDER BY created_at DESC, id DESC: the rows the scan returns first.
IsHead(page, rows) ==
    /\ page \subseteq rows
    /\ \A o \in page, q \in rows \ page : Newer(o, q)

IsPage(page, rows, limit) ==
    /\ IsHead(page, rows)
    /\ Cardinality(page) <= limit
    /\ page = rows \/ Cardinality(page) = limit

\* Mutant: orders[0] instead of orders[len(orders)-1].
FirstOf(o, page) == o \in page /\ \A q \in page \ {o} : Newer(o, q)

LastOf(o, page) == o \in page /\ \A q \in page \ {o} : Newer(q, o)

\* Mutant: the length is compared with the limit as it was asked for.
MorePagesUnclamped(page, limit) == Cardinality(page) = limit

\* Mutant: a short page carries a cursor as well.
MorePagesAlways(page, limit) == Cardinality(page) <= PageSize(limit)

MorePages(page, limit) == Cardinality(page) = PageSize(limit)

Given(c, page) ==
    /\ shown' = [shown EXCEPT ![c] =
                    [o \in Orders |-> IF o \in page THEN @[o] + 1 ELSE @[o]]]
    /\ base' = IF reader[c].phase = "idle" THEN [base EXCEPT ![c] = Mine(c)] ELSE base
    /\ UNCHANGED <<createdAt, table>>

Follows(c) == reader[c].phase \in {"idle", "next"}

\* A full page carries the key of its last row as the next cursor, a shorter
\* one carries none and the client is done.
ListByCustomer(c, limit) ==
    /\ Follows(c)
    /\ \E page \in SUBSET Remaining(c) :
         /\ IsPage(page, Remaining(c), PageSize(limit))
         /\ Given(c, page)
         /\ IF MorePages(page, limit)
              THEN \E o \in page :
                     /\ LastOf(o, page)
                     /\ reader' = [reader EXCEPT ![c] =
                            [phase |-> "next", at |-> createdAt[o], id |-> o]]
              ELSE reader' = [reader EXCEPT ![c].phase = "over"]

\* The connection to the database breaks between two rows: rows.Next returns
\* false, rows.Err is not asked, and what was read so far goes out as a page
\* without a cursor.
RowsCutOff(c, limit) ==
    /\ Follows(c)
    /\ \E page \in SUBSET Remaining(c) :
         /\ IsHead(page, Remaining(c))
         /\ page # Remaining(c)
         /\ Cardinality(page) < PageSize(limit)
         /\ Given(c, page)
         /\ reader' = [reader EXCEPT ![c].phase = "cut"]

\* The gateway asks for 20 orders, whatever its own client wants.
GatewayListOrders(c) == ListByCustomer(c, DefaultLimit)

\* The order service's own HTTP server passes the limit on; what is no number
\* counts as 0.
ListOrders(c) == \E limit \in Limits : ListByCustomer(c, limit)

-----------------------------------------------------------------------------
Next ==
    \/ \E o \in Orders, t \in Times : NewOrder(o, t)
    \/ \E o \in Orders : SaveWithEvent(o)
    \/ \E c \in Clients : \/ GatewayListOrders(c)
                          \/ ListOrders(c)
                          \/ \E limit \in Limits \cup {DefaultLimit} : RowsCutOff(c, limit)

Spec == Init /\ [][Next]_vars

\* A client that was given a cursor asks for the next page; nobody has to
\* begin a traversal.
FairSpec ==
    /\ Spec
    /\ \A c \in Clients : WF_vars(reader[c].phase = "next" /\ GatewayListOrders(c))

-----------------------------------------------------------------------------
(* Properties *)

Seen(c) == {o \in Orders : shown[c][o] > 0}

\* The cursor a client holds is the key of an order that it was shown and that
\* nothing it was shown is older than.
TypeOK ==
    /\ createdAt \in [Orders -> Times \cup {Unstamped}]
    /\ table \in SUBSET Orders
    /\ reader \in [Clients -> [phase : {"idle", "next", "over", "cut"},
                               at : Times \cup {0}, id : Orders \cup {0}]]
    /\ base \in [Clients -> SUBSET Orders]
    /\ shown \in [Clients -> [Orders -> Nat]]
    /\ \A c \in Clients : reader[c].phase = "next" =>
          /\ reader[c].id \in Seen(c)
          /\ createdAt[reader[c].id] = reader[c].at
          /\ \A o \in Seen(c) : ~Below(o, c)

\* No order is shown twice, and none of another customer or not committed,
\* whatever is committed between two pages and whatever clocks it was
\* stamped by (order_repo.go:158-168).
ShownOnce ==
    \A c \in Clients : /\ Seen(c) \subseteq Mine(c)
                       /\ \A o \in Orders : shown[c][o] <= 1

\* What a client has passed without being shown it was not there when the
\* client began: two orders with one created_at are told apart by their id,
\* also where the page ends between them (order_repo.go:185-189).
NothingSkipped ==
    \A c \in Clients : reader[c].phase = "next" =>
        \A o \in base[c] : o \in Seen(c) \/ Below(o, c)

\* Following the cursor comes to an end: the last page has none.
TraversalEnds ==
    \A c \in Clients : reader[c].phase = "next" ~> reader[c].phase \in {"over", "cut"}

\* The pages make up a traversal: "no more" is only said to a client that has
\* seen all that was there when it began, unless its page was cut off.
Visible == [c \in Clients |-> Mine(c)]
Phase   == [c \in Clients |-> reader[c].phase]

Listing == INSTANCE Traversal WITH visible <- Visible, due <- base, state <- Phase

ImplementsTraversal == Listing!Spec

=============================================================================
