------------------------- MODULE OrderListingProofs -------------------------
(***************************************************************************)
(* A list can be paged through by key while it grows: for any orders,      *)
(* clocks, page sizes and clients.                                         *)
(***************************************************************************)
EXTENDS OrderListing, FiniteSetTheorems, TLAPS

\* A committed row has its key, and keys do not change.
RowsHaveKeys == \A o \in table : createdAt[o] # Unstamped

\* Before its first page a client was shown nothing and is owed nothing.
IdleIsFresh ==
    \A c \in Clients : reader[c].phase = "idle" =>
        base[c] = {} /\ \A o \in Orders : shown[c][o] = 0

BaseIsVisible == \A c \in Clients : base[c] \subseteq Mine(c)

IndInv ==
    /\ TypeOK
    /\ RowsHaveKeys
    /\ IdleIsFresh
    /\ BaseIsVisible
    /\ ShownOnce
    /\ NothingSkipped

-----------------------------------------------------------------------------
(* Keys *)

LEMMA Stamps ==
    ASSUME TypeOK
    PROVE  /\ \A o \in Orders : o \in Int /\ createdAt[o] \in Int
           /\ \A c \in Clients : reader[c].at \in Int /\ reader[c].id \in Int
           /\ Unstamped \in Int
<1>1. Orders \subseteq Int /\ Times \cup {Unstamped} \subseteq Int
  BY OrderListingAssumption DEF Unstamped
<1>2. createdAt \in [Orders -> Times \cup {Unstamped}]
  BY DEF TypeOK
<1>3. ASSUME NEW c \in Clients
      PROVE  reader[c].at \in Times \cup {0} /\ reader[c].id \in Orders \cup {0}
  BY DEF TypeOK
<1> QED
  BY <1>1, <1>2, <1>3 DEF Unstamped

LEMMA SizePositive ==
    ASSUME NEW limit \in Int
    PROVE  PageSize(limit) \in Nat /\ PageSize(limit) >= 1
  BY OrderListingAssumption DEF PageSize

LEMMA FullPageNotEmpty ==
    ASSUME NEW page, NEW limit \in Int, Cardinality(page) = PageSize(limit)
    PROVE  page # {}
  BY SizePositive, FS_EmptySet

\* What is still ahead of a client was never shown to it.
LEMMA AheadIsNew ==
    ASSUME IndInv, NEW c \in Clients, Follows(c)
    PROVE  /\ Remaining(c) \subseteq Mine(c)
           /\ Remaining(c) \subseteq Orders
           /\ \A o \in Remaining(c) : shown[c][o] = 0
<1>1. Remaining(c) \subseteq Mine(c) /\ Mine(c) \subseteq Orders
  BY DEF Remaining, Mine, IndInv, TypeOK
<1>2. ASSUME NEW o \in Remaining(c) PROVE shown[c][o] = 0
  <2>1. CASE reader[c].phase = "idle"
    BY <1>1, <2>1 DEF IndInv, IdleIsFresh
  <2>2. CASE reader[c].phase = "next"
    <3>1. Below(o, c)
      BY <2>2 DEF Remaining
    <3> QED
      BY <1>1, <2>2, <3>1 DEF IndInv, TypeOK, Seen
  <2> QED
    BY <2>1, <2>2 DEF Follows
<1> QED
  BY <1>1, <1>2

\* What was there when the client began is shown to it or still ahead of it.
LEMMA BaseIsShownOrAhead ==
    ASSUME IndInv, NEW c \in Clients, Follows(c),
           NEW b, b = IF reader[c].phase = "idle" THEN Mine(c) ELSE base[c],
           NEW o \in b
    PROVE  o \in Seen(c) \/ o \in Remaining(c)
  BY DEF Follows, Remaining, IndInv, NothingSkipped, BaseIsVisible

-----------------------------------------------------------------------------
THEOREM InitInv == Init => IndInv
<1> SUFFICES ASSUME Init PROVE IndInv
  OBVIOUS
<1>1. TypeOK
  BY DEF Init, TypeOK
<1> QED
  BY <1>1 DEF Init, IndInv, RowsHaveKeys, IdleIsFresh, BaseIsVisible,
                    ShownOnce, NothingSkipped, Seen

-----------------------------------------------------------------------------
(* The list grows *)

\* An order without a row may get its key: nobody was shown it.
LEMMA NewOrderInv ==
    ASSUME IndInv, NEW o \in Orders, NEW t \in Times, NewOrder(o, t)
    PROVE  IndInv'
<1>1. o \notin table
  BY DEF NewOrder, IndInv, RowsHaveKeys
<1>2. \A q \in table : createdAt'[q] = createdAt[q]
  BY <1>1 DEF NewOrder, IndInv, TypeOK
<1>3. ASSUME NEW c \in Clients
      PROVE  /\ Mine(c)' = Mine(c) /\ Seen(c)' = Seen(c)
             /\ Mine(c) \subseteq table /\ Seen(c) \subseteq table
  BY DEF NewOrder, Mine, Seen, IndInv, ShownOnce
<1>4. ASSUME NEW c \in Clients, NEW q \in table
      PROVE  Below(q, c)' <=> Below(q, c)
  BY <1>2 DEF NewOrder, Below
<1>5. TypeOK'
  <2>1. createdAt' \in [Orders -> Times \cup {Unstamped}]
    BY DEF NewOrder, IndInv, TypeOK
  <2>2. ASSUME NEW c \in Clients, reader[c].phase = "next"
        PROVE  /\ reader[c].id \in Seen(c)'
               /\ createdAt'[reader[c].id] = reader[c].at
               /\ \A q \in Seen(c)' : ~Below(q, c)'
    <3>1. /\ reader[c].id \in Seen(c)
          /\ createdAt[reader[c].id] = reader[c].at
          /\ \A q \in Seen(c) : ~Below(q, c)
      BY <2>2 DEF IndInv, TypeOK
    <3> QED
      BY <1>2, <1>3, <1>4, <3>1
  <2> QED
    BY <2>1, <2>2 DEF NewOrder, IndInv, TypeOK
<1> QED
  BY <1>1, <1>2, <1>3, <1>4, <1>5 DEF NewOrder, IndInv, RowsHaveKeys, IdleIsFresh,
     BaseIsVisible, ShownOnce, NothingSkipped

LEMMA SaveWithEventInv ==
    ASSUME IndInv, NEW o \in Orders, SaveWithEvent(o)
    PROVE  IndInv'
<1>1. ASSUME NEW c \in Clients
      PROVE  /\ Mine(c) \subseteq Mine(c)' /\ Seen(c)' = Seen(c)
             /\ \A q \in Orders : Below(q, c)' <=> Below(q, c)
  BY DEF SaveWithEvent, Mine, Seen, Below
<1>2. TypeOK'
  <2>1. \A c \in Clients : Seen(c) \subseteq Orders
    BY DEF Seen
  <2> QED
    BY <1>1, <2>1 DEF SaveWithEvent, IndInv, TypeOK
<1>3. RowsHaveKeys'
  BY DEF SaveWithEvent, IndInv, RowsHaveKeys
<1>4. BaseIsVisible'
  BY <1>1 DEF SaveWithEvent, IndInv, BaseIsVisible
<1>5. ShownOnce'
  BY <1>1 DEF SaveWithEvent, IndInv, ShownOnce
<1>6. NothingSkipped'
  <2>1. \A c \in Clients : base[c] \subseteq Orders
    BY DEF IndInv, TypeOK
  <2> QED
    BY <1>1, <2>1 DEF SaveWithEvent, IndInv, NothingSkipped
<1> QED
  BY <1>2, <1>3, <1>4, <1>5, <1>6 DEF SaveWithEvent, IndInv, IdleIsFresh

-----------------------------------------------------------------------------
(* A page is given out *)

\* The facts that hold however the page ends.
LEMMA GivenPage ==
    ASSUME IndInv, NEW c \in Clients, Follows(c),
           NEW page \in SUBSET Remaining(c), Given(c, page)
    PROVE  /\ shown' \in [Clients -> [Orders -> Nat]]
           /\ base' \in [Clients -> SUBSET Orders]
           /\ \A d \in Clients : Mine(d)' = Mine(d) /\ base'[d] \subseteq Mine(d)
           /\ \A d \in Clients : d # c => base'[d] = base[d] /\ shown'[d] = shown[d]
           /\ base'[c] = IF reader[c].phase = "idle" THEN Mine(c) ELSE base[c]
           /\ Seen(c)' = Seen(c) \cup page
           /\ ShownOnce'
<1>1. /\ Remaining(c) \subseteq Mine(c) /\ Mine(c) \subseteq Orders
      /\ \A o \in Remaining(c) : shown[c][o] = 0
  BY AheadIsNew DEF Mine, IndInv, TypeOK
<1>2. shown \in [Clients -> [Orders -> Nat]] /\ base \in [Clients -> SUBSET Orders]
  BY DEF IndInv, TypeOK
<1>3. \A o \in Orders : shown'[c][o] = IF o \in page THEN shown[c][o] + 1 ELSE shown[c][o]
  BY <1>2 DEF Given
<1>4. shown' \in [Clients -> [Orders -> Nat]]
  BY <1>2 DEF Given
<1>5. base' \in [Clients -> SUBSET Orders]
  BY <1>1, <1>2 DEF Given
<1>6. \A d \in Clients : d # c => base'[d] = base[d] /\ shown'[d] = shown[d]
  BY <1>2 DEF Given
<1>7. base'[c] = IF reader[c].phase = "idle" THEN Mine(c) ELSE base[c]
  BY <1>2 DEF Given
<1>8. \A d \in Clients : Mine(d)' = Mine(d)
  BY DEF Given, Mine
<1>9. \A d \in Clients : base'[d] \subseteq Mine(d)
  BY <1>6, <1>7 DEF IndInv, BaseIsVisible
<1>10. Seen(c)' = Seen(c) \cup page
  BY <1>1, <1>2, <1>3 DEF Seen
<1>11. ShownOnce'
  <2>1. ASSUME NEW d \in Clients
        PROVE  Seen(d)' \subseteq Mine(d) /\ \A o \in Orders : shown'[d][o] <= 1
    <3>1. CASE d = c
      <4>1. Seen(c) \subseteq Mine(c) /\ \A o \in Orders : shown[c][o] <= 1
        BY DEF IndInv, ShownOnce
      <4> QED
        BY <1>1, <1>2, <1>3, <1>10, <3>1, <4>1
    <3>2. CASE d # c
      BY <1>6, <3>2 DEF IndInv, ShownOnce, Seen
    <3> QED
      BY <3>1, <3>2
  <2> QED
    BY <1>8, <2>1 DEF ShownOnce
<1> QED
  BY <1>4, <1>5, <1>6, <1>7, <1>8, <1>9, <1>10, <1>11

\* A client whose list ended, or was cut off, is promised nothing more.
LEMMA LastPageInv ==
    ASSUME IndInv, NEW c \in Clients, Follows(c),
           NEW page \in SUBSET Remaining(c), Given(c, page),
           NEW end \in {"over", "cut"},
           reader' = [reader EXCEPT ![c].phase = end]
    PROVE  IndInv'
<1>1. /\ reader'[c].phase = end
      /\ \A d \in Clients : d # c => reader'[d] = reader[d]
      /\ reader' \in [Clients -> [phase : {"idle", "next", "over", "cut"},
                                 at : Times \cup {0}, id : Orders \cup {0}]]
  BY DEF IndInv, TypeOK
<1>2. \A d \in Clients : d # c => \A o \in Orders : Below(o, d)' <=> Below(o, d)
  BY <1>1 DEF Given, Below
<1>3. TypeOK'
  <2>1. \A d \in Clients : d # c => Seen(d)' = Seen(d) /\ Seen(d) \subseteq Orders
    BY GivenPage DEF Seen
  <2>2. \A d \in Clients : reader'[d].phase = "next" =>
            reader[d].phase = "next" /\ reader'[d] = reader[d] /\ d # c
    BY <1>1
  <2>3. createdAt' = createdAt /\ table' = table
    BY DEF Given
  <2>4. /\ shown' \in [Clients -> [Orders -> Nat]]
        /\ base' \in [Clients -> SUBSET Orders]
    BY GivenPage
  <2> QED
    BY <1>1, <1>2, <2>1, <2>2, <2>3, <2>4 DEF IndInv, TypeOK
<1>4. IdleIsFresh'
  BY <1>1, GivenPage DEF IndInv, IdleIsFresh
<1>5. NothingSkipped'
  <2>1. \A d \in Clients : base'[d] \subseteq Orders
    BY GivenPage
  <2> QED
    BY <1>1, <1>2, <2>1, GivenPage DEF IndInv, NothingSkipped, Seen
<1>6. RowsHaveKeys' /\ BaseIsVisible'
  <2>1. RowsHaveKeys'
    BY DEF Given, IndInv, RowsHaveKeys
  <2>2. \A d \in Clients : Mine(d)' = Mine(d) /\ base'[d] \subseteq Mine(d)
    BY GivenPage
  <2> QED
    BY <2>1, <2>2 DEF BaseIsVisible
<1> QED
  BY <1>3, <1>4, <1>5, <1>6, GivenPage DEF IndInv

\* A full page leaves the client with the key of its last row.
LEMMA FullPageInv ==
    ASSUME IndInv, NEW c \in Clients, Follows(c),
           NEW page \in SUBSET Remaining(c), Given(c, page),
           IsHead(page, Remaining(c)),
           NEW o \in page, LastOf(o, page),
           reader' = [reader EXCEPT ![c] =
                        [phase |-> "next", at |-> createdAt[o], id |-> o]]
    PROVE  IndInv'
<1>1. page \subseteq Orders /\ Remaining(c) \subseteq Orders /\ page \subseteq Mine(c)
  BY AheadIsNew
<1>2. createdAt \in [Orders -> Times \cup {Unstamped}]
  BY DEF IndInv, TypeOK
<1>3. /\ reader'[c] = [phase |-> "next", at |-> createdAt[o], id |-> o]
      /\ \A d \in Clients : d # c => reader'[d] = reader[d]
  BY DEF IndInv, TypeOK
<1>4. reader' \in [Clients -> [phase : {"idle", "next", "over", "cut"},
                              at : Times \cup {0}, id : Orders \cup {0}]]
  BY <1>1, <1>2 DEF IndInv, TypeOK, Unstamped
<1>5. \A d \in Clients : d # c => \A q \in Orders : Below(q, d)' <=> Below(q, d)
  BY <1>3 DEF Given, Below
<1>6. \A q \in Orders : Below(q, c)' <=>
          createdAt[q] < createdAt[o] \/ (createdAt[q] = createdAt[o] /\ q < o)
  BY <1>3 DEF Given, Below
<1>7. ASSUME NEW q \in Seen(c)' PROVE ~Below(q, c)'
  <2>1. CASE q \in page
    BY <1>1, <1>6, <2>1, Stamps DEF LastOf, Newer, IndInv
  <2>2. CASE q \in Seen(c)
    <3>1. reader[c].phase = "next"
      BY <2>2 DEF Seen, IndInv, IdleIsFresh, Follows
    <3>2. ~Below(q, c) /\ q \in Orders
      BY <2>2, <3>1 DEF Seen, IndInv, TypeOK
    <3>3. Below(o, c) /\ o \in Orders
      BY <1>1, <3>1 DEF Remaining
    <3> QED
      BY <1>6, <3>2, <3>3, Stamps DEF Below, IndInv
  <2> QED
    BY <2>1, <2>2, GivenPage
<1>8. TypeOK'
  <2>1. ASSUME NEW d \in Clients, reader'[d].phase = "next"
        PROVE  /\ reader'[d].id \in Seen(d)'
               /\ createdAt'[reader'[d].id] = reader'[d].at
               /\ \A q \in Seen(d)' : ~Below(q, d)'
    <3>1. CASE d = c
      <4>1. o \in Seen(c)' /\ o \in Orders
        BY <1>1, GivenPage
      <4> QED
        BY <1>3, <1>7, <3>1, <4>1 DEF Given
    <3>2. CASE d # c
      BY <1>3, <1>5, <2>1, <3>2, GivenPage DEF Given, IndInv, TypeOK, Seen
    <3> QED
      BY <3>1, <3>2
  <2> QED
    BY <1>4, <2>1, GivenPage DEF Given, IndInv, TypeOK
<1>9. NothingSkipped'
  <2>1. ASSUME NEW d \in Clients, reader'[d].phase = "next", NEW q \in base'[d]
        PROVE  q \in Seen(d)' \/ Below(q, d)'
    <3>1. CASE d = c
      <4>1. q \in Seen(c) \/ q \in Remaining(c)
        BY <2>1, <3>1, GivenPage, BaseIsShownOrAhead
      <4>2. CASE q \in Remaining(c) \ page
        BY <1>1, <1>6, <3>1, <4>2, Stamps DEF IsHead, Newer, IndInv
      <4> QED
        BY <3>1, <4>1, <4>2, GivenPage
    <3>2. CASE d # c
      <4>1. q \in Orders /\ q \in base[d]
        BY <2>1, <3>2, GivenPage
      <4> QED
        BY <1>3, <1>5, <2>1, <3>2, <4>1, GivenPage DEF IndInv, NothingSkipped, Seen
    <3> QED
      BY <3>1, <3>2
  <2> QED
    BY <2>1 DEF NothingSkipped
<1>10. IdleIsFresh'
  BY <1>3, GivenPage DEF IndInv, IdleIsFresh
<1>11. RowsHaveKeys' /\ BaseIsVisible'
  <2>1. RowsHaveKeys'
    BY DEF Given, IndInv, RowsHaveKeys
  <2>2. \A d \in Clients : Mine(d)' = Mine(d) /\ base'[d] \subseteq Mine(d)
    BY GivenPage
  <2> QED
    BY <2>1, <2>2 DEF BaseIsVisible
<1> QED
  BY <1>8, <1>9, <1>10, <1>11, GivenPage DEF IndInv

-----------------------------------------------------------------------------
LEMMA ListByCustomerInv ==
    ASSUME IndInv, NEW c \in Clients, NEW limit \in Int, ListByCustomer(c, limit)
    PROVE  IndInv'
<1>1. PICK page \in SUBSET Remaining(c) :
          /\ IsPage(page, Remaining(c), PageSize(limit))
          /\ Given(c, page)
          /\ IF MorePages(page, limit)
               THEN \E o \in page :
                      /\ LastOf(o, page)
                      /\ reader' = [reader EXCEPT ![c] =
                             [phase |-> "next", at |-> createdAt[o], id |-> o]]
               ELSE reader' = [reader EXCEPT ![c].phase = "over"]
  BY DEF ListByCustomer
<1>2. Follows(c)
  BY DEF ListByCustomer
<1>3. CASE MorePages(page, limit)
  BY <1>1, <1>2, <1>3, FullPageInv DEF IsPage
<1>4. CASE ~MorePages(page, limit)
  BY <1>1, <1>2, <1>4, LastPageInv
<1> QED
  BY <1>3, <1>4

LEMMA RowsCutOffInv ==
    ASSUME IndInv, NEW c \in Clients, NEW limit, RowsCutOff(c, limit)
    PROVE  IndInv'
  BY LastPageInv DEF RowsCutOff

THEOREM InductiveStep == IndInv /\ [Next]_vars => IndInv'
<1> SUFFICES ASSUME IndInv, [Next]_vars PROVE IndInv'
  OBVIOUS
<1>1. ASSUME NEW o \in Orders, NEW t \in Times, NewOrder(o, t) PROVE IndInv'
  BY <1>1, NewOrderInv
<1>2. ASSUME NEW o \in Orders, SaveWithEvent(o) PROVE IndInv'
  BY <1>2, SaveWithEventInv
<1>3. ASSUME NEW c \in Clients, GatewayListOrders(c) \/ ListOrders(c) PROVE IndInv'
  BY <1>3, ListByCustomerInv, OrderListingAssumption DEF GatewayListOrders, ListOrders
<1>4. ASSUME NEW c \in Clients, NEW limit, RowsCutOff(c, limit) PROVE IndInv'
  BY <1>4, RowsCutOffInv
<1>5. CASE UNCHANGED vars
  BY <1>5 DEF vars, IndInv, TypeOK, RowsHaveKeys, IdleIsFresh, BaseIsVisible,
              ShownOnce, NothingSkipped, Mine, Seen, Below
<1> QED
  BY <1>1, <1>2, <1>3, <1>4, <1>5 DEF Next

\* The inductive invariant: keys are fixed once a row is committed, and every
\* client's cursor separates what it has from what is ahead of it.
THEOREM Invariant == Spec => []IndInv
  BY InitInv, InductiveStep, PTL DEF Spec

\* Every client's state is well formed, and its cursor is the key of the
\* oldest order that it was shown.
THEOREM TypeCorrect == Spec => []TypeOK
<1>1. IndInv => TypeOK
  BY DEF IndInv
<1> QED
  BY <1>1, Invariant, PTL

\* No order is shown twice or to the wrong customer, for any growth of the
\* list between two pages.
THEOREM NoRepetition == Spec => []ShownOnce
<1>1. IndInv => ShownOnce
  BY DEF IndInv
<1> QED
  BY <1>1, Invariant, PTL

\* A client never passes an order that was there when it began.
THEOREM NoGaps == Spec => []NothingSkipped
<1>1. IndInv => NothingSkipped
  BY DEF IndInv
<1> QED
  BY <1>1, Invariant, PTL

-----------------------------------------------------------------------------
(* Refinement *)

LEMMA InitRefines == Init => Listing!Init
  BY DEF Init, Listing!Init, Visible, Phase, Mine

LEMMA SeenIsSeen == ASSUME NEW c \in Clients PROVE Listing!Seen(c) = Seen(c)
  BY DEF Listing!Seen, Seen

LEMMA PlaceRefines ==
    ASSUME IndInv, NEW o \in Orders, SaveWithEvent(o)
    PROVE  Listing!Place
<1>1. \A c \in Clients : Mine(c) \subseteq Mine(c)' /\ Mine(c)' \subseteq Orders
  BY DEF SaveWithEvent, Mine, IndInv, TypeOK
<1> QED
  BY <1>1 DEF SaveWithEvent, Listing!Place, Visible, Phase

\* A page is a Show step; one that ends the list leaves nothing out.
LEMMA ShowRefines ==
    ASSUME IndInv, NEW c \in Clients, Follows(c),
           NEW page \in SUBSET Remaining(c), Given(c, page),
           NEW r, reader' = [reader EXCEPT ![c] = r],
           r.phase \in {"next", "over", "cut"},
           r.phase = "over" => page = Remaining(c)
    PROVE  Listing!Show(c)
<1>1. page \in SUBSET (Visible[c] \ Listing!Seen(c))
  BY AheadIsNew, SeenIsSeen DEF Visible, Seen
<1>2. Phase[c] \in {"idle", "next"}
  BY DEF Phase, Follows
<1>3. base' = IF Phase[c] = "idle" THEN [base EXCEPT ![c] = Visible[c]] ELSE base
  BY DEF Given, Phase, Visible
<1>4. Phase' = [Phase EXCEPT ![c] = r.phase]
  BY DEF Phase, IndInv, TypeOK
<1>5. ASSUME r.phase = "over"
      PROVE  base'[c] \subseteq Listing!Seen(c) \cup page
  BY <1>5, BaseIsShownOrAhead, GivenPage, SeenIsSeen
<1>6. Visible' = Visible
  BY GivenPage DEF Visible
<1> QED
  BY <1>1, <1>2, <1>3, <1>4, <1>5, <1>6 DEF Given, Listing!Show

LEMMA NextRefines == IndInv /\ [Next]_vars => [Listing!Next]_(Listing!vars)
<1> SUFFICES ASSUME IndInv, [Next]_vars PROVE [Listing!Next]_(Listing!vars)
  OBVIOUS
<1>1. ASSUME NEW o \in Orders, NEW t \in Times, NewOrder(o, t)
      PROVE  UNCHANGED Listing!vars
  BY <1>1 DEF NewOrder, Listing!vars, Visible, Phase, Mine
<1>2. ASSUME NEW o \in Orders, SaveWithEvent(o) PROVE Listing!Next
  BY <1>2, PlaceRefines DEF Listing!Next
<1>3. ASSUME NEW c \in Clients, NEW limit \in Int, ListByCustomer(c, limit)
      PROVE  Listing!Show(c)
  <2>1. PICK page \in SUBSET Remaining(c) :
            /\ IsPage(page, Remaining(c), PageSize(limit))
            /\ Given(c, page)
            /\ IF MorePages(page, limit)
                 THEN \E o \in page :
                        /\ LastOf(o, page)
                        /\ reader' = [reader EXCEPT ![c] =
                               [phase |-> "next", at |-> createdAt[o], id |-> o]]
                 ELSE reader' = [reader EXCEPT ![c].phase = "over"]
    BY <1>3 DEF ListByCustomer
  <2>2. Follows(c)
    BY <1>3 DEF ListByCustomer
  <2>3. CASE MorePages(page, limit)
    <3>1. PICK o \in page : reader' = [reader EXCEPT ![c] =
                               [phase |-> "next", at |-> createdAt[o], id |-> o]]
      BY <2>1, <2>3
    <3> QED
      BY <2>1, <2>2, <3>1, ShowRefines
  <2>4. CASE ~MorePages(page, limit)
    <3>1. page = Remaining(c)
      BY <2>1, <2>4 DEF IsPage, MorePages
    <3>2. reader' = [reader EXCEPT ![c] = [reader[c] EXCEPT !.phase = "over"]]
      BY <2>1, <2>4
    <3>3. [reader[c] EXCEPT !.phase = "over"].phase = "over"
      BY DEF IndInv, TypeOK
    <3> QED
      BY <2>1, <2>2, <3>1, <3>2, <3>3, ShowRefines
  <2> QED
    BY <2>3, <2>4
<1>4. ASSUME NEW c \in Clients, NEW limit, RowsCutOff(c, limit) PROVE Listing!Show(c)
  <2>1. PICK page \in SUBSET Remaining(c) :
            Given(c, page) /\ reader' = [reader EXCEPT ![c].phase = "cut"]
    BY <1>4 DEF RowsCutOff
  <2>2. reader' = [reader EXCEPT ![c] = [reader[c] EXCEPT !.phase = "cut"]]
    BY <2>1
  <2>3. [reader[c] EXCEPT !.phase = "cut"].phase = "cut"
    BY DEF IndInv, TypeOK
  <2> QED
    BY <1>4, <2>1, <2>2, <2>3, ShowRefines DEF RowsCutOff
<1>5. CASE UNCHANGED vars
  BY <1>5 DEF vars, Listing!vars, Visible, Phase, Mine
<1> QED
  BY <1>1, <1>2, <1>3, <1>4, <1>5, OrderListingAssumption
     DEF Next, Listing!Next, GatewayListOrders, ListOrders

\* Paging through the list by key is a traversal: a client that is told there
\* is no more has seen all that was there when it began, each order once.
THEOREM Refinement == Spec => ImplementsTraversal
<1>1. Init => Listing!Init
  BY InitRefines
<1>2. IndInv /\ [Next]_vars => [Listing!Next]_(Listing!vars)
  BY NextRefines
<1> QED
  BY <1>1, <1>2, Invariant, PTL DEF Spec, ImplementsTraversal, Listing!Spec

=============================================================================
