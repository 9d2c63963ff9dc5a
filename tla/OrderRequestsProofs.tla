------------------------ MODULE OrderRequestsProofs -------------------------
(***************************************************************************)
(* Proofs about OrderRequests, for any number of requests, carts and       *)
(* connections.                                                            *)
(***************************************************************************)
EXTENDS OrderRequests, Sums, TLAPS

-----------------------------------------------------------------------------
(***************************************************************************)
(* The total of a cart.  Total and Price fold the lines from the last one  *)
(* down; induction over the number of lines carries the two side by side.  *)
(***************************************************************************)

\* The lines of a cart that the binding rules let through.
LEMMA LinesOf ==
    ASSUME NEW c \in Carts, Valid(c)
    PROVE  /\ Len(c) \in Nat \ {0} /\ DOMAIN c = 1..Len(c) /\ IsFiniteSet(1..Len(c))
           /\ \A i \in 1..Len(c) :
                 /\ c[i].price \in Nat \ {0} /\ c[i].quantity \in Nat \ {0}
                 /\ c[i].currency \in STRING
<1> DEFINE Lines == [price : Int, quantity : Int, currency : STRING, fits : BOOLEAN]
<1>1. c \in Seq(Lines) /\ c # <<>>
  BY OrderRequestsAssumption DEF Valid
<1>2. Len(c) \in Nat /\ DOMAIN c = 1..Len(c) /\ \A i \in 1..Len(c) : c[i] \in Lines
  <2> HIDE DEF Lines
  <2> QED
    BY <1>1
<1>3. Len(c) # 0
  BY <1>1, <1>2
<1>4. \A i \in 1..Len(c) : c[i].price > 0 /\ c[i].quantity > 0
  BY <1>2 DEF Valid
<1>5. \A i \in 1..Len(c) : /\ c[i].price \in Int /\ c[i].quantity \in Int
                           /\ c[i].currency \in STRING
  BY <1>2
<1>6. \A i \in 1..Len(c) : c[i].price \in Nat \ {0} /\ c[i].quantity \in Nat \ {0}
  BY <1>4, <1>5
<1>7. IsFiniteSet(1..Len(c))
  BY <1>2, FS_Interval
<1> QED
  BY <1>2, <1>3, <1>5, <1>6, <1>7

\* The line that FoldLeft takes from a set of them.
LEMMA MaxIsElement ==
    ASSUME NEW n \in Nat, NEW T \in SUBSET (1..n), T # {}
    PROVE  Max(T) \in T
<1> DEFINE Bad == {k \in Nat : n - k \in T}
<1>1. Bad # {}
  <2>1. PICK m \in T : TRUE
    OBVIOUS
  <2>2. n - m \in Nat /\ n - (n - m) = m
    BY <2>1
  <2> QED
    BY <2>1, <2>2
<1>2. PICK k \in Bad : \A j \in Bad : ~(j < k)
  <2> Bad \in SUBSET Nat
    OBVIOUS
  <2> HIDE DEF Bad
  <2> QED
    BY <1>1, Least
<1>3. n - k \in T /\ k \in Nat
  BY <1>2
<1>4. ASSUME NEW y \in T PROVE n - k >= y
  <2>1. n - y \in Nat /\ n - (n - y) = y
    BY <1>4
  <2>2. n - y \in Bad
    BY <1>4, <2>1
  <2>3. ~(n - y < k)
    BY <1>2, <2>2
  <2> QED
    BY <1>3, <1>4, <2>1, <2>3
<1>5. \E x \in T : \A y \in T : x >= y
  BY <1>3, <1>4
<1> QED
  BY <1>5 DEF Max

LEMMA MaxOfFirst == \A n \in Nat : Max(1..(n + 1)) = n + 1 /\ (1..(n + 1)) \ {n + 1} = 1..n
<1> SUFFICES ASSUME NEW n \in Nat
             PROVE  Max(1..(n + 1)) = n + 1 /\ (1..(n + 1)) \ {n + 1} = 1..n
  OBVIOUS
<1> DEFINE T == 1..(n + 1)
<1>1. n + 1 \in T /\ \A y \in T : y <= n + 1 /\ y \in Int
  OBVIOUS
<1> HIDE DEF T
<1>2. Max(T) \in T /\ \A y \in T : Max(T) >= y
  <2>1. \E x \in T : \A y \in T : x >= y
    BY <1>1
  <2> QED
    BY <2>1 DEF Max
<1>3. Max(T) = n + 1
  BY <1>1, <1>2
<1>4. T \ {n + 1} = 1..n
  BY DEF T
<1> QED
  BY <1>3, <1>4 DEF T

LEMMA FirstLines ==
    \A m, n \in Nat : m < n => 1..(m + 1) \in SUBSET (1..n) /\ 1..(m + 1) # {}
<1> SUFFICES ASSUME NEW m \in Nat, NEW n \in Nat, m < n
             PROVE  1..(m + 1) \in SUBSET (1..n) /\ 1..(m + 1) # {}
  OBVIOUS
<1>1. \A y \in 1..(m + 1) : y \in 1..n
  OBVIOUS
<1>2. m + 1 \in 1..(m + 1)
  OBVIOUS
<1> QED
  BY <1>1, <1>2

LEMMA WrapType == \A n \in Int : Wrap(n, Limit) \in Int
BY OrderRequestsAssumption DEF Wrap

\* An amount that fits is left alone.
LEMMA WrapFits == \A n \in Nat : n < Limit => Wrap(n, Limit) = n
<1> SUFFICES ASSUME NEW n \in Nat, n < Limit PROVE Wrap(n, Limit) = n
  OBVIOUS
<1>1. Limit \in Nat \ {0}
  BY OrderRequestsAssumption
<1>2. (n + Limit) % (2 * Limit) = n + Limit
  BY <1>1
<1> QED
  BY <1>1, <1>2 DEF Wrap

Amounts == [amount : Int, currency : STRING]

\* Total adds the lines one by one.
LEMMA TotalUp ==
    ASSUME NEW c \in Carts, Valid(c)
    PROVE  \E f : /\ Total(c) = f[1..Len(c)]
                  /\ f[1..0] = Money(0, c[1].currency)
                  /\ \A m \in Nat : m < Len(c) =>
                        f[1..(m + 1)] = Add(f[1..m], Subtotal(c[m + 1]))
<1> DEFINE lines == 1..Len(c)
           base  == Money(0, c[1].currency)
           pick  == [T \in SUBSET lines |-> Max(T)]
           op    == [i \in lines |-> [v \in Amounts |-> Add(v, Subtotal(c[i]))]]
           IsTotal(f) == f = [T \in SUBSET (DOMAIN c) |->
               IF T = {} THEN Money(0, c[1].currency)
               ELSE Add(f[T \ {Max(T)}], Subtotal(c[Max(T)]))]
           fold == CHOOSE f : IsTotal(f)
<1>1. Total(c) = fold[DOMAIN c]
  BY DEF Total, FoldLeft, MapThenFoldSet
<1>2. Len(c) \in Nat \ {0} /\ DOMAIN c = lines /\ IsFiniteSet(lines)
  BY LinesOf
<1>3. base \in Amounts
  BY LinesOf DEF Money, Amounts
<1>4. \A i \in lines, v \in Amounts : Add(v, Subtotal(c[i])) \in Amounts
  <2> SUFFICES ASSUME NEW i \in lines, NEW v \in Amounts
               PROVE  Add(v, Subtotal(c[i])) \in Amounts
    OBVIOUS
  <2>1. c[i].price * c[i].quantity \in Int
    BY LinesOf
  <2>2. Subtotal(c[i]).amount \in Int
    BY <2>1, WrapType DEF Subtotal, Money
  <2>3. v.amount \in Int /\ v.currency \in STRING
    BY DEF Amounts
  <2> DEFINE w == Wrap(v.amount + Subtotal(c[i]).amount, Limit)
  <2>4. w \in Int
    <3>1. v.amount + Subtotal(c[i]).amount \in Int
      BY <2>2, <2>3
    <3> QED
      BY <3>1, WrapType
  <2>5. Add(v, Subtotal(c[i])) = [amount |-> w, currency |-> v.currency]
    BY DEF Add, Money
  <2> HIDE DEF w
  <2> QED
    BY <2>3, <2>4, <2>5 DEF Amounts
<1>5. \A i \in lines, v \in Amounts : op[i][v] = Add(v, Subtotal(c[i])) /\ op[i][v] \in Amounts
  BY <1>4
<1>6. \A T \in SUBSET lines : pick[T] = Max(T)
  OBVIOUS
<1>7. \A T \in SUBSET lines : T # {} => pick[T] \in T
  BY <1>2, <1>6, MaxIsElement
<1> HIDE DEF base, pick, op
<1>8. PICK g \in [SUBSET lines -> Amounts] : IsFoldOf(g, lines, base, pick, op)
  <2> HIDE DEF lines
  <2> QED
    BY <1>2, <1>3, <1>5, <1>7, FoldsExist
<1>9. IsTotal(g)
  <2>1. \A T \in SUBSET lines : T # {} =>
           op[pick[T]][g[T \ {pick[T]}]] = Add(g[T \ {Max(T)}], Subtotal(c[Max(T)]))
    BY <1>5, <1>6, <1>7
  <2>2. \A T \in SUBSET lines : g[T] = IF T = {} THEN Money(0, c[1].currency)
                                       ELSE Add(g[T \ {Max(T)}], Subtotal(c[Max(T)]))
    BY <1>8, <2>1 DEF IsFoldOf, base
  <2> HIDE DEF lines
  <2>3. g = [T \in SUBSET lines |-> IF T = {} THEN Money(0, c[1].currency)
                                    ELSE Add(g[T \ {Max(T)}], Subtotal(c[Max(T)]))]
    BY <1>8, <2>2
  <2> QED
    BY <1>2, <2>3
<1>10. IsTotal(fold)
  BY <1>9
<1> HIDE DEF fold
<1>11. \A T \in SUBSET lines : fold[T] = IF T = {} THEN Money(0, c[1].currency)
                                         ELSE Add(fold[T \ {Max(T)}], Subtotal(c[Max(T)]))
  BY <1>2, <1>10
<1>12. ASSUME NEW m \in Nat, m < Len(c)
       PROVE  fold[1..(m + 1)] = Add(fold[1..m], Subtotal(c[m + 1]))
  <2> DEFINE T == 1..(m + 1)
  <2>1. T \in SUBSET lines /\ T # {}
    BY <1>2, <1>12, FirstLines
  <2>2. Max(T) = m + 1 /\ T \ {m + 1} = 1..m
    BY MaxOfFirst
  <2> HIDE DEF T
  <2>3. fold[T] = Add(fold[T \ {Max(T)}], Subtotal(c[Max(T)]))
    BY <1>11, <2>1
  <2> QED
    BY <2>2, <2>3 DEF T
<1>13. fold[1..0] = Money(0, c[1].currency)
  <2>1. 1..0 = {} /\ {} \in SUBSET lines
    OBVIOUS
  <2> QED
    BY <1>11, <2>1
<1> QED
  BY <1>1, <1>2, <1>12, <1>13

\* So does the price, without a bound.
LEMMA PriceUp ==
    ASSUME NEW c \in Carts, Valid(c)
    PROVE  \E f : /\ Price(c) = f[1..Len(c)]
                  /\ f[1..0] = 0
                  /\ \A m \in Nat : m < Len(c) =>
                        f[1..(m + 1)] = f[1..m] + c[m + 1].price * c[m + 1].quantity
<1> DEFINE lines == 1..Len(c)
           pick  == [T \in SUBSET lines |-> Max(T)]
           op    == [i \in lines |-> [v \in Int |-> v + c[i].price * c[i].quantity]]
           IsPrice(f) == f = [T \in SUBSET (DOMAIN c) |->
               IF T = {} THEN 0
               ELSE f[T \ {Max(T)}] + c[Max(T)].price * c[Max(T)].quantity]
           fold == CHOOSE f : IsPrice(f)
<1>1. Price(c) = fold[DOMAIN c]
  BY DEF Price, FoldLeft, MapThenFoldSet
<1>2. Len(c) \in Nat \ {0} /\ DOMAIN c = lines /\ IsFiniteSet(lines)
  BY LinesOf
<1>3. 0 \in Int
  OBVIOUS
<1>4. \A i \in lines, v \in Int : v + c[i].price * c[i].quantity \in Int
  BY LinesOf
<1>5. \A i \in lines, v \in Int : /\ op[i][v] = v + c[i].price * c[i].quantity
                                  /\ op[i][v] \in Int
  BY <1>4
<1>6. \A T \in SUBSET lines : pick[T] = Max(T)
  OBVIOUS
<1>7. \A T \in SUBSET lines : T # {} => pick[T] \in T
  BY <1>2, <1>6, MaxIsElement
<1> HIDE DEF pick, op
<1>8. PICK g \in [SUBSET lines -> Int] : IsFoldOf(g, lines, 0, pick, op)
  <2> HIDE DEF lines
  <2> QED
    BY <1>2, <1>3, <1>5, <1>7, FoldsExist
<1>9. IsPrice(g)
  <2>1. \A T \in SUBSET lines : T # {} =>
           op[pick[T]][g[T \ {pick[T]}]]
             = g[T \ {Max(T)}] + c[Max(T)].price * c[Max(T)].quantity
    BY <1>5, <1>6, <1>7
  <2>2. \A T \in SUBSET lines : g[T] = IF T = {} THEN 0
           ELSE g[T \ {Max(T)}] + c[Max(T)].price * c[Max(T)].quantity
    BY <1>8, <2>1, Zenon DEF IsFoldOf
  <2> HIDE DEF lines
  <2>3. g = [T \in SUBSET lines |-> IF T = {} THEN 0
           ELSE g[T \ {Max(T)}] + c[Max(T)].price * c[Max(T)].quantity]
    BY <1>8, <2>2
  <2> QED
    BY <1>2, <2>3
<1>10. IsPrice(fold)
  BY <1>9
<1> HIDE DEF fold
<1>11. \A T \in SUBSET lines : fold[T] = IF T = {} THEN 0
          ELSE fold[T \ {Max(T)}] + c[Max(T)].price * c[Max(T)].quantity
  BY <1>2, <1>10
<1>12. ASSUME NEW m \in Nat, m < Len(c)
       PROVE  fold[1..(m + 1)] = fold[1..m] + c[m + 1].price * c[m + 1].quantity
  <2> DEFINE T == 1..(m + 1)
  <2>1. T \in SUBSET lines /\ T # {}
    BY <1>2, <1>12, FirstLines
  <2>2. Max(T) = m + 1 /\ T \ {m + 1} = 1..m
    BY MaxOfFirst
  <2> HIDE DEF T
  <2>3. fold[T] = fold[T \ {Max(T)}] + c[Max(T)].price * c[Max(T)].quantity
    BY <1>11, <2>1
  <2> QED
    BY <2>2, <2>3 DEF T
<1>13. fold[1..0] = 0
  <2>1. 1..0 = {} /\ {} \in SUBSET lines
    OBVIOUS
  <2> QED
    BY <1>11, <2>1
<1> QED
  BY <1>1, <1>2, <1>12, <1>13

\* A total is in the currency of the first line, and exact if the price fits:
\* then every subtotal and every partial sum on the way to it fits too.
LEMMA TotalFits ==
    ASSUME NEW c \in Carts, Valid(c)
    PROVE  /\ Total(c).currency = c[1].currency
           /\ Price(c) < Limit => Total(c).amount = Price(c)
<1>1. PICK t : /\ Total(c) = t[1..Len(c)]
               /\ t[1..0] = Money(0, c[1].currency)
               /\ \A m \in Nat : m < Len(c) =>
                     t[1..(m + 1)] = Add(t[1..m], Subtotal(c[m + 1]))
  BY TotalUp
<1>2. PICK p : /\ Price(c) = p[1..Len(c)]
               /\ p[1..0] = 0
               /\ \A m \in Nat : m < Len(c) =>
                     p[1..(m + 1)] = p[1..m] + c[m + 1].price * c[m + 1].quantity
  BY PriceUp
<1>3. Len(c) \in Nat
  BY LinesOf
<1>4. Limit \in Nat
  BY OrderRequestsAssumption
<1> DEFINE Exact(m) == /\ p[1..m] \in Nat
                       /\ t[1..m].currency = c[1].currency
                       /\ p[1..m] < Limit => t[1..m].amount = p[1..m]
           Good == {m \in Nat : m <= Len(c) => Exact(m)}
<1>5. 0 \in Good
  BY <1>1, <1>2 DEF Money
<1>6. ASSUME NEW m \in Nat, m \in Good PROVE m + 1 \in Good
  <2> SUFFICES ASSUME m + 1 <= Len(c) PROVE Exact(m + 1)
    OBVIOUS
  <2>1. m < Len(c) /\ m <= Len(c) /\ m + 1 \in 1..Len(c)
    BY <1>3
  <2>2. Exact(m)
    BY <1>6, <2>1
  <2> DEFINE line == c[m + 1]
             s == c[m + 1].price * c[m + 1].quantity
  <2>3. s \in Nat
    BY <2>1, LinesOf
  <2>4. /\ t[1..(m + 1)] = Add(t[1..m], Subtotal(line))
        /\ p[1..(m + 1)] = p[1..m] + s
    BY <1>1, <1>2, <2>1
  <2> HIDE DEF s
  <2>5. p[1..(m + 1)] \in Nat /\ p[1..m] <= p[1..(m + 1)] /\ s <= p[1..(m + 1)]
    BY <2>2, <2>3, <2>4
  <2>6. t[1..(m + 1)] = Money(Wrap(t[1..m].amount + Subtotal(line).amount, Limit),
                              t[1..m].currency)
    BY <2>4 DEF Add
  <2>7. ASSUME p[1..(m + 1)] < Limit
        PROVE  t[1..(m + 1)].amount = p[1..(m + 1)]
    <3>1. t[1..m].amount = p[1..m]
      BY <1>4, <2>2, <2>5, <2>7
    <3>2. Subtotal(line).amount = s
      <4>1. s < Limit
        BY <1>4, <2>3, <2>5, <2>7
      <4>2. Wrap(s, Limit) = s
        BY <2>3, <4>1, WrapFits
      <4> QED
        BY <4>2 DEF Subtotal, Money, s
    <3>3. Wrap(p[1..m] + s, Limit) = p[1..(m + 1)]
      BY <2>4, <2>5, <2>7, WrapFits
    <3> QED
      BY <2>6, <3>1, <3>2, <3>3 DEF Money
  <2>8. t[1..(m + 1)].currency = c[1].currency
    BY <2>2, <2>6 DEF Money
  <2> QED
    BY <2>5, <2>7, <2>8
<1>7. Len(c) \in Good
  <2> HIDE DEF Good
  <2> QED
    BY <1>3, <1>5, <1>6, NatByStep
<1> QED
  BY <1>1, <1>2, <1>3, <1>7

Active(r)   == server[r] \notin {"none", "done"}
Handling(r) == gateway[r] \notin {"none", "done"}
Failing     == "db" \in faults \/ service.late

\* A POST goes through the states of a POST, and a GET through those of a GET.
KindOK(r) ==
    /\ r \in Creates => server[r] \notin {"row", "items", "short"} /\ gateway[r] # "Short"
    /\ r \in Gets => /\ server[r] \notin {"reading", "begin", "tx", "ErrEmptyItems"}
                     /\ gateway[r] \notin {"reading", "InvalidArgument"}
    /\ r \in Creates /\ client[r] # "new" => cart[r] \in Carts

\* How far each end of a call can be, as the other end sees it.
EndsOK(r) ==
    /\ via[r] = "none" <=> client[r] = "new"
    /\ via[r] # "gateway" => gateway[r] = "none"
    /\ via[r] = "none" \/ client[r] = "refused" => gateway[r] = "none" /\ server[r] = "none"
    /\ via[r] = "gateway" /\ gateway[r] \in {"none", "reading", "calling"} => server[r] = "none"
    /\ via[r] = "gateway" => server[r] # "reading"
    /\ gateway[r] = "waiting" => /\ server[r] # "none"
                                 /\ Active(r) \/ ConnectionBroken
    /\ via[r] = "direct" /\ client[r] = "sent" => Active(r)
    /\ via[r] = "gateway" /\ client[r] = "sent" => Handling(r)
    /\ client[r] \in {"400", "503"} => gateway[r] \in {"none", "done"}
    /\ client[r] = "400" => ~Active(r)
    /\ gateway[r] = "InvalidArgument" => ~Active(r)

\* What a result stands for, on its way back to the client.
Unwritten(r) == \/ server[r] \in {"none", "reading", "begin", "tx", "ErrEmptyItems"}
                \/ gateway[r] = "InvalidArgument"
Written(r)   == server[r] = "ok" \/ gateway[r] = "OK"
Found(r)     == \/ server[r] \in {"items", "ok", "short"}
                \/ gateway[r] \in {"OK", "Short"}
                \/ r \in knows

RowOK(r) ==
    /\ r \in Creates => /\ Written(r) => stored[r] = <<Total(cart[r])>>
                        /\ Unwritten(r) => stored[r] = NoRow
    /\ r \in Gets => (Found(r) => stored[TargetOf[r]] # NoRow)

\* Why a handler can be in trouble although its process stops in good order.
StopOK(r) ==
    /\ via[r] = "direct" /\ Active(r) /\ service.phase \notin {"up", "http"} => service.late
    /\ via[r] = "gateway" /\ Active(r) /\ service.phase \in {"pool", "exit"} => service.forced
    /\ gateway[r] = "waiting" /\ service.phase = "down" => service.late \/ "kill" \in faults
    /\ service.phase = "down" => ~Active(r)
    /\ Handling(r) /\ front.phase \in {"closing", "down"} => front.late

\* The excuse an error carries, from where it comes up to the client.
Excuse(r) ==
    Failing \/ (r \in Creates /\ ~Storable(cart[r])) \/ r \in Gets \ knows

ErrorOK(r) ==
    /\ server[r] = "error" => \/ Excuse(r)
                              \/ via[r] = "direct" /\ client[r] = "left"
                              \/ via[r] = "gateway" /\ (gateway[r] # "waiting" \/ service.forced)
    /\ gateway[r] = "Internal" => Excuse(r)
    /\ gateway[r] = "Canceled" => client[r] = "left" \/ front.phase \in {"closing", "down"}
    /\ gateway[r] = "Unavailable" => /\ service.phase # "up"
                                     /\ server[r] = "none" \/ service.late \/ "kill" \in faults
    /\ server[r] = "short" /\ gateway[r] = "waiting" => service.forced \/ "db" \in faults
    /\ gateway[r] = "Short" => "db" \in faults

ForcedIsLate ==
    service.forced => service.late /\ service.phase \in {"pool", "exit", "down"}

\* CreatedIsStored for one request ...
Told(r) ==
    /\ r \in Creates => /\ client[r] = "201" => stored[r] = <<Total(cart[r])>>
                        /\ client[r] \in {"new", "400", "refused"} => stored[r] = NoRow
    /\ r \in Gets /\ client[r] \in {"200", "short"} => stored[TargetOf[r]] # NoRow

\* ... and FailureIsExcused.
Excused(r) ==
    /\ client[r] = "500" => Excuse(r) \/ front.late
    /\ client[r] = "404" => Failing \/ r \in Gets \ knows
    /\ client[r] = "503" => /\ service.phase # "up"
                            /\ server[r] = "none" \/ service.late \/ "kill" \in faults
    /\ client[r] = "reset" => IF via[r] = "direct" THEN service.late \/ "kill" \in faults
                                                  ELSE front.late
    /\ client[r] = "short" => "db" \in faults

RequestOK(r) ==
    KindOK(r) /\ EndsOK(r) /\ RowOK(r) /\ StopOK(r) /\ ErrorOK(r) /\ Told(r) /\ Excused(r)

IndInv == TypeOK /\ ForcedIsLate /\ \A r \in Requests : RequestOK(r)

\* Only a cart that obeys the binding rules comes as far as the transaction,
\* and a row has the total of the one that was sent.
ChargedOK(o) ==
    /\ server[o] \in {"begin", "tx"} \/ gateway[o] = "calling" => Valid(cart[o])
    /\ stored[o] # NoRow => stored[o] = <<Total(cart[o])>> /\ Valid(cart[o])

Charged == \A o \in Creates : ChargedOK(o)

-----------------------------------------------------------------------------
\* What the invariant says of the properties that the runs check.
LEMMA Consequences == IndInv => TypeOK /\ CreatedIsStored /\ FailureIsExcused
<1> SUFFICES ASSUME IndInv PROVE TypeOK /\ CreatedIsStored /\ FailureIsExcused
  OBVIOUS
<1>1. TypeOK
  BY DEF IndInv
<1>2. CreatedIsStored
  BY DEF IndInv, RequestOK, Told, CreatedIsStored, Requests
<1>3. FailureIsExcused
  BY DEF IndInv, RequestOK, Excused, FailureIsExcused, Excuse, Failing
<1> QED
  BY <1>1, <1>2, <1>3

\* No request, no row, both processes up.
LEMMA InvInit == Init => IndInv
<1> SUFFICES ASSUME Init PROVE IndInv
  OBVIOUS
<1>1. TypeOK
  BY DEF Init, TypeOK, ClientStates, GatewayStates, ServerStates, OpenTx
<1>2. ForcedIsLate
  BY DEF Init, ForcedIsLate
<1>3. ASSUME NEW r \in Requests PROVE RequestOK(r)
  BY <1>3, OrderRequestsAssumption DEF Init, RequestOK, KindOK, EndsOK, RowOK, StopOK, ErrorOK, Told,
     Excused, Unwritten, Written, Found, Active, Handling, Requests
<1> QED
  BY <1>1, <1>2, <1>3 DEF IndInv

-----------------------------------------------------------------------------
(***************************************************************************)
(* One lemma per action, each with a step per part of the invariant.  Most *)
(* steps need the part itself and EndsOK, which keeps the two ends of a    *)
(* call together; RowOK needs Told where a GET is sent after the 201.      *)
(***************************************************************************)

LEMMA SendInv ==
  ASSUME IndInv, NEW r \in Requests, NEW v \in {"gateway", "direct"},
         NEW c \in IF r \in Creates THEN Carts ELSE {<<>>}, Send(r, v, c)
  PROVE  IndInv'
<1> USE DEF Send, Listening, request
<1>1. TypeOK'
  BY OrderRequestsAssumption DEF IndInv, TypeOK, ClientStates, GatewayStates,
     GRPCCodes, ServerStates, Results, OpenTx
<1>2. ForcedIsLate'
  BY DEF IndInv, TypeOK, ForcedIsLate
<1>3. ASSUME NEW q \in Requests PROVE RequestOK(q)'
  <2>1. KindOK(q)'
    BY OrderRequestsAssumption DEF IndInv, RequestOK, TypeOK, KindOK,
       Requests, GRPCCodes, Results
  <2>2. EndsOK(q)'
    BY OrderRequestsAssumption DEF IndInv, RequestOK, TypeOK, EndsOK, KindOK,
       Active, Handling, ConnectionBroken, ForcedIsLate, GRPCCodes, Results
  <2>3. RowOK(q)'
    <3>1. r \in Gets => TargetOf[r] \in Creates /\ Told(TargetOf[r])
      BY OrderRequestsAssumption DEF IndInv, RequestOK, Requests
    <3>2. ASSUME r \in Gets, client[TargetOf[r]] = "201"
          PROVE  stored[TargetOf[r]] # NoRow
      <4>1. stored[TargetOf[r]] = <<Total(cart[TargetOf[r]])>>
        BY <3>1, <3>2 DEF Told
      <4> QED
        BY <4>1 DEF NoRow
    <3>3. RowOK(q)
      BY DEF IndInv, RequestOK
    <3> QED
      BY <3>2, <3>3, OrderRequestsAssumption DEF IndInv, RequestOK, TypeOK,
         RowOK, KindOK, EndsOK, Written, Unwritten, Found
  <2>4. StopOK(q)'
    BY DEF IndInv, RequestOK, TypeOK, StopOK, EndsOK, Active, Handling,
       ConnectionBroken, ForcedIsLate, GRPCCodes
  <2>5. ErrorOK(q)'
    BY OrderRequestsAssumption DEF IndInv, RequestOK, TypeOK, ErrorOK, EndsOK,
       KindOK, StopOK, Excuse, Failing, Active, ConnectionBroken,
       ForcedIsLate, RowOK, Found, Requests
  <2>6. Told(q)'
    BY OrderRequestsAssumption DEF IndInv, RequestOK, TypeOK, Told, RowOK,
       KindOK, EndsOK, Written, Unwritten, Found, Active
  <2>7. Excused(q)'
    BY OrderRequestsAssumption DEF IndInv, RequestOK, TypeOK, Excused,
       ErrorOK, StopOK, EndsOK, KindOK, Excuse, Failing, Active, Handling
  <2> QED
    BY <2>1, <2>2, <2>3, <2>4, <2>5, <2>6, <2>7 DEF RequestOK
<1> QED
  BY <1>1, <1>2, <1>3 DEF IndInv

LEMMA LeaveInv ==
  ASSUME IndInv, NEW r \in Requests, Leave(r)
  PROVE  IndInv'
<1> USE DEF Leave, Fault, request
<1>1. TypeOK'
  BY DEF IndInv, TypeOK, ClientStates, FaultKinds, OpenTx
<1>2. ForcedIsLate'
  BY DEF IndInv, TypeOK, ForcedIsLate
<1>3. ASSUME NEW q \in Requests PROVE RequestOK(q)'
  <2>1. KindOK(q)'
    BY OrderRequestsAssumption DEF IndInv, RequestOK, TypeOK, KindOK,
       Requests, GRPCCodes, Results
  <2>2. EndsOK(q)'
    BY OrderRequestsAssumption DEF IndInv, RequestOK, TypeOK, EndsOK, KindOK,
       Active, Handling, ConnectionBroken, ForcedIsLate, GRPCCodes, Results
  <2>3. RowOK(q)'
    BY OrderRequestsAssumption DEF IndInv, RequestOK, TypeOK, RowOK, KindOK,
       EndsOK, Told, Written, Unwritten, Found, Active
  <2>4. StopOK(q)'
    BY DEF IndInv, RequestOK, TypeOK, StopOK, EndsOK, Active, Handling,
       ConnectionBroken, ForcedIsLate, GRPCCodes
  <2>5. ErrorOK(q)'
    BY OrderRequestsAssumption DEF IndInv, RequestOK, TypeOK, ErrorOK, EndsOK,
       KindOK, StopOK, Excuse, Failing, Active, ConnectionBroken,
       ForcedIsLate, RowOK, Found, Requests
  <2>6. Told(q)'
    BY OrderRequestsAssumption DEF IndInv, RequestOK, TypeOK, Told, RowOK,
       KindOK, EndsOK, Written, Unwritten, Found, Active
  <2>7. Excused(q)'
    BY OrderRequestsAssumption DEF IndInv, RequestOK, TypeOK, Excused,
       ErrorOK, StopOK, EndsOK, KindOK, Excuse, Failing, Active, Handling
  <2> QED
    BY <2>1, <2>2, <2>3, <2>4, <2>5, <2>6, <2>7 DEF RequestOK
<1> QED
  BY <1>1, <1>2, <1>3 DEF IndInv

LEMMA GatewayBodyInv ==
  ASSUME IndInv, NEW r \in Requests, GatewayBody(r)
  PROVE  IndInv'
<1> USE DEF GatewayBody, Goto, Tell, request
<1>1. TypeOK'
  BY DEF IndInv, TypeOK, ClientStates, GatewayStates, GRPCCodes, OpenTx
<1>2. ForcedIsLate'
  BY DEF IndInv, TypeOK, ForcedIsLate
<1>3. ASSUME NEW q \in Requests PROVE RequestOK(q)'
  <2>1. KindOK(q)'
    BY OrderRequestsAssumption DEF IndInv, RequestOK, TypeOK, KindOK,
       Requests, GRPCCodes, Results
  <2>2. EndsOK(q)'
    BY OrderRequestsAssumption DEF IndInv, RequestOK, TypeOK, EndsOK, KindOK,
       Active, Handling, ConnectionBroken, ForcedIsLate, GRPCCodes, Results
  <2>3. RowOK(q)'
    BY OrderRequestsAssumption DEF IndInv, RequestOK, TypeOK, RowOK, KindOK,
       EndsOK, Told, Written, Unwritten, Found, Active
  <2>4. StopOK(q)'
    BY DEF IndInv, RequestOK, TypeOK, StopOK, EndsOK, Active, Handling,
       ConnectionBroken, ForcedIsLate, GRPCCodes
  <2>5. ErrorOK(q)'
    BY OrderRequestsAssumption DEF IndInv, RequestOK, TypeOK, ErrorOK, EndsOK,
       KindOK, StopOK, Excuse, Failing, Active, ConnectionBroken,
       ForcedIsLate, RowOK, Found, Requests
  <2>6. Told(q)'
    BY OrderRequestsAssumption DEF IndInv, RequestOK, TypeOK, Told, RowOK,
       KindOK, EndsOK, Written, Unwritten, Found, Active
  <2>7. Excused(q)'
    BY OrderRequestsAssumption DEF IndInv, RequestOK, TypeOK, Excused,
       ErrorOK, StopOK, EndsOK, KindOK, Excuse, Failing, Active, Handling
  <2> QED
    BY <2>1, <2>2, <2>3, <2>4, <2>5, <2>6, <2>7 DEF RequestOK
<1> QED
  BY <1>1, <1>2, <1>3 DEF IndInv

LEMMA InvokeInv ==
  ASSUME IndInv, NEW r \in Requests, Invoke(r)
  PROVE  IndInv'
<1> USE DEF Invoke, Goto, Become, Accepted, Accepting, request
<1>1. TypeOK'
  BY DEF IndInv, TypeOK, GatewayStates, GRPCCodes, ServerStates, Results,
     OpenTx
<1>2. ForcedIsLate'
  BY DEF IndInv, TypeOK, ForcedIsLate
<1>3. ASSUME NEW q \in Requests PROVE RequestOK(q)'
  <2>1. KindOK(q)'
    BY OrderRequestsAssumption DEF IndInv, RequestOK, TypeOK, KindOK,
       Requests, GRPCCodes, Results
  <2>2. EndsOK(q)'
    BY OrderRequestsAssumption DEF IndInv, RequestOK, TypeOK, EndsOK, KindOK,
       Active, Handling, ConnectionBroken, ForcedIsLate, GRPCCodes, Results
  <2>3. RowOK(q)'
    BY OrderRequestsAssumption DEF IndInv, RequestOK, TypeOK, RowOK, KindOK,
       EndsOK, Told, Written, Unwritten, Found, Active
  <2>4. StopOK(q)'
    BY DEF IndInv, RequestOK, TypeOK, StopOK, EndsOK, Active, Handling,
       ConnectionBroken, ForcedIsLate, GRPCCodes
  <2>5. ErrorOK(q)'
    BY OrderRequestsAssumption DEF IndInv, RequestOK, TypeOK, ErrorOK, EndsOK,
       KindOK, StopOK, Excuse, Failing, Active, ConnectionBroken,
       ForcedIsLate, RowOK, Found, Requests
  <2>6. Told(q)'
    BY OrderRequestsAssumption DEF IndInv, RequestOK, TypeOK, Told, RowOK,
       KindOK, EndsOK, Written, Unwritten, Found, Active
  <2>7. Excused(q)'
    BY OrderRequestsAssumption DEF IndInv, RequestOK, TypeOK, Excused,
       ErrorOK, StopOK, EndsOK, KindOK, Excuse, Failing, Active, Handling
  <2> QED
    BY <2>1, <2>2, <2>3, <2>4, <2>5, <2>6, <2>7 DEF RequestOK
<1> QED
  BY <1>1, <1>2, <1>3 DEF IndInv

LEMMA InvokeUnavailableInv ==
  ASSUME IndInv, NEW r \in Requests, InvokeUnavailable(r)
  PROVE  IndInv'
<1> USE DEF InvokeUnavailable, Goto, Accepting, request
<1>1. TypeOK'
  BY DEF IndInv, TypeOK, GatewayStates, GRPCCodes, OpenTx
<1>2. ForcedIsLate'
  BY DEF IndInv, TypeOK, ForcedIsLate
<1>3. ASSUME NEW q \in Requests PROVE RequestOK(q)'
  <2>1. KindOK(q)'
    BY OrderRequestsAssumption DEF IndInv, RequestOK, TypeOK, KindOK,
       Requests, GRPCCodes, Results
  <2>2. EndsOK(q)'
    BY OrderRequestsAssumption DEF IndInv, RequestOK, TypeOK, EndsOK, KindOK,
       Active, Handling, ConnectionBroken, ForcedIsLate, GRPCCodes, Results
  <2>3. RowOK(q)'
    BY OrderRequestsAssumption DEF IndInv, RequestOK, TypeOK, RowOK, KindOK,
       EndsOK, Told, Written, Unwritten, Found, Active
  <2>4. StopOK(q)'
    BY DEF IndInv, RequestOK, TypeOK, StopOK, EndsOK, Active, Handling,
       ConnectionBroken, ForcedIsLate, GRPCCodes
  <2>5. ErrorOK(q)'
    BY OrderRequestsAssumption DEF IndInv, RequestOK, TypeOK, ErrorOK, EndsOK,
       KindOK, StopOK, Excuse, Failing, Active, ConnectionBroken,
       ForcedIsLate, RowOK, Found, Requests
  <2>6. Told(q)'
    BY OrderRequestsAssumption DEF IndInv, RequestOK, TypeOK, Told, RowOK,
       KindOK, EndsOK, Written, Unwritten, Found, Active
  <2>7. Excused(q)'
    BY OrderRequestsAssumption DEF IndInv, RequestOK, TypeOK, Excused,
       ErrorOK, StopOK, EndsOK, KindOK, Excuse, Failing, Active, Handling
  <2> QED
    BY <2>1, <2>2, <2>3, <2>4, <2>5, <2>6, <2>7 DEF RequestOK
<1> QED
  BY <1>1, <1>2, <1>3 DEF IndInv

LEMMA CallCanceledInv ==
  ASSUME IndInv, NEW r \in Requests, CallCanceled(r)
  PROVE  IndInv'
<1> USE DEF CallCanceled, Goto, request
<1>1. TypeOK'
  BY DEF IndInv, TypeOK, GatewayStates, GRPCCodes, OpenTx
<1>2. ForcedIsLate'
  BY DEF IndInv, TypeOK, ForcedIsLate
<1>3. ASSUME NEW q \in Requests PROVE RequestOK(q)'
  <2>1. KindOK(q)'
    BY OrderRequestsAssumption DEF IndInv, RequestOK, TypeOK, KindOK,
       Requests, GRPCCodes, Results
  <2>2. EndsOK(q)'
    BY OrderRequestsAssumption DEF IndInv, RequestOK, TypeOK, EndsOK, KindOK,
       Active, Handling, ConnectionBroken, ForcedIsLate, GRPCCodes, Results
  <2>3. RowOK(q)'
    BY OrderRequestsAssumption DEF IndInv, RequestOK, TypeOK, RowOK, KindOK,
       EndsOK, Told, Written, Unwritten, Found, Active
  <2>4. StopOK(q)'
    BY DEF IndInv, RequestOK, TypeOK, StopOK, EndsOK, Active, Handling,
       ConnectionBroken, ForcedIsLate, GRPCCodes
  <2>5. ErrorOK(q)'
    BY OrderRequestsAssumption DEF IndInv, RequestOK, TypeOK, ErrorOK, EndsOK,
       KindOK, StopOK, Excuse, Failing, Active, ConnectionBroken,
       ForcedIsLate, RowOK, Found, Requests
  <2>6. Told(q)'
    BY OrderRequestsAssumption DEF IndInv, RequestOK, TypeOK, Told, RowOK,
       KindOK, EndsOK, Written, Unwritten, Found, Active
  <2>7. Excused(q)'
    BY OrderRequestsAssumption DEF IndInv, RequestOK, TypeOK, Excused,
       ErrorOK, StopOK, EndsOK, KindOK, Excuse, Failing, Active, Handling
  <2> QED
    BY <2>1, <2>2, <2>3, <2>4, <2>5, <2>6, <2>7 DEF RequestOK
<1> QED
  BY <1>1, <1>2, <1>3 DEF IndInv

LEMMA RpcBrokenInv ==
  ASSUME IndInv, NEW r \in Requests, RpcBroken(r)
  PROVE  IndInv'
<1> USE DEF RpcBroken, Goto, ConnectionBroken, request
<1>1. TypeOK'
  BY DEF IndInv, TypeOK, GatewayStates, GRPCCodes, OpenTx
<1>2. ForcedIsLate'
  BY DEF IndInv, TypeOK, ForcedIsLate
<1>3. ASSUME NEW q \in Requests PROVE RequestOK(q)'
  <2>1. KindOK(q)'
    BY OrderRequestsAssumption DEF IndInv, RequestOK, TypeOK, KindOK,
       Requests, GRPCCodes, Results
  <2>2. EndsOK(q)'
    BY OrderRequestsAssumption DEF IndInv, RequestOK, TypeOK, EndsOK, KindOK,
       Active, Handling, ConnectionBroken, ForcedIsLate, GRPCCodes, Results
  <2>3. RowOK(q)'
    BY OrderRequestsAssumption DEF IndInv, RequestOK, TypeOK, RowOK, KindOK,
       EndsOK, Told, Written, Unwritten, Found, Active
  <2>4. StopOK(q)'
    BY DEF IndInv, RequestOK, TypeOK, StopOK, EndsOK, Active, Handling,
       ConnectionBroken, ForcedIsLate, GRPCCodes
  <2>5. ErrorOK(q)'
    BY OrderRequestsAssumption DEF IndInv, RequestOK, TypeOK, ErrorOK, EndsOK,
       KindOK, StopOK, Excuse, Failing, Active, ConnectionBroken,
       ForcedIsLate, RowOK, Found, Requests
  <2>6. Told(q)'
    BY OrderRequestsAssumption DEF IndInv, RequestOK, TypeOK, Told, RowOK,
       KindOK, EndsOK, Written, Unwritten, Found, Active
  <2>7. Excused(q)'
    BY OrderRequestsAssumption DEF IndInv, RequestOK, TypeOK, Excused,
       ErrorOK, StopOK, EndsOK, KindOK, Excuse, Failing, Active, Handling
  <2> QED
    BY <2>1, <2>2, <2>3, <2>4, <2>5, <2>6, <2>7 DEF RequestOK
<1> QED
  BY <1>1, <1>2, <1>3 DEF IndInv

LEMMA GatewayReplyInv ==
  ASSUME IndInv, NEW r \in Requests, GatewayReply(r)
  PROVE  IndInv'
<1> USE DEF GatewayReply, Goto, Tell, GatewayStatus, writeGRPCError,
    GRPCCodes, request
<1>1. TypeOK'
  BY DEF IndInv, TypeOK, ClientStates, GatewayStates, OpenTx
<1>2. ForcedIsLate'
  BY DEF IndInv, TypeOK, ForcedIsLate
<1>3. ASSUME NEW q \in Requests PROVE RequestOK(q)'
  <2>1. KindOK(q)'
    BY OrderRequestsAssumption DEF IndInv, RequestOK, TypeOK, KindOK,
       Requests, GRPCCodes, Results
  <2>2. EndsOK(q)'
    BY OrderRequestsAssumption DEF IndInv, RequestOK, TypeOK, EndsOK, KindOK,
       Active, Handling, ConnectionBroken, ForcedIsLate, GRPCCodes, Results
  <2>3. RowOK(q)'
    BY OrderRequestsAssumption DEF IndInv, RequestOK, TypeOK, RowOK, KindOK,
       EndsOK, Told, Written, Unwritten, Found, Active
  <2>4. StopOK(q)'
    BY DEF IndInv, RequestOK, TypeOK, StopOK, EndsOK, Active, Handling,
       ConnectionBroken, ForcedIsLate, GRPCCodes
  <2>5. ErrorOK(q)'
    BY OrderRequestsAssumption DEF IndInv, RequestOK, TypeOK, ErrorOK, EndsOK,
       KindOK, StopOK, Excuse, Failing, Active, ConnectionBroken,
       ForcedIsLate, RowOK, Found, Requests
  <2>6. Told(q)'
    BY OrderRequestsAssumption DEF IndInv, RequestOK, TypeOK, Told, RowOK,
       KindOK, EndsOK, Written, Unwritten, Found, Active
  <2>7. Excused(q)'
    BY OrderRequestsAssumption DEF IndInv, RequestOK, TypeOK, Excused,
       ErrorOK, StopOK, EndsOK, KindOK, Excuse, Failing, Active, Handling
  <2> QED
    BY <2>1, <2>2, <2>3, <2>4, <2>5, <2>6, <2>7 DEF RequestOK
<1> QED
  BY <1>1, <1>2, <1>3 DEF IndInv

LEMMA DirectBodyInv ==
  ASSUME IndInv, NEW r \in Requests, DirectBody(r)
  PROVE  IndInv'
<1> USE DEF DirectBody, Become, Accepted, Tell, request
<1>1. TypeOK'
  BY DEF IndInv, TypeOK, ClientStates, ServerStates, Results, OpenTx
<1>2. ForcedIsLate'
  BY DEF IndInv, TypeOK, ForcedIsLate
<1>3. ASSUME NEW q \in Requests PROVE RequestOK(q)'
  <2>1. KindOK(q)'
    BY OrderRequestsAssumption DEF IndInv, RequestOK, TypeOK, KindOK,
       Requests, GRPCCodes, Results
  <2>2. EndsOK(q)'
    BY OrderRequestsAssumption DEF IndInv, RequestOK, TypeOK, EndsOK, KindOK,
       Active, Handling, ConnectionBroken, ForcedIsLate, GRPCCodes, Results
  <2>3. RowOK(q)'
    BY OrderRequestsAssumption DEF IndInv, RequestOK, TypeOK, RowOK, KindOK,
       EndsOK, Told, Written, Unwritten, Found, Active
  <2>4. StopOK(q)'
    BY DEF IndInv, RequestOK, TypeOK, StopOK, EndsOK, Active, Handling,
       ConnectionBroken, ForcedIsLate, GRPCCodes
  <2>5. ErrorOK(q)'
    BY OrderRequestsAssumption DEF IndInv, RequestOK, TypeOK, ErrorOK, EndsOK,
       KindOK, StopOK, Excuse, Failing, Active, ConnectionBroken,
       ForcedIsLate, RowOK, Found, Requests
  <2>6. Told(q)'
    BY OrderRequestsAssumption DEF IndInv, RequestOK, TypeOK, Told, RowOK,
       KindOK, EndsOK, Written, Unwritten, Found, Active
  <2>7. Excused(q)'
    BY OrderRequestsAssumption DEF IndInv, RequestOK, TypeOK, Excused,
       ErrorOK, StopOK, EndsOK, KindOK, Excuse, Failing, Active, Handling
  <2> QED
    BY <2>1, <2>2, <2>3, <2>4, <2>5, <2>6, <2>7 DEF RequestOK
<1> QED
  BY <1>1, <1>2, <1>3 DEF IndInv

LEMMA BeginTxInv ==
  ASSUME IndInv, NEW r \in Requests, BeginTx(r)
  PROVE  IndInv'
<1> USE DEF BeginTx, Become, CanAcquire, PoolOpen, request
<1>1. TypeOK'
  BY DEF IndInv, TypeOK, ServerStates, Results, OpenTx
<1>2. ForcedIsLate'
  BY DEF IndInv, TypeOK, ForcedIsLate
<1>3. ASSUME NEW q \in Requests PROVE RequestOK(q)'
  <2>1. KindOK(q)'
    BY OrderRequestsAssumption DEF IndInv, RequestOK, TypeOK, KindOK,
       Requests, GRPCCodes, Results
  <2>2. EndsOK(q)'
    BY OrderRequestsAssumption DEF IndInv, RequestOK, TypeOK, EndsOK, KindOK,
       Active, Handling, ConnectionBroken, ForcedIsLate, GRPCCodes, Results
  <2>3. RowOK(q)'
    BY OrderRequestsAssumption DEF IndInv, RequestOK, TypeOK, RowOK, KindOK,
       EndsOK, Told, Written, Unwritten, Found, Active
  <2>4. StopOK(q)'
    BY DEF IndInv, RequestOK, TypeOK, StopOK, EndsOK, Active, Handling,
       ConnectionBroken, ForcedIsLate, GRPCCodes
  <2>5. ErrorOK(q)'
    BY OrderRequestsAssumption DEF IndInv, RequestOK, TypeOK, ErrorOK, EndsOK,
       KindOK, StopOK, Excuse, Failing, Active, ConnectionBroken,
       ForcedIsLate, RowOK, Found, Requests
  <2>6. Told(q)'
    BY OrderRequestsAssumption DEF IndInv, RequestOK, TypeOK, Told, RowOK,
       KindOK, EndsOK, Written, Unwritten, Found, Active
  <2>7. Excused(q)'
    BY OrderRequestsAssumption DEF IndInv, RequestOK, TypeOK, Excused,
       ErrorOK, StopOK, EndsOK, KindOK, Excuse, Failing, Active, Handling
  <2> QED
    BY <2>1, <2>2, <2>3, <2>4, <2>5, <2>6, <2>7 DEF RequestOK
<1> QED
  BY <1>1, <1>2, <1>3 DEF IndInv

LEMMA CommitTxInv ==
  ASSUME IndInv, NEW r \in Requests, CommitTx(r)
  PROVE  IndInv'
<1> USE DEF CommitTx, Become, Insert, request
<1>1. TypeOK'
  <2>1. r \in Creates /\ cart[r] \in Carts
    BY DEF IndInv, RequestOK, KindOK, EndsOK, Requests
  <2>2. stored' \in [Creates -> {NoRow} \cup {<<Total(c)>> : c \in Carts}]
    BY <2>1 DEF IndInv, TypeOK
  <2>3. OpenTx' \subseteq OpenTx
    BY DEF IndInv, TypeOK, OpenTx
  <2> QED
    BY <2>2, <2>3 DEF IndInv, TypeOK, ServerStates, Results
<1>2. ForcedIsLate'
  BY DEF IndInv, TypeOK, ForcedIsLate
<1>3. ASSUME NEW q \in Requests PROVE RequestOK(q)'
  <2>1. KindOK(q)'
    BY OrderRequestsAssumption DEF IndInv, RequestOK, TypeOK, KindOK,
       Requests, GRPCCodes, Results
  <2>2. EndsOK(q)'
    BY OrderRequestsAssumption DEF IndInv, RequestOK, TypeOK, EndsOK, KindOK,
       Active, Handling, ConnectionBroken, ForcedIsLate, GRPCCodes, Results
  <2>3. RowOK(q)'
    BY OrderRequestsAssumption DEF IndInv, RequestOK, TypeOK, RowOK, KindOK,
       EndsOK, Told, Written, Unwritten, Found, Active
  <2>4. StopOK(q)'
    BY DEF IndInv, RequestOK, TypeOK, StopOK, EndsOK, Active, Handling,
       ConnectionBroken, ForcedIsLate, GRPCCodes
  <2>5. ErrorOK(q)'
    BY OrderRequestsAssumption DEF IndInv, RequestOK, TypeOK, ErrorOK, EndsOK,
       KindOK, StopOK, Excuse, Failing, Active, ConnectionBroken,
       ForcedIsLate, RowOK, Found, Requests
  <2>6. Told(q)'
    BY OrderRequestsAssumption DEF IndInv, RequestOK, TypeOK, Told, RowOK,
       KindOK, EndsOK, Written, Unwritten, Found, Active
  <2>7. Excused(q)'
    BY OrderRequestsAssumption DEF IndInv, RequestOK, TypeOK, Excused,
       ErrorOK, StopOK, EndsOK, KindOK, Excuse, Failing, Active, Handling
  <2> QED
    BY <2>1, <2>2, <2>3, <2>4, <2>5, <2>6, <2>7 DEF RequestOK
<1> QED
  BY <1>1, <1>2, <1>3 DEF IndInv

LEMMA CommitReplyLostInv ==
  ASSUME IndInv, NEW r \in Requests, CommitReplyLost(r)
  PROVE  IndInv'
<1> USE DEF CommitReplyLost, Become, Insert, Fault, Cancelled, request
<1>1. TypeOK'
  <2>1. r \in Creates /\ cart[r] \in Carts
    BY DEF IndInv, RequestOK, KindOK, EndsOK, Requests
  <2>2. stored' \in [Creates -> {NoRow} \cup {<<Total(c)>> : c \in Carts}]
    BY <2>1 DEF IndInv, TypeOK
  <2>3. OpenTx' \subseteq OpenTx
    BY DEF IndInv, TypeOK, OpenTx
  <2> QED
    BY <2>2, <2>3 DEF IndInv, TypeOK, ServerStates, Results, FaultKinds
<1>2. ForcedIsLate'
  BY DEF IndInv, TypeOK, ForcedIsLate
<1>3. ASSUME NEW q \in Requests PROVE RequestOK(q)'
  <2>1. KindOK(q)'
    BY OrderRequestsAssumption DEF IndInv, RequestOK, TypeOK, KindOK,
       Requests, GRPCCodes, Results
  <2>2. EndsOK(q)'
    BY OrderRequestsAssumption DEF IndInv, RequestOK, TypeOK, EndsOK, KindOK,
       Active, Handling, ConnectionBroken, ForcedIsLate, GRPCCodes, Results
  <2>3. RowOK(q)'
    BY OrderRequestsAssumption DEF IndInv, RequestOK, TypeOK, RowOK, KindOK,
       EndsOK, Told, Written, Unwritten, Found, Active
  <2>4. StopOK(q)'
    BY DEF IndInv, RequestOK, TypeOK, StopOK, EndsOK, Active, Handling,
       ConnectionBroken, ForcedIsLate, GRPCCodes
  <2>5. ErrorOK(q)'
    BY OrderRequestsAssumption DEF IndInv, RequestOK, TypeOK, ErrorOK, EndsOK,
       KindOK, StopOK, Excuse, Failing, Active, ConnectionBroken,
       ForcedIsLate, RowOK, Found, Requests
  <2>6. Told(q)'
    BY OrderRequestsAssumption DEF IndInv, RequestOK, TypeOK, Told, RowOK,
       KindOK, EndsOK, Written, Unwritten, Found, Active
  <2>7. Excused(q)'
    BY OrderRequestsAssumption DEF IndInv, RequestOK, TypeOK, Excused,
       ErrorOK, StopOK, EndsOK, KindOK, Excuse, Failing, Active, Handling
  <2> QED
    BY <2>1, <2>2, <2>3, <2>4, <2>5, <2>6, <2>7 DEF RequestOK
<1> QED
  BY <1>1, <1>2, <1>3 DEF IndInv

LEMMA GetRowInv ==
  ASSUME IndInv, NEW r \in Requests, GetRow(r)
  PROVE  IndInv'
<1> USE DEF GetRow, Become, CanAcquire, PoolOpen, request
<1>1. TypeOK'
  BY DEF IndInv, TypeOK, ServerStates, Results, OpenTx
<1>2. ForcedIsLate'
  BY DEF IndInv, TypeOK, ForcedIsLate
<1>3. ASSUME NEW q \in Requests PROVE RequestOK(q)'
  <2>1. KindOK(q)'
    BY OrderRequestsAssumption DEF IndInv, RequestOK, TypeOK, KindOK,
       Requests, GRPCCodes, Results
  <2>2. EndsOK(q)'
    BY OrderRequestsAssumption DEF IndInv, RequestOK, TypeOK, EndsOK, KindOK,
       Active, Handling, ConnectionBroken, ForcedIsLate, GRPCCodes, Results
  <2>3. RowOK(q)'
    BY OrderRequestsAssumption DEF IndInv, RequestOK, TypeOK, RowOK, KindOK,
       EndsOK, Told, Written, Unwritten, Found, Active
  <2>4. StopOK(q)'
    BY DEF IndInv, RequestOK, TypeOK, StopOK, EndsOK, Active, Handling,
       ConnectionBroken, ForcedIsLate, GRPCCodes
  <2>5. ErrorOK(q)'
    BY OrderRequestsAssumption DEF IndInv, RequestOK, TypeOK, ErrorOK, EndsOK,
       KindOK, StopOK, Excuse, Failing, Active, ConnectionBroken,
       ForcedIsLate, RowOK, Found, Requests
  <2>6. Told(q)'
    BY OrderRequestsAssumption DEF IndInv, RequestOK, TypeOK, Told, RowOK,
       KindOK, EndsOK, Written, Unwritten, Found, Active
  <2>7. Excused(q)'
    BY OrderRequestsAssumption DEF IndInv, RequestOK, TypeOK, Excused,
       ErrorOK, StopOK, EndsOK, KindOK, Excuse, Failing, Active, Handling
  <2> QED
    BY <2>1, <2>2, <2>3, <2>4, <2>5, <2>6, <2>7 DEF RequestOK
<1> QED
  BY <1>1, <1>2, <1>3 DEF IndInv

LEMMA GetItemsInv ==
  ASSUME IndInv, NEW r \in Requests, GetItems(r)
  PROVE  IndInv'
<1> USE DEF GetItems, Become, CanAcquire, PoolOpen, request
<1>1. TypeOK'
  BY DEF IndInv, TypeOK, ServerStates, Results, OpenTx
<1>2. ForcedIsLate'
  BY DEF IndInv, TypeOK, ForcedIsLate
<1>3. ASSUME NEW q \in Requests PROVE RequestOK(q)'
  <2>1. KindOK(q)'
    BY OrderRequestsAssumption DEF IndInv, RequestOK, TypeOK, KindOK,
       Requests, GRPCCodes, Results
  <2>2. EndsOK(q)'
    BY OrderRequestsAssumption DEF IndInv, RequestOK, TypeOK, EndsOK, KindOK,
       Active, Handling, ConnectionBroken, ForcedIsLate, GRPCCodes, Results
  <2>3. RowOK(q)'
    BY OrderRequestsAssumption DEF IndInv, RequestOK, TypeOK, RowOK, KindOK,
       EndsOK, Told, Written, Unwritten, Found, Active
  <2>4. StopOK(q)'
    BY DEF IndInv, RequestOK, TypeOK, StopOK, EndsOK, Active, Handling,
       ConnectionBroken, ForcedIsLate, GRPCCodes
  <2>5. ErrorOK(q)'
    BY OrderRequestsAssumption DEF IndInv, RequestOK, TypeOK, ErrorOK, EndsOK,
       KindOK, StopOK, Excuse, Failing, Active, ConnectionBroken,
       ForcedIsLate, RowOK, Found, Requests
  <2>6. Told(q)'
    BY OrderRequestsAssumption DEF IndInv, RequestOK, TypeOK, Told, RowOK,
       KindOK, EndsOK, Written, Unwritten, Found, Active
  <2>7. Excused(q)'
    BY OrderRequestsAssumption DEF IndInv, RequestOK, TypeOK, Excused,
       ErrorOK, StopOK, EndsOK, KindOK, Excuse, Failing, Active, Handling
  <2> QED
    BY <2>1, <2>2, <2>3, <2>4, <2>5, <2>6, <2>7 DEF RequestOK
<1> QED
  BY <1>1, <1>2, <1>3 DEF IndInv

LEMMA GetItemsCutInv ==
  ASSUME IndInv, NEW r \in Requests, GetItemsCut(r)
  PROVE  IndInv'
<1> USE DEF GetItemsCut, Become, CanAcquire, PoolOpen, Fault, Cancelled,
    request
<1>1. TypeOK'
  BY DEF IndInv, TypeOK, ServerStates, Results, FaultKinds, OpenTx
<1>2. ForcedIsLate'
  BY DEF IndInv, TypeOK, ForcedIsLate
<1>3. ASSUME NEW q \in Requests PROVE RequestOK(q)'
  <2>1. KindOK(q)'
    BY OrderRequestsAssumption DEF IndInv, RequestOK, TypeOK, KindOK,
       Requests, GRPCCodes, Results
  <2>2. EndsOK(q)'
    BY OrderRequestsAssumption DEF IndInv, RequestOK, TypeOK, EndsOK, KindOK,
       Active, Handling, ConnectionBroken, ForcedIsLate, GRPCCodes, Results
  <2>3. RowOK(q)'
    BY OrderRequestsAssumption DEF IndInv, RequestOK, TypeOK, RowOK, KindOK,
       EndsOK, Told, Written, Unwritten, Found, Active
  <2>4. StopOK(q)'
    BY DEF IndInv, RequestOK, TypeOK, StopOK, EndsOK, Active, Handling,
       ConnectionBroken, ForcedIsLate, GRPCCodes
  <2>5. ErrorOK(q)'
    BY OrderRequestsAssumption DEF IndInv, RequestOK, TypeOK, ErrorOK, EndsOK,
       KindOK, StopOK, Excuse, Failing, Active, ConnectionBroken,
       ForcedIsLate, RowOK, Found, Requests
  <2>6. Told(q)'
    BY OrderRequestsAssumption DEF IndInv, RequestOK, TypeOK, Told, RowOK,
       KindOK, EndsOK, Written, Unwritten, Found, Active
  <2>7. Excused(q)'
    BY OrderRequestsAssumption DEF IndInv, RequestOK, TypeOK, Excused,
       ErrorOK, StopOK, EndsOK, KindOK, Excuse, Failing, Active, Handling
  <2> QED
    BY <2>1, <2>2, <2>3, <2>4, <2>5, <2>6, <2>7 DEF RequestOK
<1> QED
  BY <1>1, <1>2, <1>3 DEF IndInv

LEMMA DbErrorInv ==
  ASSUME IndInv, NEW r \in Requests, DbError(r)
  PROVE  IndInv'
<1> USE DEF DbError, Become, Fault, request
<1>1. TypeOK'
  BY DEF IndInv, TypeOK, ServerStates, Results, FaultKinds, OpenTx
<1>2. ForcedIsLate'
  BY DEF IndInv, TypeOK, ForcedIsLate
<1>3. ASSUME NEW q \in Requests PROVE RequestOK(q)'
  <2>1. KindOK(q)'
    BY OrderRequestsAssumption DEF IndInv, RequestOK, TypeOK, KindOK,
       Requests, GRPCCodes, Results
  <2>2. EndsOK(q)'
    BY OrderRequestsAssumption DEF IndInv, RequestOK, TypeOK, EndsOK, KindOK,
       Active, Handling, ConnectionBroken, ForcedIsLate, GRPCCodes, Results
  <2>3. RowOK(q)'
    BY OrderRequestsAssumption DEF IndInv, RequestOK, TypeOK, RowOK, KindOK,
       EndsOK, Told, Written, Unwritten, Found, Active
  <2>4. StopOK(q)'
    BY DEF IndInv, RequestOK, TypeOK, StopOK, EndsOK, Active, Handling,
       ConnectionBroken, ForcedIsLate, GRPCCodes
  <2>5. ErrorOK(q)'
    BY OrderRequestsAssumption DEF IndInv, RequestOK, TypeOK, ErrorOK, EndsOK,
       KindOK, StopOK, Excuse, Failing, Active, ConnectionBroken,
       ForcedIsLate, RowOK, Found, Requests
  <2>6. Told(q)'
    BY OrderRequestsAssumption DEF IndInv, RequestOK, TypeOK, Told, RowOK,
       KindOK, EndsOK, Written, Unwritten, Found, Active
  <2>7. Excused(q)'
    BY OrderRequestsAssumption DEF IndInv, RequestOK, TypeOK, Excused,
       ErrorOK, StopOK, EndsOK, KindOK, Excuse, Failing, Active, Handling
  <2> QED
    BY <2>1, <2>2, <2>3, <2>4, <2>5, <2>6, <2>7 DEF RequestOK
<1> QED
  BY <1>1, <1>2, <1>3 DEF IndInv

LEMMA DbRefusesInv ==
  ASSUME IndInv, NEW r \in Requests, DbRefuses(r)
  PROVE  IndInv'
<1> USE DEF DbRefuses, Become, Cancelled, PoolOpen, request
<1>1. TypeOK'
  BY DEF IndInv, TypeOK, ServerStates, Results, OpenTx
<1>2. ForcedIsLate'
  BY DEF IndInv, TypeOK, ForcedIsLate
<1>3. ASSUME NEW q \in Requests PROVE RequestOK(q)'
  <2>1. KindOK(q)'
    BY OrderRequestsAssumption DEF IndInv, RequestOK, TypeOK, KindOK,
       Requests, GRPCCodes, Results
  <2>2. EndsOK(q)'
    BY OrderRequestsAssumption DEF IndInv, RequestOK, TypeOK, EndsOK, KindOK,
       Active, Handling, ConnectionBroken, ForcedIsLate, GRPCCodes, Results
  <2>3. RowOK(q)'
    BY OrderRequestsAssumption DEF IndInv, RequestOK, TypeOK, RowOK, KindOK,
       EndsOK, Told, Written, Unwritten, Found, Active
  <2>4. StopOK(q)'
    BY DEF IndInv, RequestOK, TypeOK, StopOK, EndsOK, Active, Handling,
       ConnectionBroken, ForcedIsLate, GRPCCodes
  <2>5. ErrorOK(q)'
    BY OrderRequestsAssumption DEF IndInv, RequestOK, TypeOK, ErrorOK, EndsOK,
       KindOK, StopOK, Excuse, Failing, Active, ConnectionBroken,
       ForcedIsLate, RowOK, Found, Requests
  <2>6. Told(q)'
    BY OrderRequestsAssumption DEF IndInv, RequestOK, TypeOK, Told, RowOK,
       KindOK, EndsOK, Written, Unwritten, Found, Active
  <2>7. Excused(q)'
    BY OrderRequestsAssumption DEF IndInv, RequestOK, TypeOK, Excused,
       ErrorOK, StopOK, EndsOK, KindOK, Excuse, Failing, Active, Handling
  <2> QED
    BY <2>1, <2>2, <2>3, <2>4, <2>5, <2>6, <2>7 DEF RequestOK
<1> QED
  BY <1>1, <1>2, <1>3 DEF IndInv

LEMMA ReturnInv ==
  ASSUME IndInv, NEW r \in Requests, Return(r)
  PROVE  IndInv'
<1> USE DEF Return, Become, Goto, Tell, GRPCStatus, mapDomainErrToGRPC,
    DirectStatus, Results, ConnectionBroken, request
<1>1. TypeOK'
  BY DEF IndInv, TypeOK, ClientStates, GatewayStates, GRPCCodes, ServerStates,
     OpenTx
<1>2. ForcedIsLate'
  BY DEF IndInv, TypeOK, ForcedIsLate
<1>3. ASSUME NEW q \in Requests PROVE RequestOK(q)'
  <2>1. KindOK(q)'
    BY OrderRequestsAssumption DEF IndInv, RequestOK, TypeOK, KindOK,
       Requests, GRPCCodes, Results
  <2>2. EndsOK(q)'
    BY OrderRequestsAssumption DEF IndInv, RequestOK, TypeOK, EndsOK, KindOK,
       Active, Handling, ConnectionBroken, ForcedIsLate, GRPCCodes, Results
  <2>3. RowOK(q)'
    BY OrderRequestsAssumption DEF IndInv, RequestOK, TypeOK, RowOK, KindOK,
       EndsOK, Told, Written, Unwritten, Found, Active
  <2>4. StopOK(q)'
    BY DEF IndInv, RequestOK, TypeOK, StopOK, EndsOK, Active, Handling,
       ConnectionBroken, ForcedIsLate, GRPCCodes
  <2>5. ErrorOK(q)'
    BY OrderRequestsAssumption DEF IndInv, RequestOK, TypeOK, ErrorOK, EndsOK,
       KindOK, StopOK, Excuse, Failing, Active, ConnectionBroken,
       ForcedIsLate, RowOK, Found, Requests
  <2>6. Told(q)'
    BY OrderRequestsAssumption DEF IndInv, RequestOK, TypeOK, Told, RowOK,
       KindOK, EndsOK, Written, Unwritten, Found, Active
  <2>7. Excused(q)'
    <3>1. CASE q = r /\ via[r] = "direct" /\ client[r] = "sent"
      <4>1. (r \in Gets /\ server[r] = "error") => (Failing \/ r \in Gets \ knows)
        BY <3>1, OrderRequestsAssumption DEF IndInv, RequestOK, ErrorOK, Excuse
      <4>2. (r \in Creates /\ server[r] = "error") => Excuse(r)
        BY <3>1 DEF IndInv, RequestOK, ErrorOK
      <4>3. client' = [client EXCEPT ![r] = DirectStatus(r, server[r])]
        BY <3>1
      <4>4. client'[r] = DirectStatus(r, server[r])
        BY <4>3, <3>1 DEF IndInv, TypeOK
      <4> QED
        BY <3>1, <4>1, <4>2, <4>4 DEF IndInv, RequestOK, KindOK, Requests,
           Excused, Excuse, Failing
    <3>2. CASE ~(q = r /\ via[r] = "direct" /\ client[r] = "sent")
      <4>1. client'[q] = client[q] /\ (server[q] = "none" => server'[q] = "none")
        BY <3>2 DEF IndInv, TypeOK
      <4> QED
        BY <4>1 DEF IndInv, RequestOK, Excused, Excuse, Failing
    <3> QED
      BY <3>1, <3>2
  <2> QED
    BY <2>1, <2>2, <2>3, <2>4, <2>5, <2>6, <2>7 DEF RequestOK
<1> QED
  BY <1>1, <1>2, <1>3 DEF IndInv

LEMMA TerminateInv ==
  ASSUME IndInv, Terminate
  PROVE  IndInv'
<1> USE DEF Terminate, ServicePhase, request
<1>1. TypeOK'
  BY DEF IndInv, TypeOK, OpenTx
<1>2. ForcedIsLate'
  BY DEF IndInv, TypeOK, ForcedIsLate
<1>3. ASSUME NEW q \in Requests PROVE RequestOK(q)'
  <2>1. KindOK(q)'
    BY OrderRequestsAssumption DEF IndInv, RequestOK, TypeOK, KindOK,
       Requests, GRPCCodes, Results
  <2>2. EndsOK(q)'
    BY OrderRequestsAssumption DEF IndInv, RequestOK, TypeOK, EndsOK, KindOK,
       Active, Handling, ConnectionBroken, ForcedIsLate, GRPCCodes, Results
  <2>3. RowOK(q)'
    BY OrderRequestsAssumption DEF IndInv, RequestOK, TypeOK, RowOK, KindOK,
       EndsOK, Told, Written, Unwritten, Found, Active
  <2>4. StopOK(q)'
    BY DEF IndInv, RequestOK, TypeOK, StopOK, EndsOK, Active, Handling,
       ConnectionBroken, ForcedIsLate, GRPCCodes
  <2>5. ErrorOK(q)'
    BY OrderRequestsAssumption DEF IndInv, RequestOK, TypeOK, ErrorOK, EndsOK,
       KindOK, StopOK, Excuse, Failing, Active, ConnectionBroken,
       ForcedIsLate, RowOK, Found, Requests
  <2>6. Told(q)'
    BY OrderRequestsAssumption DEF IndInv, RequestOK, TypeOK, Told, RowOK,
       KindOK, EndsOK, Written, Unwritten, Found, Active
  <2>7. Excused(q)'
    BY OrderRequestsAssumption DEF IndInv, RequestOK, TypeOK, Excused,
       ErrorOK, StopOK, EndsOK, KindOK, Excuse, Failing, Active, Handling
  <2> QED
    BY <2>1, <2>2, <2>3, <2>4, <2>5, <2>6, <2>7 DEF RequestOK
<1> QED
  BY <1>1, <1>2, <1>3 DEF IndInv

LEMMA DeadlineInv ==
  ASSUME IndInv, Deadline
  PROVE  IndInv'
<1> USE DEF Deadline, request
<1>1. TypeOK'
  BY DEF IndInv, TypeOK, OpenTx
<1>2. ForcedIsLate'
  BY DEF IndInv, TypeOK, ForcedIsLate
<1>3. ASSUME NEW q \in Requests PROVE RequestOK(q)'
  <2>1. KindOK(q)'
    BY OrderRequestsAssumption DEF IndInv, RequestOK, TypeOK, KindOK,
       Requests, GRPCCodes, Results
  <2>2. EndsOK(q)'
    BY OrderRequestsAssumption DEF IndInv, RequestOK, TypeOK, EndsOK, KindOK,
       Active, Handling, ConnectionBroken, ForcedIsLate, GRPCCodes, Results
  <2>3. RowOK(q)'
    BY OrderRequestsAssumption DEF IndInv, RequestOK, TypeOK, RowOK, KindOK,
       EndsOK, Told, Written, Unwritten, Found, Active
  <2>4. StopOK(q)'
    BY DEF IndInv, RequestOK, TypeOK, StopOK, EndsOK, Active, Handling,
       ConnectionBroken, ForcedIsLate, GRPCCodes
  <2>5. ErrorOK(q)'
    BY OrderRequestsAssumption DEF IndInv, RequestOK, TypeOK, ErrorOK, EndsOK,
       KindOK, StopOK, Excuse, Failing, Active, ConnectionBroken,
       ForcedIsLate, RowOK, Found, Requests
  <2>6. Told(q)'
    BY OrderRequestsAssumption DEF IndInv, RequestOK, TypeOK, Told, RowOK,
       KindOK, EndsOK, Written, Unwritten, Found, Active
  <2>7. Excused(q)'
    BY OrderRequestsAssumption DEF IndInv, RequestOK, TypeOK, Excused,
       ErrorOK, StopOK, EndsOK, KindOK, Excuse, Failing, Active, Handling
  <2> QED
    BY <2>1, <2>2, <2>3, <2>4, <2>5, <2>6, <2>7 DEF RequestOK
<1> QED
  BY <1>1, <1>2, <1>3 DEF IndInv

LEMMA HttpShutdownInv ==
  ASSUME IndInv, HttpShutdown
  PROVE  IndInv'
<1> USE DEF HttpShutdown, ServicePhase, ActiveAt, request
<1>1. TypeOK'
  BY DEF IndInv, TypeOK, OpenTx
<1>2. ForcedIsLate'
  BY DEF IndInv, TypeOK, ForcedIsLate
<1>3. ASSUME NEW q \in Requests PROVE RequestOK(q)'
  <2>1. KindOK(q)'
    BY OrderRequestsAssumption DEF IndInv, RequestOK, TypeOK, KindOK,
       Requests, GRPCCodes, Results
  <2>2. EndsOK(q)'
    BY OrderRequestsAssumption DEF IndInv, RequestOK, TypeOK, EndsOK, KindOK,
       Active, Handling, ConnectionBroken, ForcedIsLate, GRPCCodes, Results
  <2>3. RowOK(q)'
    BY OrderRequestsAssumption DEF IndInv, RequestOK, TypeOK, RowOK, KindOK,
       EndsOK, Told, Written, Unwritten, Found, Active
  <2>4. StopOK(q)'
    BY DEF IndInv, RequestOK, TypeOK, StopOK, EndsOK, Active, Handling,
       ConnectionBroken, ForcedIsLate, GRPCCodes
  <2>5. ErrorOK(q)'
    BY OrderRequestsAssumption DEF IndInv, RequestOK, TypeOK, ErrorOK, EndsOK,
       KindOK, StopOK, Excuse, Failing, Active, ConnectionBroken,
       ForcedIsLate, RowOK, Found, Requests
  <2>6. Told(q)'
    BY OrderRequestsAssumption DEF IndInv, RequestOK, TypeOK, Told, RowOK,
       KindOK, EndsOK, Written, Unwritten, Found, Active
  <2>7. Excused(q)'
    BY OrderRequestsAssumption DEF IndInv, RequestOK, TypeOK, Excused,
       ErrorOK, StopOK, EndsOK, KindOK, Excuse, Failing, Active, Handling
  <2> QED
    BY <2>1, <2>2, <2>3, <2>4, <2>5, <2>6, <2>7 DEF RequestOK
<1> QED
  BY <1>1, <1>2, <1>3 DEF IndInv

LEMMA GracefulStopInv ==
  ASSUME IndInv, GracefulStop
  PROVE  IndInv'
<1> USE DEF GracefulStop, ServicePhase, ActiveAt, request
<1>1. TypeOK'
  BY DEF IndInv, TypeOK, OpenTx
<1>2. ForcedIsLate'
  BY DEF IndInv, TypeOK, ForcedIsLate
<1>3. ASSUME NEW q \in Requests PROVE RequestOK(q)'
  <2>1. KindOK(q)'
    BY OrderRequestsAssumption DEF IndInv, RequestOK, TypeOK, KindOK,
       Requests, GRPCCodes, Results
  <2>2. EndsOK(q)'
    BY OrderRequestsAssumption DEF IndInv, RequestOK, TypeOK, EndsOK, KindOK,
       Active, Handling, ConnectionBroken, ForcedIsLate, GRPCCodes, Results
  <2>3. RowOK(q)'
    BY OrderRequestsAssumption DEF IndInv, RequestOK, TypeOK, RowOK, KindOK,
       EndsOK, Told, Written, Unwritten, Found, Active
  <2>4. StopOK(q)'
    BY DEF IndInv, RequestOK, TypeOK, StopOK, EndsOK, Active, Handling,
       ConnectionBroken, ForcedIsLate, GRPCCodes
  <2>5. ErrorOK(q)'
    BY OrderRequestsAssumption DEF IndInv, RequestOK, TypeOK, ErrorOK, EndsOK,
       KindOK, StopOK, Excuse, Failing, Active, ConnectionBroken,
       ForcedIsLate, RowOK, Found, Requests
  <2>6. Told(q)'
    BY OrderRequestsAssumption DEF IndInv, RequestOK, TypeOK, Told, RowOK,
       KindOK, EndsOK, Written, Unwritten, Found, Active
  <2>7. Excused(q)'
    BY OrderRequestsAssumption DEF IndInv, RequestOK, TypeOK, Excused,
       ErrorOK, StopOK, EndsOK, KindOK, Excuse, Failing, Active, Handling
  <2> QED
    BY <2>1, <2>2, <2>3, <2>4, <2>5, <2>6, <2>7 DEF RequestOK
<1> QED
  BY <1>1, <1>2, <1>3 DEF IndInv

LEMMA StopInv ==
  ASSUME IndInv, Stop
  PROVE  IndInv'
<1> USE DEF Stop, request
<1>1. TypeOK'
  BY DEF IndInv, TypeOK, OpenTx
<1>2. ForcedIsLate'
  BY DEF IndInv, TypeOK, ForcedIsLate
<1>3. ASSUME NEW q \in Requests PROVE RequestOK(q)'
  <2>1. KindOK(q)'
    BY OrderRequestsAssumption DEF IndInv, RequestOK, TypeOK, KindOK,
       Requests, GRPCCodes, Results
  <2>2. EndsOK(q)'
    BY OrderRequestsAssumption DEF IndInv, RequestOK, TypeOK, EndsOK, KindOK,
       Active, Handling, ConnectionBroken, ForcedIsLate, GRPCCodes, Results
  <2>3. RowOK(q)'
    BY OrderRequestsAssumption DEF IndInv, RequestOK, TypeOK, RowOK, KindOK,
       EndsOK, Told, Written, Unwritten, Found, Active
  <2>4. StopOK(q)'
    BY DEF IndInv, RequestOK, TypeOK, StopOK, EndsOK, Active, Handling,
       ConnectionBroken, ForcedIsLate, GRPCCodes
  <2>5. ErrorOK(q)'
    BY OrderRequestsAssumption DEF IndInv, RequestOK, TypeOK, ErrorOK, EndsOK,
       KindOK, StopOK, Excuse, Failing, Active, ConnectionBroken,
       ForcedIsLate, RowOK, Found, Requests
  <2>6. Told(q)'
    BY OrderRequestsAssumption DEF IndInv, RequestOK, TypeOK, Told, RowOK,
       KindOK, EndsOK, Written, Unwritten, Found, Active
  <2>7. Excused(q)'
    BY OrderRequestsAssumption DEF IndInv, RequestOK, TypeOK, Excused,
       ErrorOK, StopOK, EndsOK, KindOK, Excuse, Failing, Active, Handling
  <2> QED
    BY <2>1, <2>2, <2>3, <2>4, <2>5, <2>6, <2>7 DEF RequestOK
<1> QED
  BY <1>1, <1>2, <1>3 DEF IndInv

LEMMA ClosePoolInv ==
  ASSUME IndInv, ClosePool
  PROVE  IndInv'
<1> USE DEF ClosePool, ServicePhase, request
<1>1. TypeOK'
  BY DEF IndInv, TypeOK, ServerStates, Results, OpenTx
<1>2. ForcedIsLate'
  BY DEF IndInv, TypeOK, ForcedIsLate
<1>3. ASSUME NEW q \in Requests PROVE RequestOK(q)'
  <2>1. KindOK(q)'
    BY OrderRequestsAssumption DEF IndInv, RequestOK, TypeOK, KindOK,
       Requests, GRPCCodes, Results
  <2>2. EndsOK(q)'
    BY OrderRequestsAssumption DEF IndInv, RequestOK, TypeOK, EndsOK, KindOK,
       Active, Handling, ConnectionBroken, ForcedIsLate, GRPCCodes, Results
  <2>3. RowOK(q)'
    BY OrderRequestsAssumption DEF IndInv, RequestOK, TypeOK, RowOK, KindOK,
       EndsOK, Told, Written, Unwritten, Found, Active
  <2>4. StopOK(q)'
    BY DEF IndInv, RequestOK, TypeOK, StopOK, EndsOK, Active, Handling,
       ConnectionBroken, ForcedIsLate, GRPCCodes
  <2>5. ErrorOK(q)'
    BY OrderRequestsAssumption DEF IndInv, RequestOK, TypeOK, ErrorOK, EndsOK,
       KindOK, StopOK, Excuse, Failing, Active, ConnectionBroken,
       ForcedIsLate, RowOK, Found, Requests
  <2>6. Told(q)'
    BY OrderRequestsAssumption DEF IndInv, RequestOK, TypeOK, Told, RowOK,
       KindOK, EndsOK, Written, Unwritten, Found, Active
  <2>7. Excused(q)'
    BY OrderRequestsAssumption DEF IndInv, RequestOK, TypeOK, Excused,
       ErrorOK, StopOK, EndsOK, KindOK, Excuse, Failing, Active, Handling
  <2> QED
    BY <2>1, <2>2, <2>3, <2>4, <2>5, <2>6, <2>7 DEF RequestOK
<1> QED
  BY <1>1, <1>2, <1>3 DEF IndInv

LEMMA ExitInv ==
  ASSUME IndInv, Exit
  PROVE  IndInv'
<1> USE DEF Exit, ServiceGone, ServicePhase, request
<1>1. TypeOK'
  BY DEF IndInv, TypeOK, ClientStates, ServerStates, Results, OpenTx
<1>2. ForcedIsLate'
  BY DEF IndInv, TypeOK, ForcedIsLate
<1>3. ASSUME NEW q \in Requests PROVE RequestOK(q)'
  <2>1. KindOK(q)'
    BY OrderRequestsAssumption DEF IndInv, RequestOK, TypeOK, KindOK,
       Requests, GRPCCodes, Results
  <2>2. EndsOK(q)'
    BY OrderRequestsAssumption DEF IndInv, RequestOK, TypeOK, EndsOK, KindOK,
       Active, Handling, ConnectionBroken, ForcedIsLate, GRPCCodes, Results
  <2>3. RowOK(q)'
    BY OrderRequestsAssumption DEF IndInv, RequestOK, TypeOK, RowOK, KindOK,
       EndsOK, Told, Written, Unwritten, Found, Active
  <2>4. StopOK(q)'
    BY DEF IndInv, RequestOK, TypeOK, StopOK, EndsOK, Active, Handling,
       ConnectionBroken, ForcedIsLate, GRPCCodes
  <2>5. ErrorOK(q)'
    BY OrderRequestsAssumption DEF IndInv, RequestOK, TypeOK, ErrorOK, EndsOK,
       KindOK, StopOK, Excuse, Failing, Active, ConnectionBroken,
       ForcedIsLate, RowOK, Found, Requests
  <2>6. Told(q)'
    BY OrderRequestsAssumption DEF IndInv, RequestOK, TypeOK, Told, RowOK,
       KindOK, EndsOK, Written, Unwritten, Found, Active
  <2>7. Excused(q)'
    BY OrderRequestsAssumption DEF IndInv, RequestOK, TypeOK, Excused,
       ErrorOK, StopOK, EndsOK, KindOK, Excuse, Failing, Active, Handling
  <2> QED
    BY <2>1, <2>2, <2>3, <2>4, <2>5, <2>6, <2>7 DEF RequestOK
<1> QED
  BY <1>1, <1>2, <1>3 DEF IndInv

LEMMA KillInv ==
  ASSUME IndInv, Kill
  PROVE  IndInv'
<1> USE DEF Kill, Fault, ServiceGone, ServicePhase, request
<1>1. TypeOK'
  BY DEF IndInv, TypeOK, ClientStates, ServerStates, Results, FaultKinds,
     OpenTx
<1>2. ForcedIsLate'
  BY DEF IndInv, TypeOK, ForcedIsLate
<1>3. ASSUME NEW q \in Requests PROVE RequestOK(q)'
  <2>1. KindOK(q)'
    BY OrderRequestsAssumption DEF IndInv, RequestOK, TypeOK, KindOK,
       Requests, GRPCCodes, Results
  <2>2. EndsOK(q)'
    BY OrderRequestsAssumption DEF IndInv, RequestOK, TypeOK, EndsOK, KindOK,
       Active, Handling, ConnectionBroken, ForcedIsLate, GRPCCodes, Results
  <2>3. RowOK(q)'
    BY OrderRequestsAssumption DEF IndInv, RequestOK, TypeOK, RowOK, KindOK,
       EndsOK, Told, Written, Unwritten, Found, Active
  <2>4. StopOK(q)'
    BY DEF IndInv, RequestOK, TypeOK, StopOK, EndsOK, Active, Handling,
       ConnectionBroken, ForcedIsLate, GRPCCodes
  <2>5. ErrorOK(q)'
    BY OrderRequestsAssumption DEF IndInv, RequestOK, TypeOK, ErrorOK, EndsOK,
       KindOK, StopOK, Excuse, Failing, Active, ConnectionBroken,
       ForcedIsLate, RowOK, Found, Requests
  <2>6. Told(q)'
    BY OrderRequestsAssumption DEF IndInv, RequestOK, TypeOK, Told, RowOK,
       KindOK, EndsOK, Written, Unwritten, Found, Active
  <2>7. Excused(q)'
    BY OrderRequestsAssumption DEF IndInv, RequestOK, TypeOK, Excused,
       ErrorOK, StopOK, EndsOK, KindOK, Excuse, Failing, Active, Handling
  <2> QED
    BY <2>1, <2>2, <2>3, <2>4, <2>5, <2>6, <2>7 DEF RequestOK
<1> QED
  BY <1>1, <1>2, <1>3 DEF IndInv

LEMMA GatewayTerminateInv ==
  ASSUME IndInv, GatewayTerminate
  PROVE  IndInv'
<1> USE DEF GatewayTerminate, request
<1>1. TypeOK'
  BY DEF IndInv, TypeOK, OpenTx
<1>2. ForcedIsLate'
  BY DEF IndInv, TypeOK, ForcedIsLate
<1>3. ASSUME NEW q \in Requests PROVE RequestOK(q)'
  <2>1. KindOK(q)'
    BY OrderRequestsAssumption DEF IndInv, RequestOK, TypeOK, KindOK,
       Requests, GRPCCodes, Results
  <2>2. EndsOK(q)'
    BY OrderRequestsAssumption DEF IndInv, RequestOK, TypeOK, EndsOK, KindOK,
       Active, Handling, ConnectionBroken, ForcedIsLate, GRPCCodes, Results
  <2>3. RowOK(q)'
    BY OrderRequestsAssumption DEF IndInv, RequestOK, TypeOK, RowOK, KindOK,
       EndsOK, Told, Written, Unwritten, Found, Active
  <2>4. StopOK(q)'
    BY DEF IndInv, RequestOK, TypeOK, StopOK, EndsOK, Active, Handling,
       ConnectionBroken, ForcedIsLate, GRPCCodes
  <2>5. ErrorOK(q)'
    BY OrderRequestsAssumption DEF IndInv, RequestOK, TypeOK, ErrorOK, EndsOK,
       KindOK, StopOK, Excuse, Failing, Active, ConnectionBroken,
       ForcedIsLate, RowOK, Found, Requests
  <2>6. Told(q)'
    BY OrderRequestsAssumption DEF IndInv, RequestOK, TypeOK, Told, RowOK,
       KindOK, EndsOK, Written, Unwritten, Found, Active
  <2>7. Excused(q)'
    BY OrderRequestsAssumption DEF IndInv, RequestOK, TypeOK, Excused,
       ErrorOK, StopOK, EndsOK, KindOK, Excuse, Failing, Active, Handling
  <2> QED
    BY <2>1, <2>2, <2>3, <2>4, <2>5, <2>6, <2>7 DEF RequestOK
<1> QED
  BY <1>1, <1>2, <1>3 DEF IndInv

LEMMA GatewayDeadlineInv ==
  ASSUME IndInv, GatewayDeadline
  PROVE  IndInv'
<1> USE DEF GatewayDeadline, request
<1>1. TypeOK'
  BY DEF IndInv, TypeOK, OpenTx
<1>2. ForcedIsLate'
  BY DEF IndInv, TypeOK, ForcedIsLate
<1>3. ASSUME NEW q \in Requests PROVE RequestOK(q)'
  <2>1. KindOK(q)'
    BY OrderRequestsAssumption DEF IndInv, RequestOK, TypeOK, KindOK,
       Requests, GRPCCodes, Results
  <2>2. EndsOK(q)'
    BY OrderRequestsAssumption DEF IndInv, RequestOK, TypeOK, EndsOK, KindOK,
       Active, Handling, ConnectionBroken, ForcedIsLate, GRPCCodes, Results
  <2>3. RowOK(q)'
    BY OrderRequestsAssumption DEF IndInv, RequestOK, TypeOK, RowOK, KindOK,
       EndsOK, Told, Written, Unwritten, Found, Active
  <2>4. StopOK(q)'
    BY DEF IndInv, RequestOK, TypeOK, StopOK, EndsOK, Active, Handling,
       ConnectionBroken, ForcedIsLate, GRPCCodes
  <2>5. ErrorOK(q)'
    BY OrderRequestsAssumption DEF IndInv, RequestOK, TypeOK, ErrorOK, EndsOK,
       KindOK, StopOK, Excuse, Failing, Active, ConnectionBroken,
       ForcedIsLate, RowOK, Found, Requests
  <2>6. Told(q)'
    BY OrderRequestsAssumption DEF IndInv, RequestOK, TypeOK, Told, RowOK,
       KindOK, EndsOK, Written, Unwritten, Found, Active
  <2>7. Excused(q)'
    BY OrderRequestsAssumption DEF IndInv, RequestOK, TypeOK, Excused,
       ErrorOK, StopOK, EndsOK, KindOK, Excuse, Failing, Active, Handling
  <2> QED
    BY <2>1, <2>2, <2>3, <2>4, <2>5, <2>6, <2>7 DEF RequestOK
<1> QED
  BY <1>1, <1>2, <1>3 DEF IndInv

LEMMA GatewayShutdownInv ==
  ASSUME IndInv, GatewayShutdown
  PROVE  IndInv'
<1> USE DEF GatewayShutdown, GatewayIdle, request
<1>1. TypeOK'
  BY DEF IndInv, TypeOK, OpenTx
<1>2. ForcedIsLate'
  BY DEF IndInv, TypeOK, ForcedIsLate
<1>3. ASSUME NEW q \in Requests PROVE RequestOK(q)'
  <2>1. KindOK(q)'
    BY OrderRequestsAssumption DEF IndInv, RequestOK, TypeOK, KindOK,
       Requests, GRPCCodes, Results
  <2>2. EndsOK(q)'
    BY OrderRequestsAssumption DEF IndInv, RequestOK, TypeOK, EndsOK, KindOK,
       Active, Handling, ConnectionBroken, ForcedIsLate, GRPCCodes, Results
  <2>3. RowOK(q)'
    BY OrderRequestsAssumption DEF IndInv, RequestOK, TypeOK, RowOK, KindOK,
       EndsOK, Told, Written, Unwritten, Found, Active
  <2>4. StopOK(q)'
    BY DEF IndInv, RequestOK, TypeOK, StopOK, EndsOK, Active, Handling,
       ConnectionBroken, ForcedIsLate, GRPCCodes
  <2>5. ErrorOK(q)'
    BY OrderRequestsAssumption DEF IndInv, RequestOK, TypeOK, ErrorOK, EndsOK,
       KindOK, StopOK, Excuse, Failing, Active, ConnectionBroken,
       ForcedIsLate, RowOK, Found, Requests
  <2>6. Told(q)'
    BY OrderRequestsAssumption DEF IndInv, RequestOK, TypeOK, Told, RowOK,
       KindOK, EndsOK, Written, Unwritten, Found, Active
  <2>7. Excused(q)'
    BY OrderRequestsAssumption DEF IndInv, RequestOK, TypeOK, Excused,
       ErrorOK, StopOK, EndsOK, KindOK, Excuse, Failing, Active, Handling
  <2> QED
    BY <2>1, <2>2, <2>3, <2>4, <2>5, <2>6, <2>7 DEF RequestOK
<1> QED
  BY <1>1, <1>2, <1>3 DEF IndInv

LEMMA GatewayExitInv ==
  ASSUME IndInv, GatewayExit
  PROVE  IndInv'
<1> USE DEF GatewayExit, request
<1>1. TypeOK'
  BY DEF IndInv, TypeOK, ClientStates, GatewayStates, GRPCCodes, OpenTx
<1>2. ForcedIsLate'
  BY DEF IndInv, TypeOK, ForcedIsLate
<1>3. ASSUME NEW q \in Requests PROVE RequestOK(q)'
  <2>1. KindOK(q)'
    BY OrderRequestsAssumption DEF IndInv, RequestOK, TypeOK, KindOK,
       Requests, GRPCCodes, Results
  <2>2. EndsOK(q)'
    BY OrderRequestsAssumption DEF IndInv, RequestOK, TypeOK, EndsOK, KindOK,
       Active, Handling, ConnectionBroken, ForcedIsLate, GRPCCodes, Results
  <2>3. RowOK(q)'
    BY OrderRequestsAssumption DEF IndInv, RequestOK, TypeOK, RowOK, KindOK,
       EndsOK, Told, Written, Unwritten, Found, Active
  <2>4. StopOK(q)'
    BY DEF IndInv, RequestOK, TypeOK, StopOK, EndsOK, Active, Handling,
       ConnectionBroken, ForcedIsLate, GRPCCodes
  <2>5. ErrorOK(q)'
    BY OrderRequestsAssumption DEF IndInv, RequestOK, TypeOK, ErrorOK, EndsOK,
       KindOK, StopOK, Excuse, Failing, Active, ConnectionBroken,
       ForcedIsLate, RowOK, Found, Requests
  <2>6. Told(q)'
    BY OrderRequestsAssumption DEF IndInv, RequestOK, TypeOK, Told, RowOK,
       KindOK, EndsOK, Written, Unwritten, Found, Active
  <2>7. Excused(q)'
    BY OrderRequestsAssumption DEF IndInv, RequestOK, TypeOK, Excused,
       ErrorOK, StopOK, EndsOK, KindOK, Excuse, Failing, Active, Handling
  <2> QED
    BY <2>1, <2>2, <2>3, <2>4, <2>5, <2>6, <2>7 DEF RequestOK
<1> QED
  BY <1>1, <1>2, <1>3 DEF IndInv

LEMMA NextInv == IndInv /\ [Next]_vars => IndInv'
<1> SUFFICES ASSUME IndInv, [Next]_vars PROVE IndInv'
  OBVIOUS
<1>1. CASE UNCHANGED vars
  <2>1. TypeOK' /\ ForcedIsLate'
    BY <1>1 DEF IndInv, vars, request, TypeOK, ForcedIsLate, OpenTx
  <2>2. ASSUME NEW q \in Requests PROVE RequestOK(q)'
    BY <1>1 DEF IndInv, vars, request, RequestOK, KindOK, EndsOK, RowOK, StopOK,
       ErrorOK, Told, Excused, Excuse, Failing, Active, Handling,
       ConnectionBroken, Written, Unwritten, Found
  <2> QED
    BY <2>1, <2>2 DEF IndInv
<1>2. ASSUME NEW r \in Requests, ClientNext(r) PROVE IndInv'
  BY <1>2, SendInv, LeaveInv DEF ClientNext
<1>3. ASSUME NEW r \in Requests, GatewayBody(r) \/ DirectBody(r) PROVE IndInv'
  BY <1>3, GatewayBodyInv, DirectBodyInv
<1>4. ASSUME NEW r \in Requests, GatewayStep(r) PROVE IndInv'
  BY <1>4, InvokeInv, InvokeUnavailableInv, CallCanceledInv, RpcBrokenInv,
     GatewayReplyInv DEF GatewayStep
<1>5. ASSUME NEW r \in Requests, ServerStep(r) PROVE IndInv'
  BY <1>5, BeginTxInv, CommitTxInv, GetRowInv, GetItemsInv, DbRefusesInv,
     ReturnInv DEF ServerStep
<1>6. ASSUME NEW r \in Requests, DbFaults(r) PROVE IndInv'
  BY <1>6, DbErrorInv, CommitReplyLostInv, GetItemsCutInv DEF DbFaults
<1>7. CASE Terminate \/ Deadline \/ ServiceMain \/ Kill
  BY <1>7, TerminateInv, DeadlineInv, HttpShutdownInv, GracefulStopInv, StopInv,
     ClosePoolInv, ExitInv, KillInv DEF ServiceMain
<1>8. CASE GatewayTerminate \/ GatewayDeadline \/ GatewayMain
  BY <1>8, GatewayTerminateInv, GatewayDeadlineInv, GatewayShutdownInv,
     GatewayExitInv DEF GatewayMain
<1> QED
  BY <1>1, <1>2, <1>3, <1>4, <1>5, <1>6, <1>7, <1>8 DEF Next

-----------------------------------------------------------------------------
(* The stored totals *)

LEMMA ChargedInit == Init => Charged
BY DEF Init, Charged, ChargedOK, Requests

\* A cart is set once, before there is a row, and checked before the handler
\* that commits it runs.
LEMMA ChargedNext == IndInv /\ Charged /\ [Next]_vars => Charged'
<1> SUFFICES ASSUME IndInv, Charged, [Next]_vars, NEW o \in Creates
             PROVE  ChargedOK(o)'
  BY DEF Charged
<1>1. ChargedOK(o) /\ o \in Requests /\ o \notin Gets
  BY OrderRequestsAssumption DEF Charged, Requests
<1>2. TypeOK /\ KindOK(o) /\ EndsOK(o) /\ Told(o)
  BY <1>1 DEF IndInv, RequestOK
<1> USE DEF ChargedOK, request, Goto, Become, Tell
<1>3. CASE UNCHANGED vars
  BY <1>1, <1>3 DEF vars
<1>4. ASSUME NEW r \in Requests, ClientNext(r) PROVE ChargedOK(o)'
  <2>1. ASSUME NEW v \in {"gateway", "direct"},
               NEW c \in IF r \in Creates THEN Carts ELSE {<<>>}, Send(r, v, c)
        PROVE  ChargedOK(o)'
    BY <1>1, <1>2, <2>1 DEF Send, TypeOK, Told, EndsOK
  <2> QED
    BY <1>1, <1>4, <2>1 DEF ClientNext, Leave
<1>5. ASSUME NEW r \in Requests, GatewayBody(r) \/ DirectBody(r) PROVE ChargedOK(o)'
  BY <1>1, <1>2, <1>5 DEF GatewayBody, DirectBody, Accepted, TypeOK
<1>6. ASSUME NEW r \in Requests, GatewayStep(r) PROVE ChargedOK(o)'
  <2>1. ASSUME Invoke(r) PROVE ChargedOK(o)'
    BY <1>1, <1>2, <2>1 DEF Invoke, Accepted, TypeOK
  <2>2. ASSUME ~Invoke(r) PROVE ChargedOK(o)'
    BY <1>1, <1>2, <1>6, <2>2 DEF GatewayStep, InvokeUnavailable, CallCanceled, RpcBroken,
       GatewayReply, TypeOK
  <2> QED
    BY <2>1, <2>2
<1>7. ASSUME NEW r \in Requests, ServerStep(r) PROVE ChargedOK(o)'
  <2>1. ASSUME CommitTx(r) PROVE ChargedOK(o)'
    BY <1>1, <1>2, <2>1 DEF CommitTx, Insert, TypeOK
  <2>2. ASSUME Return(r) PROVE ChargedOK(o)'
    BY <1>1, <1>2, <2>2 DEF Return, Results, GRPCStatus, mapDomainErrToGRPC, TypeOK
  <2>3. ASSUME BeginTx(r) \/ GetRow(r) \/ GetItems(r) \/ DbRefuses(r) PROVE ChargedOK(o)'
    BY <1>1, <1>2, <2>3 DEF BeginTx, GetRow, GetItems, DbRefuses, TypeOK
  <2> QED
    BY <1>7, <2>1, <2>2, <2>3 DEF ServerStep
<1>8. ASSUME NEW r \in Requests, DbFaults(r) PROVE ChargedOK(o)'
  <2>1. ASSUME CommitReplyLost(r) PROVE ChargedOK(o)'
    BY <1>1, <1>2, <2>1 DEF CommitReplyLost, Insert, TypeOK
  <2>2. ASSUME DbError(r) \/ GetItemsCut(r) PROVE ChargedOK(o)'
    BY <1>1, <1>2, <2>2 DEF DbError, GetItemsCut, TypeOK
  <2> QED
    BY <1>8, <2>1, <2>2 DEF DbFaults
<1>9. CASE Terminate \/ Deadline \/ ServiceMain \/ Kill
  BY <1>1, <1>2, <1>9 DEF Terminate, Deadline, ServiceMain, HttpShutdown, GracefulStop, Stop,
     ClosePool, Exit, Kill, ServiceGone
<1>10. CASE GatewayTerminate \/ GatewayDeadline \/ GatewayMain
  BY <1>1, <1>2, <1>10 DEF GatewayTerminate, GatewayDeadline, GatewayMain, GatewayShutdown,
     GatewayExit
<1> QED
  BY <1>3, <1>4, <1>5, <1>6, <1>7, <1>8, <1>9, <1>10 DEF Next

\* What was stored for a cart is exact if the cart's price fits an amount.
LEMMA ChargedIsExact == IndInv /\ Charged => TotalIsExact
<1> SUFFICES ASSUME IndInv, Charged, NEW o \in Creates, stored[o] # NoRow
             PROVE  /\ Price(cart[o]) < Limit => stored[o][1].amount = Price(cart[o])
                    /\ \A i \in DOMAIN cart[o] :
                          (\A j \in DOMAIN cart[o] : cart[o][i].currency = cart[o][j].currency)
                             => stored[o][1].currency = cart[o][i].currency
  BY DEF TotalIsExact
<1> DEFINE c == cart[o]
<1>1. stored[o] = <<Total(c)>> /\ Valid(c)
  BY DEF Charged, ChargedOK
<1>2. c \in Carts
  <2>1. KindOK(o) /\ Told(o)
    BY DEF IndInv, RequestOK, Requests
  <2> QED
    BY <2>1 DEF KindOK, Told
<1> HIDE DEF c
<1>3. stored[o][1] = Total(c) /\ 1 \in DOMAIN c
  BY <1>1, <1>2, LinesOf
<1>4. /\ Total(c).currency = c[1].currency
      /\ Price(c) < Limit => Total(c).amount = Price(c)
  BY <1>1, <1>2, TotalFits
<1> QED
  BY <1>3, <1>4 DEF c

-----------------------------------------------------------------------------
\* The inductive invariant: how far each end of a call can be as the other
\* end sees it, what a result on its way back stands for, and the excuse that
\* every error carries from where it comes up to the client.
THEOREM Invariant == Spec => []IndInv
  BY InvInit, NextInv, PTL DEF Spec

\* The requests are well-typed, and main has not returned while one of their
\* transactions is open (the deferred pool.Close, main.go:45).
THEOREM TypeCorrect == Spec => []TypeOK
  BY Invariant, Consequences, PTL

\* What a client was told of its order is so, whatever is lost on the way and
\* whenever the processes stop (SaveWithEvent and GetByID).
THEOREM Truthful == Spec => []CreatedIsStored
  BY Invariant, Consequences, PTL

\* No request fails for a reason that is not one of those: a stop in time
\* fails nothing that had begun, and who was told 201 finds the order
\* (main.go:104-127 of the order service, main.go:89-100 of the gateway).
THEOREM NoFailureWithoutExcuse == Spec => []FailureIsExcused
  BY Invariant, Consequences, PTL

\* The stored total is exactly the price of the cart that was sent, whenever
\* that price fits an amount: no partial result on the way overflows, and what
\* does not obey the binding rules is not stored (order.go:78-110).
THEOREM ChargedExactly == Spec => []TotalIsExact
<1>1. Spec => []Charged
  BY ChargedInit, ChargedNext, Invariant, PTL DEF Spec
<1> QED
  BY <1>1, Invariant, ChargedIsExact, PTL

=============================================================================
