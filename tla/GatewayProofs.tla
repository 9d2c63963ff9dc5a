--------------------------- MODULE GatewayProofs ----------------------------
(***************************************************************************)
(* The token bucket keeps its limit, and is never stricter than the limit, *)
(* for any number of requests, gateways and clocks.                        *)
(***************************************************************************)
EXTENDS Gateway, TLAPS

\* A reading is at most MaxDelay old when the script gets it.
ReadingRecent ==
    \A r \in Requests : req[r].pc = "eval" =>
        /\ req[r].at <= now /\ now <= req[r].at + MaxDelay
        /\ \E g \in Gateways : req[r].clock = req[r].at + Skew[g]

\* The last grant renewed the bucket's life.
LastGrant ==
    /\ bucket.expires <= now + BucketTTL
    /\ granted # <<>> =>
          \E h \in Gateways :
              granted[Len(granted)] <= bucket.expires - BucketTTL + Skew[h]

\* No window up to now leaves the bucket more than the limit leaves ...
NeverMore ==
    \A i \in DOMAIN granted :
        bucket.tokens + (Len(granted) - i + 1)
            <= Capacity + RefillRate * (bucket.last - granted[i])

\* ... and one of them leaves it no more than the bucket has.
NeverLess ==
    BucketExists =>
        \E i \in DOMAIN granted :
            bucket.tokens + (Len(granted) - i + 1)
                >= Capacity + RefillRate * (bucket.last - granted[i])

IndInv ==
    /\ TypeOK
    /\ ReadingRecent
    /\ LastGrant
    /\ NeverMore
    /\ NeverLess
    /\ WindowBounded

-----------------------------------------------------------------------------
(* Arithmetic *)

\* Refills of two spans in a row are the refill of both.
LEMMA Spans ==
    ASSUME NEW R \in Int, NEW a \in Int, NEW b \in Int, NEW d \in Int
    PROVE  /\ R * (a - d) = R * (a - b) + R * (b - d)
           /\ (a - b) * R = R * (a - b)
           /\ R * (a - b) \in Int /\ R * (b - d) \in Int
           /\ R * (a - a) = 0
  OBVIOUS

LEMMA Monotonic ==
    ASSUME NEW R \in Nat, NEW a \in Int, NEW b \in Int, a >= b
    PROVE  /\ R * a \in Int /\ R * b \in Int
           /\ R * a >= R * b
<1>1. R * (a - b) >= 0 /\ R * a = R * b + R * (a - b)
  OBVIOUS
<1> QED
  BY <1>1

LEMMA ConstantTypes ==
    /\ TTL \in Nat \ {0} /\ MaxFill \in Nat
    /\ Capacity \in Nat /\ Capacity >= 1 /\ RefillRate \in Nat
    /\ BucketTTL \in Nat /\ MaxDelay \in Nat
    /\ \A g \in Gateways : Skew[g] \in Int
  BY GatewayAssumption

-----------------------------------------------------------------------------
(* The script *)

\* What a call of the script may rest on.
Reading(c) ==
    /\ c \in Int
    /\ \E g \in Gateways : c \in (now - MaxDelay + Skew[g])..(now + Skew[g])

\* The refill keeps every window that ends with this call within the limit.
LEMMA RefillBounded ==
    ASSUME IndInv, NEW c, Reading(c), NEW i \in DOMAIN granted
    PROVE  Refill(c) + (Len(granted) - i + 1) <= Capacity + RefillRate * (c - granted[i])
<1> DEFINE n == Len(granted)
<1>1. /\ c \in Int /\ n \in Nat /\ RefillRate \in Nat /\ Capacity \in Int
      /\ bucket.tokens \in Int /\ bucket.last \in Int
      /\ granted[i] \in Int /\ granted[n] \in Int /\ i \in 1..n
  <2>1. /\ granted \in Seq(Int)
        /\ bucket.tokens \in Int /\ bucket.last \in Int
    BY DEF IndInv, TypeOK
  <2>2. n \in Nat /\ i \in 1..n /\ granted[i] \in Int /\ granted[n] \in Int
    BY <2>1
  <2> QED
    BY <2>1, <2>2, ConstantTypes DEF Reading
<1>2. CASE BucketExists
  <2>1. /\ Refill(c) <= bucket.tokens + (c - bucket.last) * RefillRate
        /\ Refill(c) \in Int
    <3> DEFINE e == (c - bucket.last) * RefillRate
    <3>1. e \in Int
      BY <1>1, Spans
    <3>2. Refill(c) = IF bucket.tokens + e > Capacity THEN Capacity ELSE bucket.tokens + e
      BY <1>2 DEF Refill
    <3> HIDE DEF e
    <3>3. Refill(c) <= bucket.tokens + e /\ Refill(c) \in Int
      BY <1>1, <3>1, <3>2
    <3> QED
      BY <3>3 DEF e
  <2>2. bucket.tokens + (n - i + 1)
            <= Capacity + RefillRate * (bucket.last - granted[i])
    BY DEF IndInv, NeverMore
  <2> DEFINE p == RefillRate * (c - bucket.last)
             q == RefillRate * (bucket.last - granted[i])
             k == n - i + 1
  <2>3. /\ RefillRate * (c - granted[i]) = p + q
        /\ (c - bucket.last) * RefillRate = p
        /\ p \in Int /\ q \in Int
    BY <1>1, Spans
  <2>4. k \in Int
    BY <1>1
  <2> HIDE DEF p, q, k
  <2>5. Refill(c) <= bucket.tokens + p
    BY <2>1, <2>3
  <2>6. bucket.tokens + k <= Capacity + q
    BY <2>2 DEF k, q
  <2>7. Refill(c) + k <= Capacity + (p + q)
    BY <1>1, <2>1, <2>3, <2>4, <2>5, <2>6
  <2> QED
    BY <2>3, <2>7 DEF k
<1>3. CASE ~BucketExists
  <2>1. PICK g \in Gateways : c >= now - MaxDelay + Skew[g]
    <3>1. now \in Nat
      BY DEF IndInv, TypeOK
    <3> QED
      BY <3>1, ConstantTypes DEF Reading
  <2>2. PICK h \in Gateways : granted[n] <= bucket.expires - BucketTTL + Skew[h]
    BY <1>1 DEF IndInv, LastGrant
  <2> DEFINE d == BucketTTL - MaxDelay + Skew[g] - Skew[h]
  <2>3. /\ d \in Int
        /\ c - granted[n] >= d
    <3>1. now \in Nat /\ bucket.expires \in Nat /\ bucket.expires <= now
      BY <1>3 DEF IndInv, TypeOK, BucketExists
    <3>2. /\ BucketTTL \in Int /\ MaxDelay \in Int
          /\ Skew[g] \in Int /\ Skew[h] \in Int
      BY ConstantTypes
    <3> HIDE DEF n
    <3> QED
      BY <1>1, <2>1, <2>2, <3>1, <3>2
  <2>4. RefillRate * d >= Capacity
    BY GatewayAssumption
  <2> HIDE DEF d
  <2>5. RefillRate * (c - granted[n]) >= Capacity
    <3>1. c - granted[n] \in Int
      BY <1>1
    <3>2. /\ RefillRate * d \in Int /\ RefillRate * (c - granted[n]) \in Int
          /\ RefillRate * (c - granted[n]) >= RefillRate * d
      BY <1>1, <2>3, <3>1, Monotonic
    <3> QED
      BY <1>1, <2>4, <3>2
  <2>6. n - i + 1 <= Capacity + RefillRate * (granted[n] - granted[i])
    <3>1. CASE i < n
      <4>1. i \in DOMAIN granted /\ n \in DOMAIN granted
        BY <1>1 DEF IndInv, TypeOK
      <4> QED
        BY <3>1, <4>1 DEF IndInv, WindowBounded
    <3>2. CASE i = n
      <4>1. RefillRate * (granted[n] - granted[n]) = 0
        BY <1>1, Spans
      <4> QED
        BY <1>1, <3>2, <4>1, ConstantTypes
    <3> QED
      BY <1>1, <3>1, <3>2
  <2>7. Refill(c) = Capacity
    BY <1>3 DEF Refill
  <2> DEFINE p == RefillRate * (c - granted[n])
             q == RefillRate * (granted[n] - granted[i])
             k == n - i + 1
  <2>8. /\ RefillRate * (c - granted[i]) = p + q
        /\ p \in Int /\ q \in Int /\ k \in Int
    <3>1. /\ RefillRate \in Int /\ c \in Int
          /\ granted[n] \in Int /\ granted[i] \in Int /\ k \in Int
      BY <1>1
    <3> HIDE DEF k, n
    <3> QED
      BY <3>1, Spans
  <2> HIDE DEF p, q, k
  <2>9. Capacity <= p /\ k <= Capacity + q
    BY <2>5, <2>6 DEF p, q, k
  <2>10. Capacity + k <= Capacity + (p + q)
    BY <1>1, <2>8, <2>9
  <2> QED
    BY <2>7, <2>8, <2>10 DEF k
<1> QED
  BY <1>2, <1>3

\* A refill that is not capped leaves a window no more than the bucket has.
LEMMA RefillExact ==
    ASSUME IndInv, NEW c, Reading(c), NEW i \in DOMAIN granted
    PROVE  /\ Refill(c) = bucket.tokens + (c - bucket.last) * RefillRate
           /\ bucket.tokens + (Len(granted) - i + 1)
                 >= Capacity + RefillRate * (bucket.last - granted[i])
           => Refill(c) + (Len(granted) - i + 1)
                 >= Capacity + RefillRate * (c - granted[i])
<1> DEFINE p == RefillRate * (c - bucket.last)
           q == RefillRate * (bucket.last - granted[i])
           k == Len(granted) - i + 1
<1>1. /\ c \in Int /\ RefillRate \in Int /\ Capacity \in Int
      /\ bucket.tokens \in Int /\ bucket.last \in Int
      /\ granted[i] \in Int /\ k \in Int
  BY ConstantTypes DEF IndInv, TypeOK, Reading
<1>2. /\ RefillRate * (c - granted[i]) = p + q
      /\ (c - bucket.last) * RefillRate = p
      /\ p \in Int /\ q \in Int
  BY <1>1, Spans
<1>3. SUFFICES ASSUME Refill(c) = bucket.tokens + p,
                      bucket.tokens + k >= Capacity + q
               PROVE  Refill(c) + k >= Capacity + (p + q)
  BY <1>2
<1> HIDE DEF p, q, k
<1> QED
  BY <1>1, <1>2, <1>3

\* One call of the script keeps the invariant.
LEMMA TakeTokenKeeps ==
    ASSUME IndInv, NEW c, Reading(c), TakeToken(c, Allowed(c)), UNCHANGED now
    PROVE  /\ bucket' \in [tokens : Int, last : Int, expires : Nat]
           /\ granted' \in Seq(Int)
           /\ bucket'.tokens <= Capacity
           /\ LastGrant' /\ NeverMore' /\ NeverLess' /\ WindowBounded'
<1> USE ConstantTypes
<1> DEFINE n == Len(granted)
<1>1. /\ c \in Int /\ n \in Nat /\ RefillRate \in Int /\ Capacity \in Int
      /\ bucket.tokens \in Int /\ bucket.last \in Int /\ bucket.expires \in Nat
      /\ now \in Nat /\ BucketTTL \in Nat
      /\ granted \in Seq(Int)
  BY DEF IndInv, TypeOK, Reading
<1>2. Refill(c) \in Int /\ Refill(c) <= Capacity
  BY <1>1 DEF Refill
<1>3. bucket' \in [tokens : Int, last : Int, expires : Nat]
  BY <1>1, <1>2 DEF TakeToken
<1>4. /\ bucket'.last = c /\ bucket'.expires = now + BucketTTL
      /\ bucket'.tokens = IF Allowed(c) THEN Refill(c) - 1 ELSE Refill(c)
      /\ bucket'.tokens <= Capacity
  BY <1>1, <1>2 DEF TakeToken
<1>5. \A i \in DOMAIN granted :
          /\ granted[i] \in Int /\ i \in 1..n
          /\ Refill(c) + (n - i + 1) <= Capacity + RefillRate * (c - granted[i])
  <2>1. \A i \in DOMAIN granted : granted[i] \in Int /\ i \in 1..n
    BY <1>1
  <2>2. \A i \in DOMAIN granted :
            Refill(c) + (n - i + 1) <= Capacity + RefillRate * (c - granted[i])
    BY RefillBounded
  <2> QED
    BY <2>1, <2>2
<1>6. CASE Allowed(c)
  <2>1. granted' = Append(granted, c)
    BY <1>6 DEF TakeToken
  <2>2. /\ Len(granted') = n + 1 /\ granted'[n + 1] = c
        /\ DOMAIN granted' = 1..(n + 1)
        /\ \A i \in 1..n : granted'[i] = granted[i]
        /\ granted' \in Seq(Int)
    BY <1>1, <2>1
  <2>3. Refill(c) >= 1
    BY <1>6 DEF Allowed
  <2>4. LastGrant'
    <3>1. PICK g \in Gateways : c <= now + Skew[g]
      BY DEF Reading, IndInv, TypeOK
    <3>2. Skew[g] \in Int /\ c <= bucket'.expires - BucketTTL + Skew[g]
      BY <1>1, <1>4, <3>1
    <3> QED
      BY <1>1, <1>4, <2>2, <3>2 DEF LastGrant
  <2>5. NeverMore'
    <3>1. ASSUME NEW i \in 1..n
          PROVE  Refill(c) - 1 + (n + 1 - i + 1) <= Capacity + RefillRate * (c - granted[i])
      <4>1. Refill(c) + (n - i + 1) <= Capacity + RefillRate * (c - granted[i])
        BY <1>1, <1>5
      <4>2. Refill(c) - 1 + (n + 1 - i + 1) = Refill(c) + (n - i + 1)
        BY <1>1, <1>2
      <4> QED
        BY <4>1, <4>2
    <3>2. Refill(c) - 1 + 1 <= Capacity + RefillRate * (c - c)
      BY <1>1, <1>2
    <3>3. ASSUME NEW i \in 1..(n + 1)
          PROVE  Refill(c) - 1 + (n + 1 - i + 1) <= Capacity + RefillRate * (c - granted'[i])
      <4>1. CASE i \in 1..n
        BY <4>1, <3>1, <2>2
      <4>2. CASE i = n + 1
        BY <4>2, <3>2, <2>2, <1>1, <1>2
      <4> QED
        BY <4>1, <4>2, <1>1
    <3> QED
      BY <1>4, <1>6, <2>2, <3>3 DEF NeverMore
  <2>6. WindowBounded'
    <3>1. ASSUME NEW i \in 1..n
          PROVE  n + 1 - i + 1 <= Capacity + RefillRate * (c - granted[i])
      <4> DEFINE p == RefillRate * (c - granted[i])
      <4>1. p \in Int /\ Refill(c) + (n - i + 1) <= Capacity + p
        BY <1>1, <1>5
      <4> HIDE DEF p
      <4>2. n + 1 - i + 1 <= Capacity + p
        BY <1>1, <1>2, <2>3, <4>1
      <4> QED
        BY <4>2 DEF p
    <3>2. ASSUME NEW i \in 1..(n + 1), NEW j \in 1..(n + 1), i < j
          PROVE  j - i + 1 <= Capacity + RefillRate * (granted'[j] - granted'[i])
      <4>1. CASE j \in 1..n
        <5>1. i \in 1..n /\ granted'[j] = granted[j] /\ granted'[i] = granted[i]
          <6>1. i \in 1..n
            <7>1. n \in Nat
              BY <1>1
            <7> HIDE DEF n
            <7> QED
              BY <4>1, <3>2, <7>1
          <6> QED
            BY <4>1, <6>1, <2>2
        <5>2. i \in DOMAIN granted /\ j \in DOMAIN granted
          BY <5>1, <4>1, <1>1
        <5>3. j - i + 1 <= Capacity + RefillRate * (granted[j] - granted[i])
          BY <5>2, <3>2 DEF IndInv, WindowBounded
        <5> QED
          BY <5>1, <5>3
      <4>2. CASE j = n + 1
        <5>1. i \in 1..n /\ granted'[j] = c /\ granted'[i] = granted[i]
          BY <4>2, <3>2, <2>2, <1>1
        <5> QED
          BY <5>1, <4>2, <3>1
      <4> QED
        BY <4>1, <4>2, <1>1
    <3> QED
      BY <2>2, <3>2 DEF WindowBounded
  <2>7. NeverLess'
    <3>1. CASE Refill(c) = Capacity
      <4>1. Capacity - 1 + (n + 1 - (n + 1) + 1) >= Capacity + RefillRate * (c - c)
        BY <1>1, Spans
      <4>2. n + 1 \in DOMAIN granted' /\ Len(granted') = n + 1 /\ granted'[n + 1] = c
            /\ Refill(c) - 1 + (n + 1 - (n + 1) + 1) >= Capacity + RefillRate * (c - c)
        BY <1>1, <2>2, <3>1, <4>1
      <4> QED
        <5>1. bucket'.tokens = Refill(c) - 1
          BY <1>4, <1>6
        <5> QED
          BY <4>2, <5>1, <1>4 DEF NeverLess
    <3>2. CASE Refill(c) # Capacity
      <4>1. /\ BucketExists
            /\ Refill(c) = bucket.tokens + (c - bucket.last) * RefillRate
        BY <3>2 DEF Refill
      <4>2. PICK i \in DOMAIN granted :
                bucket.tokens + (n - i + 1)
                    >= Capacity + RefillRate * (bucket.last - granted[i])
        BY <4>1 DEF IndInv, NeverLess
      <4>3. granted[i] \in Int /\ i \in 1..n
        BY <1>5
      <4>4. Refill(c) - 1 + (n + 1 - i + 1) >= Capacity + RefillRate * (c - granted[i])
        <5>1. n - i + 1 \in Int /\ Refill(c) + (n - i + 1) >= Capacity + RefillRate * (c - granted[i])
          <6>1. n - i + 1 \in Int
            BY <4>3, <1>1
          <6> QED
            BY <4>1, <4>2, <6>1, RefillExact
        <5>2. Refill(c) - 1 + (n + 1 - i + 1) = Refill(c) + (n - i + 1)
          BY <1>1, <1>2, <4>3
        <5> QED
          BY <5>1, <5>2
      <4>5. i \in DOMAIN granted' /\ granted'[i] = granted[i]
        BY <4>3, <2>2, <1>1
      <4> QED
        BY <4>4, <4>5, <1>4, <1>6, <2>2 DEF NeverLess
    <3> QED
      BY <3>1, <3>2
  <2> QED
    BY <1>3, <1>4, <2>2, <2>4, <2>5, <2>6, <2>7
<1>7. CASE ~Allowed(c)
  <2>1. granted' = granted /\ bucket'.tokens = Refill(c)
    BY <1>4, <1>7 DEF TakeToken
  <2>2. /\ BucketExists
        /\ Refill(c) = bucket.tokens + (c - bucket.last) * RefillRate
    BY <1>1, <1>7 DEF Refill, Allowed
  <2>3. LastGrant'
    <3>1. CASE granted = <<>>
      BY <3>1, <2>1, <1>1, <1>4 DEF LastGrant
    <3>2. CASE granted # <<>>
      <4>1. PICK h \in Gateways : granted[n] <= bucket.expires - BucketTTL + Skew[h]
        BY <3>2 DEF IndInv, LastGrant
      <4>2. Skew[h] \in Int /\ granted[n] \in Int
        BY <3>2, <1>1
      <4> QED
        BY <4>1, <4>2, <1>1, <1>4, <2>1 DEF IndInv, LastGrant
    <3> QED
      BY <3>1, <3>2
  <2>4. NeverMore'
    BY <1>4, <1>5, <2>1 DEF NeverMore
  <2>5. NeverLess'
    <3>1. PICK i \in DOMAIN granted :
              bucket.tokens + (n - i + 1)
                  >= Capacity + RefillRate * (bucket.last - granted[i])
      BY <2>2 DEF IndInv, NeverLess
    <3>2. granted[i] \in Int /\ i \in 1..n
      BY <1>5
    <3>3. Refill(c) + (n - i + 1) >= Capacity + RefillRate * (c - granted[i])
      BY <2>2, <3>1, RefillExact
    <3> QED
      BY <3>3, <1>4, <2>1 DEF NeverLess
  <2>6. WindowBounded'
    BY <2>1 DEF IndInv, WindowBounded
  <2> QED
    BY <1>1, <1>3, <1>4, <2>1, <2>3, <2>4, <2>5, <2>6
<1> QED
  BY <1>6, <1>7

-----------------------------------------------------------------------------
(* The steps *)

LEMMA InitIndInv == Init => IndInv
  BY GatewayAssumption DEF Init, IndInv, TypeOK, ReadingRecent, LastGrant, NeverMore,
     NeverLess, WindowBounded, BucketExists, NewRequest, RequestPCs

\* A request at the script has a reading to call it with.
LEMMA EvalReading ==
    ASSUME IndInv, NEW r \in Requests, req[r].pc = "eval"
    PROVE  Reading(req[r].clock)
<1>1. /\ req[r].at \in Nat /\ now \in Nat /\ req[r].clock \in Int /\ MaxDelay \in Nat
  BY GatewayAssumption DEF IndInv, TypeOK
<1>2. PICK g \in Gateways : req[r].clock = req[r].at + Skew[g]
  BY DEF IndInv, ReadingRecent
<1>3. req[r].at <= now /\ now <= req[r].at + MaxDelay /\ Skew[g] \in Int
  BY GatewayAssumption DEF IndInv, ReadingRecent
<1> QED
  BY <1>1, <1>2, <1>3 DEF Reading

\* A step that calls no script keeps the limiter's invariant.
LEMMA QuietKeeps ==
    ASSUME IndInv, UNCHANGED limiter, now' \in Nat, now' >= now, TypeOK', ReadingRecent'
    PROVE  IndInv'
<1>1. bucket' = bucket /\ granted' = granted
  BY DEF limiter
<1>2. now \in Nat /\ BucketTTL \in Nat /\ bucket.expires \in Nat
  BY ConstantTypes DEF IndInv, TypeOK
<1>3. BucketExists' => BucketExists
  BY <1>1, <1>2 DEF BucketExists
<1>4. LastGrant'
  BY <1>1, <1>2 DEF IndInv, LastGrant
<1>5. NeverMore' /\ WindowBounded'
  BY <1>1 DEF IndInv, NeverMore, WindowBounded
<1>6. NeverLess'
  BY <1>1, <1>3 DEF IndInv, NeverLess
<1> QED
  BY <1>4, <1>5, <1>6 DEF IndInv

ReqStates == [pc : RequestPCs, clock : Int, version : 0..version, at : Nat]

\* A request that moves on, but not to the script, keeps ReadingRecent.
LEMMA RequestMoves ==
    ASSUME IndInv, UNCHANGED <<now, version>>, NEW r \in Requests,
           NEW s \in ReqStates, s.pc # "eval", req' = [req EXCEPT ![r] = s]
    PROVE  /\ req' \in [Requests -> ReqStates']
           /\ ReadingRecent'
<1>1. /\ req \in [Requests -> ReqStates]
      /\ ReadingRecent /\ now' = now /\ ReqStates' = ReqStates
  BY DEF IndInv, TypeOK, ReqStates
<1>2. \A q \in Requests : req'[q] = IF q = r THEN s ELSE req[q]
  BY <1>1
<1>3. ASSUME NEW q \in Requests, req'[q].pc = "eval"
      PROVE  req'[q] = req[q]
  BY <1>2, <1>3
<1>4. ReadingRecent'
  BY <1>1, <1>3 DEF ReadingRecent
<1> QED
  BY <1>1, <1>4

\* Goto moves a request so.
LEMMA GotoMoves ==
    ASSUME IndInv, UNCHANGED <<now, version>>, NEW r \in Requests,
           NEW pc \in RequestPCs \ {"eval"}, Goto(r, pc)
    PROVE  /\ req' \in [Requests -> ReqStates']
           /\ ReadingRecent'
<1> DEFINE s == [NewRequest EXCEPT !.pc = pc]
<1>1. version \in Nat
  BY DEF IndInv, TypeOK
<1>2. s \in ReqStates /\ s.pc = pc
  BY <1>1 DEF NewRequest, ReqStates
<1>3. req' = [req EXCEPT ![r] = s]
  BY DEF Goto
<1> HIDE DEF s
<1> QED
  BY <1>2, <1>3, RequestMoves

\* A response moves it so.
LEMMA RespondMoves ==
    ASSUME IndInv, UNCHANGED <<now, version>>, NEW r \in Requests,
           NEW v \in 0..version, Respond(r, v)
    PROVE  /\ req' \in [Requests -> ReqStates']
           /\ ReadingRecent'
<1> DEFINE s == [req[r] EXCEPT !.pc = "served", !.version = v, !.at = now]
<1>1. req[r] \in ReqStates /\ now \in Nat
  BY DEF IndInv, TypeOK, ReqStates
<1>2. s \in ReqStates /\ s.pc = "served"
  BY <1>1 DEF ReqStates, RequestPCs
<1>3. req' = [req EXCEPT ![r] = s]
  BY DEF Respond
<1> HIDE DEF s
<1> QED
  BY <1>2, <1>3, RequestMoves

\* A call of the script, whatever request makes it, keeps the invariant.
LEMMA ScriptKeeps ==
    ASSUME IndInv, NEW r \in Requests, req[r].pc = "eval",
           TakeToken(req[r].clock, Allowed(req[r].clock)),
           NEW pc \in RequestPCs \ {"eval"}, Goto(r, pc),
           UNCHANGED <<now, order, cache>>
    PROVE  IndInv'
<1>1. now' = now /\ version' = version /\ replaced' = replaced /\ cache' = cache
  BY DEF order
<1>2. /\ bucket' \in [tokens : Int, last : Int, expires : Nat]
      /\ granted' \in Seq(Int) /\ bucket'.tokens <= Capacity
      /\ LastGrant' /\ NeverMore' /\ NeverLess' /\ WindowBounded'
  BY <1>1, EvalReading, TakeTokenKeeps
<1>3. req' \in [Requests -> ReqStates'] /\ ReadingRecent'
  BY <1>1, GotoMoves
<1>4. TypeOK'
  BY <1>1, <1>2, <1>3 DEF IndInv, TypeOK, ReqStates
<1> QED
  BY <1>2, <1>3, <1>4 DEF IndInv

LEMMA StepIndInv == IndInv /\ [Next]_vars => IndInv'
<1> SUFFICES ASSUME IndInv, [Next]_vars PROVE IndInv'
  OBVIOUS
<1> USE DEF order
<1>0. /\ now \in Nat /\ version \in Nat \ {0} /\ TypeOK
      /\ req \in [Requests -> ReqStates]
      /\ MaxDelay \in Nat /\ TTL \in Nat
  BY ConstantTypes DEF IndInv, TypeOK, ReqStates
<1>1. CASE Tick
  <2>1. /\ UNCHANGED <<version, replaced, cache, req>> /\ UNCHANGED limiter
        /\ now' = now + 1
        /\ \A r \in Requests : req[r].pc = "eval" => now < req[r].at + MaxDelay
    BY <1>1 DEF Tick
  <2>2. TypeOK'
    BY <1>0, <2>1 DEF TypeOK, limiter
  <2>3. ReadingRecent'
    <3> SUFFICES ASSUME NEW r \in Requests, req[r].pc = "eval"
                 PROVE  /\ req[r].at <= now + 1 /\ now + 1 <= req[r].at + MaxDelay
                        /\ \E g \in Gateways : req[r].clock = req[r].at + Skew[g]
      BY <2>1 DEF ReadingRecent
    <3>1. req[r].at \in Nat /\ req[r].at <= now /\ now < req[r].at + MaxDelay
      BY <1>0, <2>1 DEF IndInv, ReadingRecent, ReqStates
    <3> QED
      BY <1>0, <3>1 DEF IndInv, ReadingRecent
  <2> QED
    BY <1>0, <2>1, <2>2, <2>3, QuietKeeps
<1>2. CASE OrderChanges
  <2>1. /\ UNCHANGED <<now, cache, req>> /\ UNCHANGED limiter
        /\ version' = version + 1 /\ replaced' = Append(replaced, now)
    BY <1>2 DEF OrderChanges
  <2>2. /\ replaced' \in Seq(Nat) /\ Len(replaced') = version' - 1
    BY <1>0, <2>1 DEF TypeOK
  <2>3. /\ cache' \in [version : 0..version', expires : Nat]
        /\ req' \in [Requests -> [pc : RequestPCs, clock : Int, version : 0..version', at : Nat]]
    <3>1. 0..version \subseteq 0..version'
      BY <1>0, <2>1
    <3>2. cache' \in [version : 0..version', expires : Nat]
      BY <1>0, <2>1, <3>1 DEF TypeOK
    <3>3. \A r \in Requests :
              req[r] \in [pc : RequestPCs, clock : Int, version : 0..version', at : Nat]
      BY <1>0, <3>1 DEF ReqStates
    <3> QED
      BY <1>0, <2>1, <3>2, <3>3
  <2>4. TypeOK'
    BY <1>0, <2>1, <2>2, <2>3 DEF TypeOK, limiter
  <2>5. ReadingRecent'
    BY <2>1 DEF IndInv, ReadingRecent
  <2> QED
    BY <1>0, <2>1, <2>4, <2>5, QuietKeeps
<1>3. ASSUME NEW r \in Requests, RequestStep(r)
      PROVE  IndInv'
  <2>1. ASSUME NEW g \in Gateways, ReadClock(r, g)
        PROVE  IndInv'
    <3> DEFINE s == [req[r] EXCEPT !.pc = "eval", !.clock = now + Skew[g], !.at = now]
    <3>1. /\ UNCHANGED <<now, version, replaced, cache>> /\ UNCHANGED limiter
          /\ req' = [req EXCEPT ![r] = s]
      BY <2>1 DEF ReadClock
    <3>2. /\ s \in ReqStates
          /\ s.at = now /\ s.clock = now + Skew[g]
      <4>1. req[r] \in ReqStates /\ now + Skew[g] \in Int /\ now \in Nat
        BY <1>0, ConstantTypes
      <4> QED
        BY <4>1 DEF ReqStates, RequestPCs
    <3> HIDE DEF s
    <3>3. /\ req' \in [Requests -> ReqStates']
          /\ \A q \in Requests : req'[q] = IF q = r THEN s ELSE req[q]
      BY <1>0, <3>1, <3>2 DEF ReqStates
    <3>4. TypeOK'
      BY <1>0, <3>1, <3>3 DEF TypeOK, limiter, ReqStates
    <3>5. ReadingRecent'
      BY <1>0, <3>1, <3>2, <3>3 DEF IndInv, ReadingRecent
    <3> QED
      BY <1>0, <3>1, <3>4, <3>5, QuietKeeps
  <2>2. CASE EvalAllowed(r)
    BY <2>2, ScriptKeeps DEF EvalAllowed, RequestPCs
  <2>3. CASE EvalRefused(r)
    <3>1. TakeToken(req[r].clock, Allowed(req[r].clock))
      BY <2>3 DEF EvalRefused, TakeToken
    <3> QED
      BY <2>3, <3>1, ScriptKeeps DEF EvalRefused, RequestPCs
  <2>4. CASE EvalError(r)
    <3>1. CASE UNCHANGED limiter
      <4>1. /\ req' \in [Requests -> ReqStates'] /\ ReadingRecent'
            /\ UNCHANGED <<now, version, replaced, cache>>
        BY <2>4, GotoMoves DEF EvalError, RequestPCs
      <4>2. TypeOK'
        BY <1>0, <3>1, <4>1 DEF TypeOK, limiter, ReqStates
      <4> QED
        BY <1>0, <3>1, <4>1, <4>2, QuietKeeps
    <3>2. CASE TakeToken(req[r].clock, Allowed(req[r].clock))
      BY <2>4, <3>2, ScriptKeeps DEF EvalError, RequestPCs
    <3> QED
      BY <2>4, <3>1, <3>2 DEF EvalError
  <2>5. CASE CacheMiss(r) \/ GetOrderError(r)
    <3>1. /\ req' \in [Requests -> ReqStates'] /\ ReadingRecent'
          /\ UNCHANGED <<now, version, replaced, cache>> /\ UNCHANGED limiter
      BY <2>5, GotoMoves DEF CacheMiss, GetOrderError, RequestPCs
    <3>2. TypeOK'
      BY <1>0, <3>1 DEF TypeOK, limiter, ReqStates
    <3> QED
      BY <1>0, <3>1, <3>2, QuietKeeps
  <2>6. CASE GetOrder(r)
    <3> DEFINE s == [req[r] EXCEPT !.pc = "set", !.version = version, !.at = now]
    <3>1. /\ UNCHANGED <<now, version, replaced, cache>> /\ UNCHANGED limiter
          /\ req' = [req EXCEPT ![r] = s]
      BY <2>6 DEF GetOrder
    <3>2. s \in ReqStates /\ s.pc = "set"
      <4>1. req[r] \in ReqStates /\ version \in 0..version /\ now \in Nat
        BY <1>0
      <4> QED
        BY <4>1 DEF ReqStates, RequestPCs
    <3> HIDE DEF s
    <3>3. req' \in [Requests -> ReqStates'] /\ ReadingRecent'
      BY <3>1, <3>2, RequestMoves
    <3>4. TypeOK'
      BY <1>0, <3>1, <3>3 DEF TypeOK, limiter, ReqStates
    <3> QED
      BY <1>0, <3>1, <3>3, <3>4, QuietKeeps
  <2>7. CASE CacheHit(r) \/ CacheSet(r) \/ CacheSetError(r)
    <3>1. PICK v \in 0..version : Respond(r, v) /\ v \in {cache.version, req[r].version}
      BY <1>0, <2>7 DEF CacheHit, CacheSet, CacheSetError, ReqStates, TypeOK
    <3>2. UNCHANGED <<now, version, replaced>> /\ UNCHANGED limiter
      BY <2>7 DEF CacheHit, CacheSet, CacheSetError, limiter
    <3>3. req' \in [Requests -> ReqStates'] /\ ReadingRecent'
      BY <3>1, <3>2, RespondMoves
    <3>4. cache' \in [version : 0..version, expires : Nat]
      BY <1>0, <2>7 DEF CacheHit, CacheSet, CacheSetError, ReqStates, TypeOK
    <3>5. TypeOK'
      BY <1>0, <3>2, <3>3, <3>4 DEF TypeOK, limiter, ReqStates
    <3> QED
      BY <1>0, <3>2, <3>3, <3>5, QuietKeeps
  <2> QED
    BY <1>3, <2>1, <2>2, <2>3, <2>4, <2>5, <2>6, <2>7 DEF RequestStep
<1>4. CASE UNCHANGED vars
  <2>1. UNCHANGED <<now, version, replaced, bucket, granted, cache, req>>
    BY <1>4 DEF vars
  <2> QED
    BY <2>1 DEF IndInv, TypeOK, ReadingRecent, LastGrant, NeverMore, NeverLess,
       WindowBounded, BucketExists
<1> QED
  BY <1>1, <1>2, <1>3, <1>4 DEF Next

\* A full bucket refuses nobody, and the one window that NeverLess knows of
\* is the reason of every refusal.
LEMMA RefusalFromIndInv == IndInv => RefusedForAReason
<1> SUFFICES ASSUME IndInv, NEW r \in Requests, req[r].pc = "eval", ~Allowed(req[r].clock)
             PROVE  \E i \in DOMAIN granted :
                        Len(granted) - i + 2
                            > Capacity + RefillRate * (req[r].clock - granted[i])
  BY DEF RefusedForAReason
<1> DEFINE c == req[r].clock
<1>1. /\ c \in Int /\ Capacity \in Nat /\ Capacity >= 1 /\ RefillRate \in Int
      /\ bucket.tokens \in Int /\ bucket.last \in Int
  BY ConstantTypes DEF IndInv, TypeOK
<1>2. Reading(c)
  BY EvalReading
<1> HIDE DEF c
<1>3. (c - bucket.last) * RefillRate \in Int
  BY <1>1, Spans
<1>4. /\ BucketExists
      /\ Refill(c) = bucket.tokens + (c - bucket.last) * RefillRate
      /\ Refill(c) \in Int /\ Refill(c) <= 0
  <2>1. ~(Refill(c) >= 1)
    BY DEF Allowed, c
  <2> QED
    BY <1>1, <1>3, <2>1 DEF Refill
<1>5. PICK i \in DOMAIN granted :
          bucket.tokens + (Len(granted) - i + 1)
              >= Capacity + RefillRate * (bucket.last - granted[i])
  BY <1>4 DEF IndInv, NeverLess
<1>6. Refill(c) + (Len(granted) - i + 1) >= Capacity + RefillRate * (c - granted[i])
  BY <1>2, <1>4, <1>5, RefillExact
<1> DEFINE p == RefillRate * (c - granted[i])
<1>7. p \in Int /\ Len(granted) \in Nat /\ i \in Nat
  <2>1. granted \in Seq(Int)
    BY DEF IndInv, TypeOK
  <2>2. granted[i] \in Int /\ Len(granted) \in Nat /\ i \in Nat
    BY <2>1
  <2> QED
    BY <1>1, <2>2, Spans
<1> HIDE DEF p
<1>8. Refill(c) + (Len(granted) - i + 1) >= Capacity + p
  BY <1>6 DEF p
<1>9. Len(granted) - i + 2 > Capacity + p
  BY <1>1, <1>4, <1>7, <1>8
<1> QED
  BY <1>9 DEF p, c

-----------------------------------------------------------------------------
(* Theorems *)

\* Types, and a bucket that never holds more than its capacity.
THEOREM TypeCorrect == Spec => []TypeOK
<1>1. IndInv => TypeOK
  BY DEF IndInv
<1> QED
  BY <1>1, InitIndInv, StepIndInv, PTL DEF Spec

\* However many gateways take tokens with however different clocks, and
\* however often the bucket is forgotten, no window holds more grants than
\* the limit.
THEOREM LimitKept == Spec => []WindowBounded
<1>1. IndInv => WindowBounded
  BY DEF IndInv
<1> QED
  BY <1>1, InitIndInv, StepIndInv, PTL DEF Spec

\* And no request is refused that the limit would have let pass.
THEOREM LimitExact == Spec => []RefusedForAReason
<1> QED
  BY RefusalFromIndInv, InitIndInv, StepIndInv, PTL DEF Spec

-----------------------------------------------------------------------------
(* The cache *)

\* Version v was current at time t, or less than d ticks earlier.
CurrentBefore(v, t, d) == v < version => t < replaced[v] + d

\* An entry and an answer are as old as the reads they come from.
FillInv ==
    /\ \A v \in DOMAIN replaced : replaced[v] <= now
    /\ cache.expires <= now + TTL
    /\ Cached =>
          /\ cache.version >= 1
          /\ CurrentBefore(cache.version, cache.expires, TTL + MaxFill + 1)
    /\ \A r \in Requests : req[r].pc = "set" =>
          /\ req[r].version >= 1
          /\ req[r].at <= now /\ now <= req[r].at + MaxFill
          /\ CurrentBefore(req[r].version, req[r].at, 1)
    /\ \A r \in Requests : req[r].pc = "served" =>
          /\ req[r].version >= 1
          /\ req[r].at <= now
          /\ CurrentBefore(req[r].version, req[r].at, TTL + MaxFill)

LEMMA StepFillInv ==
    ASSUME TypeOK, TypeOK', FillInv, [Next]_vars
    PROVE  FillInv'
<1> USE DEF order
<1>0. /\ now \in Nat /\ version \in Nat \ {0}
      /\ replaced \in Seq(Nat) /\ DOMAIN replaced = 1..(version - 1)
      /\ req \in [Requests -> ReqStates]
      /\ cache \in [version : 0..version, expires : Nat]
      /\ MaxFill \in Nat /\ TTL \in Nat \ {0}
  <2>1. /\ version \in Nat \ {0}
        /\ replaced \in Seq(Nat) /\ Len(replaced) = version - 1
    BY DEF TypeOK
  <2>2. DOMAIN replaced = 1..(version - 1)
    BY <2>1
  <2>3. /\ now \in Nat /\ req \in [Requests -> ReqStates]
        /\ cache \in [version : 0..version, expires : Nat]
    BY DEF TypeOK, ReqStates
  <2> QED
    BY <2>1, <2>2, <2>3, ConstantTypes
<1>1. \A v \in 1..(version - 1) : replaced[v] \in Nat /\ replaced[v] <= now
  <2>1. ASSUME NEW v \in 1..(version - 1)
        PROVE  replaced[v] \in Nat
    BY <1>0
  <2> QED
    BY <1>0, <2>1 DEF FillInv
<1>2. \A r \in Requests :
          /\ req[r].version \in 0..version /\ req[r].at \in Nat
          /\ req[r] \in ReqStates
  BY <1>0 DEF ReqStates
<1>3. CASE Tick
  <2>1. /\ now' = now + 1 /\ UNCHANGED <<version, replaced, cache, req>>
        /\ \A r \in Requests : req[r].pc = "set" => now < req[r].at + MaxFill
    BY <1>3 DEF Tick
  <2>2. Cached' => Cached
    BY <1>0, <2>1 DEF Cached
  <2>3. \A r \in Requests : req[r].at <= now => req[r].at <= now + 1
    BY <1>0, <1>2
  <2>4. \A r \in Requests : req[r].pc = "set" => now + 1 <= req[r].at + MaxFill
    BY <1>0, <1>2, <2>1
  <2>5. cache.expires <= now + 1 + TTL /\ \A v \in DOMAIN replaced : replaced[v] <= now + 1
    BY <1>0, <1>1 DEF FillInv
  <2> QED
    BY <2>1, <2>2, <2>3, <2>4, <2>5 DEF FillInv, CurrentBefore
<1>4. CASE OrderChanges
  <2>1. /\ UNCHANGED <<now, cache, req>>
        /\ version' = version + 1 /\ replaced' = Append(replaced, now)
    BY <1>4 DEF OrderChanges
  <2>2. /\ DOMAIN replaced' = 1..version
        /\ replaced'[version] = now
        /\ \A v \in 1..(version - 1) : replaced'[v] = replaced[v]
    BY <1>0, <2>1
  <2>3. ASSUME NEW v \in 1..version, NEW t \in Nat, NEW d \in Nat,
               CurrentBefore(v, t, d), t < now + d
        PROVE  CurrentBefore(v, t, d)'
    <3>1. CASE v = version
      BY <2>2, <2>3, <3>1 DEF CurrentBefore
    <3>2. CASE v \in 1..(version - 1)
      BY <1>0, <2>2, <2>3, <3>2 DEF CurrentBefore
    <3> QED
      BY <1>0, <3>1, <3>2
  <2>4. \A v \in DOMAIN replaced' : replaced'[v] <= now'
    BY <1>0, <1>1, <2>1, <2>2
  <2>5. Cached' => /\ cache'.version >= 1
                   /\ CurrentBefore(cache.version, cache.expires, TTL + MaxFill + 1)'
    BY <1>0, <2>1, <2>3 DEF FillInv, Cached
  <2>6. ASSUME NEW r \in Requests, req[r].pc = "set"
        PROVE  CurrentBefore(req[r].version, req[r].at, 1)'
    <3>1. /\ req[r].version \in 1..version /\ req[r].at \in Nat
          /\ req[r].at < now + 1
          /\ CurrentBefore(req[r].version, req[r].at, 1)
      BY <1>0, <1>2, <2>6 DEF FillInv
    <3> QED
      BY <2>1, <2>3, <3>1
  <2>7. ASSUME NEW r \in Requests, req[r].pc = "served"
        PROVE  CurrentBefore(req[r].version, req[r].at, TTL + MaxFill)'
    <3>1. /\ req[r].version \in 1..version /\ req[r].at \in Nat
          /\ TTL + MaxFill \in Nat
          /\ req[r].at < now + (TTL + MaxFill)
          /\ CurrentBefore(req[r].version, req[r].at, TTL + MaxFill)
      BY <1>0, <1>2, <2>7 DEF FillInv
    <3> QED
      BY <2>1, <2>3, <3>1
  <2> QED
    BY <2>1, <2>4, <2>5, <2>6, <2>7 DEF FillInv
<1>5. ASSUME NEW r \in Requests, RequestStep(r)
      PROVE  FillInv'
  <2>1. UNCHANGED <<now, version, replaced>>
    BY <1>5 DEF RequestStep, ReadClock, EvalAllowed, EvalRefused, EvalError, CacheHit,
       CacheMiss, GetOrder, GetOrderError, CacheSet, CacheSetError
  <2>2. \A q \in Requests \ {r} : req'[q] = req[q]
    BY <1>0, <1>5 DEF RequestStep, ReadClock, EvalAllowed, EvalRefused, EvalError,
       CacheHit, CacheMiss, GetOrder, GetOrderError, CacheSet, CacheSetError, Goto, Respond
  <2>3. SUFFICES
          /\ cache'.expires <= now + TTL
          /\ Cached' =>
                /\ cache'.version >= 1
                /\ CurrentBefore(cache'.version, cache'.expires, TTL + MaxFill + 1)
          /\ req'[r].pc = "set" =>
                /\ req'[r].version >= 1
                /\ req'[r].at <= now /\ now <= req'[r].at + MaxFill
                /\ CurrentBefore(req'[r].version, req'[r].at, 1)
          /\ req'[r].pc = "served" =>
                /\ req'[r].version >= 1
                /\ req'[r].at <= now
                /\ CurrentBefore(req'[r].version, req'[r].at, TTL + MaxFill)
    BY <2>1, <2>2 DEF FillInv, CurrentBefore
  <2>4. CASE \E g \in Gateways : ReadClock(r, g)
    <3>1. cache' = cache /\ req'[r].pc = "eval"
      BY <1>0, <1>2, <2>4 DEF ReadClock, ReqStates
    <3> QED
      BY <2>1, <3>1 DEF FillInv, Cached
  <2>5. CASE EvalAllowed(r) \/ EvalRefused(r) \/ EvalError(r) \/ CacheMiss(r) \/ GetOrderError(r)
    <3>1. /\ cache' = cache
          /\ \E pc \in {"get", "refused", "grpc", "failed"} : Goto(r, pc)
      BY <2>5 DEF EvalAllowed, EvalRefused, EvalError, CacheMiss, GetOrderError
    <3>2. req'[r].pc \in {"get", "refused", "grpc", "failed"}
      BY <1>0, <3>1 DEF Goto, NewRequest
    <3> QED
      BY <2>1, <3>1, <3>2 DEF FillInv, Cached
  <2>6. CASE GetOrder(r)
    BY <1>0, <1>2, <2>1, <2>6 DEF GetOrder, FillInv, Cached, CurrentBefore
  <2>7. CASE CacheHit(r)
    <3>1. /\ Cached /\ cache' = cache
          /\ req'[r].pc = "served" /\ req'[r].version = cache.version /\ req'[r].at = now
      BY <1>0, <1>2, <2>7 DEF CacheHit, Respond
    <3>2. CurrentBefore(cache.version, now, TTL + MaxFill)
      <4> DEFINE v == cache.version
                 m == replaced[v]
      <4>1. /\ v \in 1..version /\ now < cache.expires
            /\ v < version => cache.expires < m + (TTL + MaxFill + 1)
        BY <1>0, <3>1 DEF FillInv, CurrentBefore, Cached
      <4>2. ASSUME v < version
            PROVE  now < m + (TTL + MaxFill)
        <5>1. m \in Nat
          BY <1>0, <1>1, <4>1, <4>2
        <5>2. cache.expires \in Nat /\ cache.expires < m + (TTL + MaxFill + 1)
          BY <1>0, <4>1, <4>2
        <5>3. now \in Nat /\ TTL \in Nat /\ MaxFill \in Nat
          BY <1>0
        <5> HIDE DEF m
        <5> QED
          BY <4>1, <5>1, <5>2, <5>3
      <4> QED
        BY <4>2 DEF CurrentBefore
    <3> QED
      BY <1>0, <2>1, <3>1, <3>2 DEF FillInv, Cached
  <2>8. CASE CacheSet(r) \/ CacheSetError(r)
    <3>1. /\ req[r].pc = "set" /\ Respond(r, req[r].version)
          /\ \/ cache' = cache
             \/ cache' = [version |-> req[r].version, expires |-> now + TTL]
      BY <2>8 DEF CacheSet, CacheSetError
    <3>2. /\ req'[r].pc = "served" /\ req'[r].version = req[r].version /\ req'[r].at = now
      BY <1>0, <1>2, <3>1 DEF Respond
    <3>3. /\ req[r].version >= 1
          /\ CurrentBefore(req[r].version, now, TTL + MaxFill)
          /\ CurrentBefore(req[r].version, now + TTL, TTL + MaxFill + 1)
      <4> DEFINE v == req[r].version
      <4>1. /\ v \in 1..version
            /\ req[r].at \in Nat /\ now <= req[r].at + MaxFill
            /\ v < version => req[r].at < replaced[v] + 1
        BY <1>0, <1>2, <3>1 DEF FillInv, CurrentBefore
      <4> HIDE DEF v
      <4> DEFINE m == replaced[v]
      <4>2. ASSUME v < version
            PROVE  /\ now < m + (TTL + MaxFill)
                   /\ now + TTL < m + (TTL + MaxFill + 1)
        <5>1. m \in Nat /\ req[r].at < m + 1
          BY <1>0, <1>1, <4>1, <4>2
        <5>2. /\ now \in Nat /\ TTL \in Nat /\ TTL >= 1 /\ MaxFill \in Nat
              /\ req[r].at \in Nat /\ now <= req[r].at + MaxFill
          BY <1>0, <4>1
        <5> HIDE DEF m
        <5> QED
          BY <5>1, <5>2
      <4> QED
        BY <1>0, <4>1, <4>2 DEF v, CurrentBefore
    <3> QED
      BY <1>0, <2>1, <3>1, <3>2, <3>3 DEF FillInv, Cached
  <2> QED
    BY <1>5, <2>4, <2>5, <2>6, <2>7, <2>8 DEF RequestStep
<1>6. CASE UNCHANGED vars
  BY <1>6 DEF vars, FillInv, CurrentBefore, Cached
<1> QED
  BY <1>3, <1>4, <1>5, <1>6 DEF Next

\* No answer shows a version that was replaced an entry's life and a fill
\* ago or earlier, for any interleaving of fills, hits and changes.
THEOREM AnswersRecent == Spec => []ServedRecently
<1>1. Init => FillInv
  BY GatewayAssumption DEF Init, FillInv, Cached, CurrentBefore, NewRequest
<1>2. TypeOK /\ TypeOK' /\ FillInv /\ [Next]_vars => FillInv'
  BY StepFillInv
<1>3. TypeOK /\ FillInv => ServedRecently
  <2> SUFFICES ASSUME TypeOK, FillInv, NEW r \in Requests,
                      req[r].pc = "served", req[r].version < version
               PROVE  req[r].at < replaced[req[r].version] + TTL + MaxFill
    BY DEF ServedRecently
  <2>1. /\ version \in Nat \ {0}
        /\ replaced \in Seq(Nat) /\ Len(replaced) = version - 1
        /\ req[r].version \in 0..version /\ req[r].at \in Nat
        /\ TTL \in Nat /\ MaxFill \in Nat
    BY GatewayAssumption DEF TypeOK
  <2>2. /\ req[r].version >= 1
        /\ req[r].at < replaced[req[r].version] + (TTL + MaxFill)
    BY DEF FillInv, CurrentBefore
  <2>3. replaced[req[r].version] \in Nat
    BY <2>1, <2>2
  <2> QED
    BY <2>1, <2>2, <2>3
<1> QED
  BY <1>1, <1>2, <1>3, TypeCorrect, PTL DEF Spec

=============================================================================
