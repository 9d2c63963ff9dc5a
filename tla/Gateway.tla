------------------------------ MODULE Gateway -------------------------------
(***************************************************************************)
(* The API gateway: requests of one client for one order, each through the *)
(* token bucket in Redis, the order cache in Redis and, on a miss, the     *)
(* order service.  Other clients and orders use other Redis keys.          *)
(*                                                                         *)
(* Time passes in ticks.  Every gateway process has a clock of its own,    *)
(* and passes its reading to the bucket's script.  Tokens are the whole    *)
(* tokens of the refills of whole ticks.                                   *)
(* Definitions introduced by "Mutant" are no part of Next, see README.md.  *)
(***************************************************************************)
EXTENDS Integers, Sequences

CONSTANTS
    Requests,    \* request ids
    Gateways,    \* gateway processes
    Skew,        \* Skew[g]: what the clock of g is ahead of Redis, in ticks
    Capacity,    \* tokens of a full bucket
    RefillRate,  \* tokens per tick
    BucketTTL,   \* EXPIRE of the bucket, in ticks
    TTL,         \* life of a cache entry, in ticks
    MaxDelay,    \* bound: ticks between reading the clock and the script
    MaxFill,     \* bound: ticks between reading an order and caching it
    MaxTime,     \* bound: ticks
    MaxVersion   \* bound: versions of the order

\* A bucket that is forgotten would have been full again, whichever clocks
\* it was read with (3600 s at 2 tokens a second for 10 tokens in main.go).
ASSUME GatewayAssumption ==
    /\ Skew \in [Gateways -> Int]
    /\ Capacity \in Nat \ {0} /\ RefillRate \in Nat \ {0}
    /\ BucketTTL \in Nat
    /\ \A g, h \in Gateways :
          RefillRate * (BucketTTL - MaxDelay + Skew[g] - Skew[h]) >= Capacity
    /\ TTL \in Nat \ {0} /\ MaxDelay \in Nat /\ MaxFill \in Nat
    /\ MaxTime \in Nat /\ MaxVersion \in Nat

VARIABLES
    now,       \* the clock of Redis
    version,   \* orders.version of the order
    replaced,  \* replaced[v]: when version v was replaced by the next
    bucket,    \* the hash ratelimit:<ip>: [tokens, last, expires]
    granted,   \* clock readings of the requests that got a token, in order
    cache,     \* the entry order:<id>: [version, expires]
    req        \* req[r]: [pc, clock, version, at]; at: when it got there

limiter == <<bucket, granted>>
order   == <<version, replaced>>
vars    == <<now, version, replaced, bucket, granted, cache, req>>

-----------------------------------------------------------------------------
NewRequest == [pc |-> "new", clock |-> 0, version |-> 0, at |-> 0]

\* On to a step that needs nothing of the steps before.
Goto(r, pc) == req' = [req EXCEPT ![r] = [NewRequest EXCEPT !.pc = pc]]

\* The response is written: the version it shows, and when.
Respond(r, v) == req' = [req EXCEPT ![r].pc = "served", ![r].version = v, ![r].at = now]

Init ==
    /\ now      = 0
    /\ version  = 1
    /\ replaced = <<>>
    /\ bucket   = [tokens |-> 0, last |-> 0, expires |-> 0]
    /\ granted  = <<>>
    /\ cache    = [version |-> 0, expires |-> 0]
    /\ req      = [r \in Requests |-> NewRequest]

-----------------------------------------------------------------------------
(* The environment *)

\* MaxDelay and MaxFill hold back the clock while a request waits.
Tick ==
    /\ now < MaxTime
    /\ \A r \in Requests : req[r].pc = "eval" => now < req[r].at + MaxDelay
    /\ \A r \in Requests : req[r].pc = "set" => now < req[r].at + MaxFill
    /\ now' = now + 1
    /\ UNCHANGED <<order, limiter, cache, req>>

\* The saga moves the order on.
OrderChanges ==
    /\ version < MaxVersion
    /\ version'  = version + 1
    /\ replaced' = Append(replaced, now)
    /\ UNCHANGED <<now, limiter, cache, req>>

-----------------------------------------------------------------------------
(* The rate limiter *)

\* Allow reads the clock of its process before it calls Redis.
ReadClock(r, g) ==
    /\ req[r].pc = "new"
    /\ req' = [req EXCEPT ![r].pc = "eval", ![r].clock = now + Skew[g],
                        ![r].at = now]
    /\ UNCHANGED <<now, order, limiter, cache>>

BucketExists == now < bucket.expires

\* Mutant: a clock that lags refills nothing, instead of taking back.
RefillClamped(c) ==
    IF ~BucketExists THEN Capacity
    ELSE LET elapsed == IF c > bucket.last THEN c - bucket.last ELSE 0
             tokens  == bucket.tokens + elapsed * RefillRate
         IN  IF tokens > Capacity THEN Capacity ELSE tokens

\* Mutant: no math.min.
RefillUncapped(c) ==
    IF BucketExists THEN bucket.tokens + (c - bucket.last) * RefillRate ELSE Capacity

\* The tokens as the script computes them at clock reading c.
Refill(c) ==
    IF ~BucketExists THEN Capacity
    ELSE LET tokens == bucket.tokens + (c - bucket.last) * RefillRate
         IN  IF tokens > Capacity THEN Capacity ELSE tokens

\* Mutant: a request that is refused pays as well.
TakeTokenAlways(c, allowed) ==
    /\ bucket'  = [tokens |-> Refill(c) - 1, last |-> c, expires |-> now + BucketTTL]
    /\ granted' = IF allowed THEN Append(granted, c) ELSE granted

TakeToken(c, allowed) ==
    /\ bucket'  = [tokens  |-> IF allowed THEN Refill(c) - 1 ELSE Refill(c),
                   last    |-> c,
                   expires |-> now + BucketTTL]
    /\ granted' = IF allowed THEN Append(granted, c) ELSE granted

Allowed(c) == Refill(c) >= 1

EvalAllowed(r) ==
    /\ req[r].pc = "eval"
    /\ Allowed(req[r].clock)
    /\ TakeToken(req[r].clock, TRUE)
    /\ Goto(r, "get")
    /\ UNCHANGED <<now, order, cache>>

\* Status 429.
EvalRefused(r) ==
    /\ req[r].pc = "eval"
    /\ ~Allowed(req[r].clock)
    /\ TakeToken(req[r].clock, FALSE)
    /\ Goto(r, "refused")
    /\ UNCHANGED <<now, order, cache>>

\* Redis fails, before or after the script ran: the request passes.
EvalError(r) ==
    /\ req[r].pc = "eval"
    /\ \/ UNCHANGED limiter
       \/ TakeToken(req[r].clock, Allowed(req[r].clock))
    /\ Goto(r, "get")
    /\ UNCHANGED <<now, order, cache>>

-----------------------------------------------------------------------------
(* GetOrder, cache-aside *)

Cached == now < cache.expires

\* Mutant: a hit renews the entry.
CacheHitRenews(r) ==
    /\ req[r].pc = "get"
    /\ Cached
    /\ Respond(r, cache.version)
    /\ cache' = [cache EXCEPT !.expires = now + TTL]
    /\ UNCHANGED <<now, order, limiter>>

CacheHit(r) ==
    /\ req[r].pc = "get"
    /\ Cached
    /\ Respond(r, cache.version)
    /\ UNCHANGED <<now, order, limiter, cache>>

\* Nothing cached, or Redis fails.
CacheMiss(r) ==
    /\ req[r].pc = "get"
    /\ Goto(r, "grpc")
    /\ UNCHANGED <<now, order, limiter, cache>>

\* The order service reads the order; req[r].at is the time of that read.
GetOrder(r) ==
    /\ req[r].pc = "grpc"
    /\ req' = [req EXCEPT ![r].pc = "set", ![r].version = version, ![r].at = now]
    /\ UNCHANGED <<now, order, limiter, cache>>

\* writeGRPCError; nothing is cached.
GetOrderError(r) ==
    /\ req[r].pc = "grpc"
    /\ Goto(r, "failed")
    /\ UNCHANGED <<now, order, limiter, cache>>

CacheSet(r) ==
    /\ req[r].pc = "set"
    /\ cache' = [version |-> req[r].version, expires |-> now + TTL]
    /\ Respond(r, req[r].version)
    /\ UNCHANGED <<now, order, limiter>>

\* Redis fails: the client gets its answer all the same.
CacheSetError(r) ==
    /\ req[r].pc = "set"
    /\ Respond(r, req[r].version)
    /\ UNCHANGED <<now, order, limiter, cache>>

-----------------------------------------------------------------------------
RequestStep(r) ==
    \/ \E g \in Gateways : ReadClock(r, g)
    \/ EvalAllowed(r) \/ EvalRefused(r) \/ EvalError(r)
    \/ CacheHit(r) \/ CacheMiss(r)
    \/ GetOrder(r) \/ GetOrderError(r)
    \/ CacheSet(r) \/ CacheSetError(r)

Next ==
    \/ Tick
    \/ OrderChanges
    \/ \E r \in Requests : RequestStep(r)

Spec == Init /\ [][Next]_vars

-----------------------------------------------------------------------------
(* Properties *)

RequestPCs == {"new", "eval", "refused", "get", "grpc", "failed", "set", "served"}

\* The bucket never holds more than its capacity (it may hold less than
\* nothing after a clock that lags), and a cached or shown version existed.
TypeOK ==
    /\ now \in Nat
    /\ version \in Nat \ {0}
    /\ replaced \in Seq(Nat) /\ Len(replaced) = version - 1
    /\ bucket \in [tokens : Int, last : Int, expires : Nat]
    /\ bucket.tokens <= Capacity
    /\ granted \in Seq(Int)
    /\ cache \in [version : 0..version, expires : Nat]
    /\ req \in [Requests -> [pc : RequestPCs, clock : Int, version : 0..version, at : Nat]]

\* The limit: from one granted request to another there are never more of
\* them than a full bucket and the refill of the time between their clock
\* readings, whichever gateways took them and however their clocks differ
\* (limiter.go:11-40).
WindowBounded ==
    \A i, j \in DOMAIN granted :
        i < j => j - i + 1 <= Capacity + RefillRate * (granted[j] - granted[i])

\* The converse: a request is refused only when one more token would break
\* that limit, whatever came before it (limiter.go:26-34).
RefusedForAReason ==
    \A r \in Requests :
        req[r].pc = "eval" /\ ~Allowed(req[r].clock) =>
            \E i \in DOMAIN granted :
                Len(granted) - i + 2 > Capacity + RefillRate * (req[r].clock - granted[i])

\* A response shows a version that was current less long ago than an entry
\* lives and a fill takes, although a slow fill may overwrite a newer entry
\* (order_handler.go:171-183).
ServedRecently ==
    \A r \in Requests :
        LET v == req[r].version IN
        req[r].pc = "served" /\ v < version => req[r].at < replaced[v] + TTL + MaxFill

=============================================================================
