------------------------------ MODULE RateLimit -------------------------------
(***************************************************************************)
(* The token buckets in front of the session and run routes                *)
(* (_InMemoryIpRateLimiter, which sweeps, and _InMemoryAccountRateLimiter, *)
(* which does not).  A request reads the clock before it takes the         *)
(* limiter's lock, so the lock's holders may be out of the clock's order.  *)
(***************************************************************************)
EXTENDS Integers, Sequences, FiniteSets

CONSTANTS
    Keys,       \* the callers: addresses or accounts
    Capacity,
    Refill,     \* tokens a unit of time gives back
    Stale,      \* STALE_BUCKET_SECONDS
    Interval,   \* SWEEP_INTERVAL_SECONDS
    MaxNow,     \* bound on the clock
    MaxLate,    \* bound on requests between their clock and the lock
    MaxAsked    \* bound on requests

\* An idle bucket is full again, and a token over, before it goes stale: 10 at 10 a
\* minute and 30 at 30, against five minutes.
LimitAssumption ==
    /\ Capacity \in Nat \ {0} /\ Refill \in Nat /\ Stale \in Nat
    /\ Capacity + 1 <= Refill * (Stale + 1)

VARIABLES
    now,
    sweeps,     \* whether this limiter sweeps
    buckets,    \* the keys with a bucket: its tokens, and when it was touched
    swept,      \* _last_sweep, or -1
    late,       \* requests that read the clock and await the lock
    asked,      \* requests so far
    passed,     \* those let through, in the order of the lock: key and clock
    seen,       \* the clock under which each key's bucket was last touched or swept away
    slipped     \* how far, in all, each key's requests came behind that clock

vars == <<now, sweeps, buckets, swept, late, asked, passed, seen, slipped>>

Never == -1

Init ==
    /\ now = 0 /\ sweeps \in BOOLEAN
    /\ buckets = <<>> /\ swept = Never /\ late = {} /\ asked = 0
    /\ passed = <<>> /\ seen = [k \in Keys |-> 0] /\ slipped = [k \in Keys |-> 0]

Tick == now < MaxNow /\ now' = now + 1
        /\ UNCHANGED <<sweeps, buckets, swept, late, asked, passed, seen, slipped>>

\* The request reads time.time().
Arrive(k) ==
    /\ asked < MaxAsked /\ Cardinality(late) < MaxLate
    /\ asked' = asked + 1
    /\ late' = late \cup {[key |-> k, at |-> now, n |-> asked']}
    /\ UNCHANGED <<now, sweeps, buckets, swept, passed, seen, slipped>>

SweepIsDue(at) == sweeps /\ swept # Never /\ at - swept >= Interval

\* The buckets that a sweep leaves.
KeptBySweep(at) == IF SweepIsDue(at) THEN {k \in DOMAIN buckets : buckets[k].last >= at - Stale}
                                     ELSE DOMAIN buckets

Bucket(k, at) ==
    IF k \in KeptBySweep(at) THEN buckets[k] ELSE [tokens |-> Capacity, last |-> at]

Least(a, b) == IF a < b THEN a ELSE b
Elapsed(from, to) == IF to > from THEN to - from ELSE 0
Refilled(b, at) == Least(Capacity, b.tokens + Refill * Elapsed(b.last, at))

\* Mutant: a full bucket is dropped however lately it was touched.
ForgetsFull(b, at) == Refilled(b, at) >= Capacity

\* The bucket of an idle caller is dropped, and this request is not charged.
Forgets(b, at) == Refilled(b, at) >= Capacity /\ at - b.last > Stale

Allows(b, at) == Forgets(b, at) \/ Refilled(b, at) >= 1

\* allow, under its lock.
Allow(q) ==
    LET k == q.key
        b == Bucket(k, q.at)
        rest == [j \in KeptBySweep(q.at) \ {k} |-> buckets[j]]
        left == Refilled(b, q.at) - (IF Allows(b, q.at) THEN 1 ELSE 0)
    IN /\ q \in late
       /\ late' = late \ {q}
       /\ swept' = IF sweeps /\ (swept = Never \/ SweepIsDue(q.at)) THEN q.at ELSE swept
       /\ buckets' = IF Forgets(b, q.at) THEN rest
                     ELSE [j \in DOMAIN rest \cup {k} |->
                              IF j = k THEN [tokens |-> left, last |-> q.at] ELSE rest[j]]
       /\ passed' = IF Allows(b, q.at) THEN Append(passed, [key |-> k, at |-> q.at]) ELSE passed
       /\ seen' = [j \in Keys |->
                      IF j = k \/ j \in DOMAIN buckets \ KeptBySweep(q.at) THEN q.at ELSE seen[j]]
       /\ slipped' = [slipped EXCEPT ![k] = @ + Elapsed(q.at, seen[k])]
       /\ UNCHANGED <<now, sweeps, asked>>

LimitNext == Tick \/ (\E k \in Keys : Arrive(k)) \/ (\E q \in late : Allow(q))

LimitSpec == Init /\ [][LimitNext]_vars
----------------------------------------------------------------------------
\* The most a caller may be let through in a span of time.
Allowance(k, span) == Capacity + 1 + Refill * (span + slipped[k])

\* In every window a caller is let through at most a bucket and what the window
\* refills, and one request more (the free one of an idle bucket), however its
\* buckets are dropped and swept; requests that overtake one another at the lock, or
\* come behind a sweep, gain no more than the time they slipped.
NoMoreThanTheLimit ==
    \A i, j \in DOMAIN passed :
        LET k == passed[i].key
            window == {n \in i .. j : passed[n].key = k}
        IN (i <= j /\ passed[j].key = k) =>
               Cardinality(window) <= Allowance(k, Elapsed(passed[i].at, passed[j].at))

\* Nobody is refused for what others ask, or for what it asked long ago: a refused
\* caller had taken a bucket and the refill of some window that ends now.
RefusedForItsOwnRequests ==
    \A q \in late :
        (q \notin late' /\ passed' = passed) =>
            \E i \in DOMAIN passed :
                Cardinality({n \in i .. Len(passed) : passed[n].key = q.key})
                    >= Capacity + Refill * Elapsed(passed[i].at, q.at)

\* Both: the limit is the advertised one.
LimitIsAsAdvertised == [](NoMoreThanTheLimit) /\ [][RefusedForItsOwnRequests]_vars
=============================================================================
