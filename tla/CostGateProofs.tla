--------------------------- MODULE CostGateProofs ---------------------------
(* What CostGate promises of a dear run and of a quote, for every number of *)
(* requests, every life of a token and every cap on how many are kept; and  *)
(* what RateLimit promises of a caller, for every bucket and refill, and    *)
(* every order in which requests take the limiter's lock.  After them, the  *)
(* switch that lets visitors spend at all: what CloseWindow promises of a   *)
(* window that is ended, and PostureWatch of its watchdog.                  *)
EXTENDS CostGate, Integers, Sequences, FiniteSetTheorems, TLAPS

AnyAsk == Asks \cup {"none"}
AnyPrice == Prices \cup {"none"}
QuoteShape == [id : Nat, ask : Asks, price : Prices, expires : Nat]
RequestShape == [ask : AnyAsk, body : Nat, price : AnyPrice, expires : Nat, confirmed : Nat]

Shape ==
    /\ now \in Nat /\ quoted \subseteq QuoteShape /\ IsFiniteSet(quoted) /\ tokens \subseteq quoted
    /\ pc \in [Requests -> {"new", "mint", "confirm", "reserve", "done"}]
    /\ req \in [Requests -> RequestShape]
    /\ \A r \in Requests : pc[r] = "mint" => req[r].ask \in Asks /\ req[r].price \in Prices
    /\ runs \subseteq Requests /\ \A r \in runs : pc[r] = "done"

-----------------------------------------------------------------------------
(* The parts of the invariant.                                               *)

\* Tokens are numbered as they are minted, so a new one has a number of its own.
Numbered ==
    /\ \A k \in quoted : k.id \in 1 .. Cardinality(quoted)
    /\ \A j, k \in quoted : j.id = k.id => j = k

\* No token lasts longer than a token's life from now, nor will one that is to be minted.
Timely ==
    /\ \A k \in quoted : k.expires <= now + TTL
    /\ \A r \in Requests : pc[r] = "mint" => req[r].expires <= now + TTL

\* A dear create that was let through, whether or not its run was started yet.
Admitted(r) == (pc[r] = "reserve" \/ r \in runs) /\ req[r].price \in Dear

\* It used up a quote of its own account, panel and price that stood at that moment.
UsedItsQuote(r) ==
    \E k \in QuoteOf(r) :
        /\ k \notin tokens /\ k.ask = req[r].ask /\ k.price = req[r].price
        /\ k.expires - TTL <= req[r].confirmed /\ req[r].confirmed <= k.expires

GateInv ==
    /\ Shape /\ Numbered /\ Timely /\ Cardinality(tokens) <= TokenCap
    /\ \A r \in Requests : Admitted(r) => UsedItsQuote(r)
    /\ \A r, q \in Requests : Admitted(r) /\ Admitted(q) /\ req[r].body = req[q].body => r = q

-----------------------------------------------------------------------------
(* What a purge keeps: as many as the cap allows of those that last longest.  *)

\* The places below the cap are all taken as soon as one beyond it is.
LEMMA PlacesBelowTheCap ==
    ASSUME NEW S, IsFiniteSet(S), NEW rank \in [S -> 0 .. Cardinality(S) - 1], NEW cap \in Nat,
           \A j, k \in S : rank[j] = rank[k] => j = k
    PROVE  /\ Cardinality({k \in S : rank[k] < cap}) <= cap
           /\ (\E k \in S : rank[k] >= cap) => Cardinality({k \in S : rank[k] < cap}) >= cap
<1> DEFINE n == Cardinality(S)
           kept == {k \in S : rank[k] < cap}
           place == [k \in kept |-> rank[k]]
<1>1. n \in Nat /\ IsFiniteSet(0 .. n - 1) /\ Cardinality(0 .. n - 1) = n
    <2>1. n \in Nat
        BY FS_CardinalityType
    <2> HIDE DEF n
    <2> QED BY <2>1, FS_Interval
<1>2. rank \in Injection(S, 0 .. n - 1)
    BY DEF Injection, IsInjective
<1>3. rank \in Surjection(S, 0 .. n - 1)
    BY <1>1, <1>2, FS_Injection
<1>4. IsFiniteSet(0 .. cap - 1) /\ Cardinality(0 .. cap - 1) = cap
    BY FS_Interval
<1>5. place \in [kept -> 0 .. cap - 1]
    <2>1. \A k \in kept : rank[k] \in 0 .. cap - 1
        BY <1>1
    <2> QED BY <2>1
<1>6. place \in Injection(kept, 0 .. cap - 1)
    <2>1. \A j, k \in kept : place[j] = place[k] => j = k
        OBVIOUS
    <2> HIDE DEF place, kept
    <2> QED BY <1>5, <2>1 DEF Injection, IsInjective
<1>7. IsFiniteSet(kept) /\ Cardinality(kept) <= cap
    <2> HIDE DEF place, kept
    <2> QED BY <1>4, <1>6, FS_Injection
<1>8. ASSUME NEW k \in S, rank[k] >= cap PROVE Cardinality(kept) >= cap
    <2>1. ASSUME NEW i \in 0 .. cap - 1 PROVE \E j \in kept : place[j] = i
        <3>1. i \in 0 .. n - 1 /\ i < cap
            BY <1>1, <1>8
        <3>2. PICK j \in S : rank[j] = i
            BY <1>3, <3>1 DEF Surjection
        <3> QED BY <3>1, <3>2
    <2>2. place \in Surjection(kept, 0 .. cap - 1)
        <3> HIDE DEF place, kept
        <3> QED BY <1>5, <2>1 DEF Surjection
    <2> HIDE DEF place, kept
    <2> QED BY <1>4, <1>7, <2>2, FS_Surjection
<1> QED BY <1>7, <1>8

\* Tokens have different numbers, so of two one outlasts the other.
LEMMA PurgeKeepsTheLongest ==
    ASSUME TokenCap \in Nat, now \in Nat, NEW ts, IsFiniteSet(ts), ts \subseteq QuoteShape,
           \A j, k \in ts : j.id = k.id => j = k
    PROVE  /\ Purged(ts) \subseteq ts
           /\ Cardinality(Purged(ts)) <= TokenCap
           /\ \A k \in ts \ Purged(ts) :
                 \/ k.expires < now
                 \/ Cardinality({j \in Purged(ts) : j.expires >= k.expires}) >= TokenCap
<1> DEFINE fresh == {k \in ts : k.expires >= now}
           above(k) == {j \in fresh : Outlasts(j, k)}
           rank == [k \in fresh |-> Cardinality(above(k))]
           n == Cardinality(fresh)
           kept == {k \in fresh : rank[k] < TokenCap}
<1>1. Purged(ts) = kept
    BY DEF Purged
<1>2. IsFiniteSet(fresh) /\ n \in Nat
    BY FS_Subset, FS_CardinalityType
<1>3. \A k \in fresh : IsFiniteSet(above(k)) /\ Cardinality(above(k)) \in Nat
    BY <1>2, FS_Subset, FS_CardinalityType
<1>4. \A j, k \in fresh : Outlasts(j, k) => rank[j] < rank[k]
    <2> SUFFICES ASSUME NEW j \in fresh, NEW k \in fresh, Outlasts(j, k)
                 PROVE  Cardinality(above(j)) < Cardinality(above(k))
        OBVIOUS
    <2>1. above(j) \subseteq above(k) /\ j \in above(k) /\ j \notin above(j)
        BY DEF Outlasts, QuoteShape
    <2> HIDE DEF above
    <2>2. Cardinality(above(j)) <= Cardinality(above(k)) /\ Cardinality(above(j)) # Cardinality(above(k))
        BY <1>3, <2>1, FS_Subset
    <2> QED BY <1>3, <2>2
<1>5. \A j, k \in fresh : j # k => Outlasts(j, k) \/ Outlasts(k, j)
    BY DEF Outlasts, QuoteShape
<1>6. \A k \in fresh : Cardinality(above(k)) \in 0 .. n - 1
    <2> SUFFICES ASSUME NEW k \in fresh PROVE Cardinality(above(k)) \in 0 .. n - 1
        OBVIOUS
    <2>1. above(k) \subseteq fresh /\ k \notin above(k)
        BY DEF Outlasts, QuoteShape
    <2> HIDE DEF above, fresh
    <2>2. Cardinality(above(k)) <= n /\ Cardinality(above(k)) # n
        BY <1>2, <2>1, FS_Subset
    <2> QED BY <1>2, <1>3, <2>2
<1>7. rank \in [fresh -> 0 .. n - 1]
    <2> HIDE DEF above, fresh, n
    <2> QED BY <1>6
<1>8. \A j, k \in fresh : rank[j] = rank[k] => j = k
    <2> SUFFICES ASSUME NEW j \in fresh, NEW k \in fresh, rank[j] = rank[k], j # k PROVE FALSE
        OBVIOUS
    <2>1. rank[j] < rank[k] \/ rank[k] < rank[j]
        BY <1>4, <1>5
    <2>2. rank[j] \in Int /\ rank[k] \in Int
        <3> HIDE DEF rank, fresh
        <3> QED BY <1>2, <1>7
    <2> HIDE DEF rank
    <2> QED BY <2>1, <2>2
<1> HIDE DEF rank, above
<1>9. /\ Cardinality(kept) <= TokenCap
      /\ (\E k \in fresh : rank[k] >= TokenCap) => Cardinality(kept) >= TokenCap
    <2> HIDE DEF fresh
    <2> QED BY <1>2, <1>7, <1>8, PlacesBelowTheCap
<1>10. ASSUME NEW k \in fresh, k \notin kept
       PROVE  Cardinality({j \in kept : j.expires >= k.expires}) >= TokenCap
    <2>1. rank[k] >= TokenCap /\ \A j \in fresh : rank[j] \in Int
        <3> HIDE DEF fresh
        <3> QED BY <1>2, <1>7, <1>10
    <2>2. ASSUME NEW j \in kept PROVE j.expires >= k.expires
        <3>1. j # k /\ ~(rank[k] < rank[j])
            BY <1>10, <2>1
        <3>2. Outlasts(j, k)
            BY <1>4, <1>5, <3>1
        <3> QED BY <3>2 DEF Outlasts, QuoteShape
    <2>3. {j \in kept : j.expires >= k.expires} = kept
        BY <2>2
    <2> HIDE DEF kept
    <2> QED BY <1>9, <2>1, <2>3
<1>11. \A k \in ts \ kept : k.expires < now \/ (k \in fresh /\ k \notin kept)
    BY DEF QuoteShape
<1>12. kept \subseteq ts
    OBVIOUS
<1> HIDE DEF kept, fresh
<1> QED BY <1>1, <1>9, <1>10, <1>11, <1>12

-----------------------------------------------------------------------------
(* Every step keeps the invariant and lets quotes stand.                     *)
LEMMA GateStarts ==
    ASSUME GateAssumption, Init PROVE GateInv
<1>1. PICK n \in Nat : n <= TokenCap /\ Earlier \in [1 .. n -> [ask : Asks, price : Prices]]
    BY DEF GateAssumption
<1> DEFINE first == [i \in 1 .. n |-> [id |-> i, ask |-> Earlier[i].ask, price |-> Earlier[i].price,
                                       expires |-> TTL]]
<1>2. tokens = {first[i] : i \in 1 .. n} /\ quoted = tokens
    BY <1>1 DEF Init
<1>3. \A i \in 1 .. n : first[i] \in QuoteShape /\ first[i].id = i /\ first[i].expires = TTL
    BY <1>1 DEF GateAssumption, QuoteShape
<1>4. IsFiniteSet(tokens) /\ Cardinality(tokens) = n
    <2>1. first \in Surjection(1 .. n, tokens)
        <3>1. first \in [1 .. n -> tokens]
            BY <1>2
        <3>2. \A t \in tokens : \E i \in 1 .. n : first[i] = t
            BY <1>2
        <3> HIDE DEF first
        <3> QED BY <3>1, <3>2 DEF Surjection
    <2>2. first \in Injection(1 .. n, tokens)
        <3>1. \A i, j \in 1 .. n : first[i] = first[j] => i = j
            BY <1>3
        <3>2. first \in [1 .. n -> tokens]
            BY <1>2
        <3> HIDE DEF first
        <3> QED BY <3>1, <3>2 DEF Injection, IsInjective
    <2>3. IsFiniteSet(1 .. n) /\ Cardinality(1 .. n) = n
        BY FS_Interval
    <2> HIDE DEF first
    <2> QED BY <2>1, <2>2, <2>3, FS_Surjection
<1>5. \A k \in quoted : k \in QuoteShape /\ k.id \in 1 .. n /\ k.expires = TTL
    BY <1>2, <1>3
<1>6. \A j, k \in quoted : j.id = k.id => j = k
    BY <1>2, <1>3
<1>7. Shape
    <2>1. now \in Nat /\ quoted \subseteq QuoteShape /\ IsFiniteSet(quoted) /\ tokens \subseteq quoted
        BY <1>2, <1>4, <1>5 DEF Init
    <2>2. Nothing \in RequestShape
        BY DEF Nothing, NoToken, RequestShape, AnyAsk, AnyPrice
    <2> QED BY <2>1, <2>2 DEF Init, Shape
<1>8. Numbered /\ Timely
    <2>1. Numbered
        BY <1>2, <1>4, <1>5, <1>6 DEF Numbered
    <2>2. now = 0 /\ \A r \in Requests : pc[r] = "new"
        BY DEF Init
    <2> QED BY <1>5, <2>1, <2>2 DEF Timely, GateAssumption
<1>9. \A r \in Requests : ~Admitted(r)
    BY DEF Init, Admitted
<1> QED BY <1>1, <1>2, <1>4, <1>7, <1>8, <1>9 DEF GateInv

\* What was admitted stays as it was if its request, its place and its token stay.
LEMMA AdmittedStay ==
    ASSUME GateInv, quoted \subseteq quoted',
           \A k \in quoted : k \notin tokens => k \notin tokens',
           \A r \in Requests : Admitted(r)' => Admitted(r) /\ req'[r] = req[r]
    PROVE  /\ \A r \in Requests : Admitted(r)' => UsedItsQuote(r)'
           /\ \A r, q \in Requests : Admitted(r)' /\ Admitted(q)' /\ req'[r].body = req'[q].body => r = q
BY DEF GateInv, UsedItsQuote, QuoteOf

LEMMA ClockTicks ==
    ASSUME GateAssumption, GateInv, Tick PROVE GateInv'
<1>1. now' = now + 1 /\ UNCHANGED <<tokens, quoted, pc, req, runs>>
    BY DEF Tick
<1>2. Shape'
    BY <1>1 DEF GateInv, Shape
<1>3. Numbered' /\ Cardinality(tokens') <= TokenCap
    BY <1>1 DEF GateInv, Numbered
<1>4. Timely'
    BY <1>1 DEF GateAssumption, GateInv, Shape, Timely, QuoteShape, RequestShape
<1>5. \A r \in Requests : Admitted(r)' => Admitted(r) /\ req'[r] = req[r]
    BY <1>1 DEF Admitted
<1> QED BY <1>1, <1>2, <1>3, <1>4, <1>5, AdmittedStay DEF GateInv

LEMMA Estimates ==
    ASSUME GateAssumption, GateInv, NEW r \in Requests, NEW ask \in Asks,
           NEW body \in {NoToken} \cup {k.id : k \in quoted},
           NEW p \in Prices, Estimate(r, ask, body, p)
    PROVE  GateInv'
<1> DEFINE asked == [ask |-> ask, body |-> body, price |-> p, expires |-> now + TTL, confirmed |-> 0]
<1>1. /\ pc[r] = "new" /\ pc' = [pc EXCEPT ![r] = "mint"] /\ req' = [req EXCEPT ![r] = asked]
      /\ UNCHANGED <<now, tokens, quoted, runs>>
    BY DEF Estimate, Goes
<1>2. body \in Nat
    BY DEF GateInv, Shape, QuoteShape, NoToken
<1>3. asked \in RequestShape
    BY <1>2 DEF GateAssumption, GateInv, Shape, RequestShape, AnyAsk, AnyPrice
<1>4. Shape'
    BY <1>1, <1>3 DEF GateInv, Shape
<1>5. Numbered' /\ Timely' /\ Cardinality(tokens') <= TokenCap
    BY <1>1 DEF GateInv, Shape, Numbered, Timely, GateAssumption
<1>6. \A q \in Requests : Admitted(q)' => Admitted(q) /\ req'[q] = req[q]
    BY <1>1 DEF GateInv, Shape, Admitted
<1> QED BY <1>1, <1>4, <1>5, <1>6, AdmittedStay DEF GateInv

LEMMA Mints ==
    ASSUME GateAssumption, GateInv, NEW r \in Requests, Mint(r) PROVE GateInv' /\ QuoteStaysGood
<1> DEFINE token == [id |-> Cardinality(quoted) + 1, ask |-> req[r].ask, price |-> req[r].price,
                     expires |-> req[r].expires]
<1>1. /\ pc[r] = "mint" /\ quoted' = quoted \cup {token} /\ tokens' = Purged(tokens \cup {token})
      /\ UNCHANGED <<now, runs>>
    BY DEF Mint
<1>2. /\ token \in QuoteShape /\ token.id = Cardinality(quoted) + 1 /\ token.expires <= now + TTL
      /\ Cardinality(quoted) \in Nat
    BY <1>1, FS_CardinalityType DEF GateInv, Shape, Timely, QuoteShape, RequestShape
<1> HIDE DEF token
<1>3. token \notin quoted
    BY <1>2 DEF GateInv, Numbered
<1>4. IsFiniteSet(quoted') /\ Cardinality(quoted') = Cardinality(quoted) + 1
    BY <1>1, <1>3, FS_AddElement DEF GateInv, Shape
<1>5. \A k \in quoted' : k.id \in 1 .. Cardinality(quoted')
    BY <1>1, <1>2, <1>4 DEF GateInv, Numbered
<1>6. \A j, k \in quoted' : j.id = k.id => j = k
    BY <1>1, <1>2 DEF GateInv, Numbered
<1>7. /\ tokens' \subseteq tokens \cup {token} /\ Cardinality(tokens') <= TokenCap
      /\ \A k \in (tokens \cup {token}) \ tokens' :
            \/ k.expires < now
            \/ Cardinality({j \in tokens' : j.expires >= k.expires}) >= TokenCap
    <2>1. tokens \cup {token} \subseteq quoted' /\ quoted' \subseteq QuoteShape
        BY <1>1, <1>2 DEF GateInv, Shape
    <2>2. IsFiniteSet(tokens \cup {token})
        BY <1>4, <2>1, FS_Subset
    <2>3. \A j, k \in tokens \cup {token} : j.id = k.id => j = k
        BY <1>6, <2>1
    <2>4. TokenCap \in Nat /\ now \in Nat
        BY DEF GateAssumption, GateInv, Shape
    <2> DEFINE ts == tokens \cup {token}
    <2>5. ts \subseteq QuoteShape
        BY <2>1
    <2> HIDE DEF ts
    <2>6. /\ Purged(ts) \subseteq ts
          /\ Cardinality(Purged(ts)) <= TokenCap
          /\ \A k \in ts \ Purged(ts) :
                \/ k.expires < now
                \/ Cardinality({j \in Purged(ts) : j.expires >= k.expires}) >= TokenCap
        BY <2>2, <2>3, <2>4, <2>5, PurgeKeepsTheLongest DEF ts
    <2> QED BY <1>1, <2>6 DEF ts
<1>8. QuoteStaysGood
    BY <1>7 DEF QuoteStaysGood
<1>9. /\ pc' \in [Requests -> {"new", "mint", "confirm", "reserve", "done"}] /\ req' \in [Requests -> RequestShape]
      /\ \A q \in Requests \ {r} : pc'[q] = pc[q] /\ req'[q] = req[q]
      /\ pc'[r] \in {"confirm", "done"} /\ r \notin runs
    <2>1. Nothing \in RequestShape
        BY DEF Nothing, NoToken, RequestShape, AnyAsk, AnyPrice
    <2>2. [req[r] EXCEPT !.expires = 0] \in RequestShape
        BY DEF GateInv, Shape, RequestShape
    <2>3. r \notin runs
        BY <1>1 DEF GateInv, Shape
    <2>4. CASE Goes(r, "confirm") /\ req' = [req EXCEPT ![r].expires = 0]
        BY <2>2, <2>3, <2>4 DEF Goes, GateInv, Shape
    <2>5. CASE Ends(r)
        BY <2>1, <2>3, <2>5 DEF Ends, Goes, GateInv, Shape
    <2> QED BY <2>4, <2>5 DEF Mint
<1>10. Shape'
    <2>1. now' \in Nat /\ quoted' \subseteq QuoteShape /\ tokens' \subseteq quoted'
        BY <1>1, <1>2, <1>7 DEF GateInv, Shape
    <2>2. \A q \in Requests : pc'[q] = "mint" => req'[q].ask \in Asks /\ req'[q].price \in Prices
        BY <1>9 DEF GateInv, Shape
    <2>3. runs' \subseteq Requests /\ \A q \in runs' : pc'[q] = "done"
        BY <1>1, <1>9 DEF GateInv, Shape
    <2> QED BY <1>4, <1>9, <2>1, <2>2, <2>3 DEF Shape
<1>11. Numbered' /\ Timely'
    BY <1>1, <1>2, <1>5, <1>6, <1>9 DEF GateInv, Numbered, Timely
<1>12. \A q \in Requests : Admitted(q)' => Admitted(q) /\ req'[q] = req[q]
    BY <1>1, <1>9 DEF Admitted
<1>13. \A k \in quoted : k \notin tokens => k \notin tokens'
    BY <1>3, <1>7
<1> QED BY <1>1, <1>7, <1>8, <1>10, <1>11, <1>12, <1>13, AdmittedStay DEF GateInv

LEMMA Confirms ==
    ASSUME GateAssumption, GateInv, NEW r \in Requests, Confirm(r) PROVE GateInv' /\ QuoteStaysGood
<1>1. /\ pc[r] = "confirm" /\ r \notin runs /\ UNCHANGED <<now, quoted, runs>>
      /\ tokens' = IF req[r].price \in Dear THEN tokens \ Found(r) ELSE tokens
    BY DEF Confirm, AfterUse, GateInv, Shape
<1>2. /\ pc' \in [Requests -> {"new", "mint", "confirm", "reserve", "done"}] /\ req' \in [Requests -> RequestShape]
      /\ \A q \in Requests \ {r} : pc'[q] = pc[q] /\ req'[q] = req[q]
      /\ pc'[r] \in {"reserve", "done"}
    <2>1. Nothing \in RequestShape
        BY DEF Nothing, NoToken, RequestShape, AnyAsk, AnyPrice
    <2>2. [req[r] EXCEPT !.confirmed = now] \in RequestShape
        BY DEF GateInv, Shape, RequestShape
    <2>3. CASE Goes(r, "reserve") /\ (req' = [req EXCEPT ![r].confirmed = now] \/ req' = req)
        BY <2>2, <2>3 DEF Goes, GateInv, Shape
    <2>4. CASE Ends(r)
        BY <2>1, <2>4 DEF Ends, Goes, GateInv, Shape
    <2> QED BY <2>3, <2>4 DEF Confirm
<1>3. Shape'
    <2>1. \A q \in Requests : pc'[q] = "mint" => req'[q].ask \in Asks /\ req'[q].price \in Prices
        BY <1>2 DEF GateInv, Shape
    <2>2. \A q \in runs' : pc'[q] = "done"
        BY <1>1, <1>2 DEF GateInv, Shape
    <2> QED BY <1>1, <1>2, <2>1, <2>2 DEF GateInv, Shape
<1>4. Numbered' /\ Timely'
    BY <1>1, <1>2 DEF GateInv, Numbered, Timely
<1>5. Cardinality(tokens') <= TokenCap
    <2>1. IsFiniteSet(tokens) /\ tokens' \subseteq tokens
        BY <1>1, FS_Subset DEF GateInv, Shape
    <2>2. IsFiniteSet(tokens') /\ Cardinality(tokens') <= Cardinality(tokens)
        BY <2>1, FS_Subset
    <2> QED BY <2>1, <2>2, FS_CardinalityType DEF GateInv, GateAssumption
<1>6. QuoteStaysGood
    <2>1. ASSUME NEW k \in tokens \ tokens' PROVE Spends(r, k)
        BY <1>1, <1>2, <2>1 DEF Found, Spends
    <2> QED BY <1>5, <2>1 DEF QuoteStaysGood
<1>7. \A k \in quoted : k \notin tokens => k \notin tokens'
    BY <1>1
<1>8. \A q \in Requests \ {r} : Admitted(q)' => Admitted(q) /\ UsedItsQuote(q) /\ UsedItsQuote(q)'
    <2> SUFFICES ASSUME NEW q \in Requests \ {r}, Admitted(q)'
                 PROVE  Admitted(q) /\ UsedItsQuote(q) /\ UsedItsQuote(q)'
        OBVIOUS
    <2>1. Admitted(q) /\ req'[q] = req[q]
        BY <1>1, <1>2 DEF Admitted
    <2>2. UsedItsQuote(q)
        BY <2>1 DEF GateInv
    <2> QED BY <1>1, <1>7, <2>1, <2>2 DEF UsedItsQuote, QuoteOf
<1>9. ASSUME Admitted(r)'
      PROVE  \E k \in tokens : /\ k \notin tokens' /\ Good(k, r) /\ k.id = req[r].body /\ k.price = req[r].price
                               /\ req' = [req EXCEPT ![r].confirmed = now]
    <2>1. req[r].price \in Dear
        <3>1. pc'[r] = "reserve"
            BY <1>1, <1>9 DEF Admitted
        <3>2. ~Ends(r)
            BY <3>1 DEF Ends, Goes, GateInv, Shape
        <3> QED BY <1>9, <3>2 DEF Confirm, Admitted
    <2>2. PICK k \in Found(r) : Good(k, r) /\ req' = [req EXCEPT ![r].confirmed = now]
        <3>1. ~Ends(r)
            BY <1>1, <1>9 DEF Admitted, Ends, Goes, GateInv, Shape
        <3> QED BY <2>1, <3>1 DEF Confirm
    <2> QED BY <1>1, <2>1, <2>2 DEF Found
<1>10. Admitted(r)' => UsedItsQuote(r)'
    <2> SUFFICES ASSUME Admitted(r)' PROVE UsedItsQuote(r)'
        OBVIOUS
    <2>1. PICK k \in tokens : /\ k \notin tokens' /\ Good(k, r) /\ k.id = req[r].body /\ k.price = req[r].price
                              /\ req' = [req EXCEPT ![r].confirmed = now]
        BY <1>9
    <2>2. /\ req'[r].body = req[r].body /\ req'[r].ask = req[r].ask /\ req'[r].price = req[r].price
          /\ req'[r].confirmed = now
        BY <2>1 DEF GateInv, Shape, RequestShape
    <2>3. k \in quoted' /\ k.expires <= now + TTL /\ k.expires \in Nat /\ now \in Nat /\ TTL \in Nat
        BY <1>1 DEF GateInv, Shape, Timely, QuoteShape, GateAssumption
    <2> QED BY <2>1, <2>2, <2>3 DEF UsedItsQuote, QuoteOf, Good
<1>11. ASSUME NEW q \in Requests \ {r}, Admitted(q)', Admitted(r)' PROVE req'[q].body # req'[r].body
    <2>1. PICK k \in tokens : k.id = req[r].body /\ req' = [req EXCEPT ![r].confirmed = now]
        BY <1>9, <1>11
    <2>2. PICK j \in quoted : j.id = req[q].body /\ j \notin tokens
        BY <1>8, <1>11 DEF UsedItsQuote, QuoteOf
    <2>3. req'[r].body = req[r].body /\ req'[q].body = req[q].body
        BY <2>1 DEF GateInv, Shape, RequestShape
    <2> QED BY <2>1, <2>2, <2>3 DEF GateInv, Shape, Numbered
<1>12. \A p, q \in Requests : Admitted(p)' /\ Admitted(q)' /\ req'[p].body = req'[q].body => p = q
    <2>1. \A p, q \in Requests \ {r} : Admitted(p)' /\ Admitted(q)' /\ req'[p].body = req'[q].body => p = q
        BY <1>2, <1>8 DEF GateInv
    <2> QED BY <1>11, <2>1
<1> QED BY <1>3, <1>4, <1>5, <1>6, <1>8, <1>10, <1>12 DEF GateInv

LEMMA Reserves ==
    ASSUME GateInv, NEW r \in Requests, Reserve(r) PROVE GateInv'
<1>1. pc[r] = "reserve" /\ UNCHANGED <<now, tokens, quoted>>
    BY DEF Reserve
<1>2. /\ pc' = [pc EXCEPT ![r] = "done"]
      /\ \/ runs' = runs \cup {r} /\ req' = req
         \/ runs' = runs /\ req' = [req EXCEPT ![r] = Nothing]
    BY DEF Reserve, Ends, Goes
<1>3. Nothing \in RequestShape
    BY DEF Nothing, NoToken, RequestShape, AnyAsk, AnyPrice
<1>4. Shape'
    BY <1>1, <1>2, <1>3 DEF GateInv, Shape
<1>5. Numbered' /\ Timely' /\ Cardinality(tokens') <= TokenCap
    BY <1>1, <1>2 DEF GateInv, Shape, Numbered, Timely
<1>6. \A q \in Requests : Admitted(q)' => Admitted(q) /\ req'[q] = req[q]
    BY <1>1, <1>2 DEF GateInv, Shape, Admitted
<1> QED BY <1>1, <1>4, <1>5, <1>6, AdmittedStay DEF GateInv

\* No other step takes a token away.
LEMMA QuotesStand ==
    ASSUME GateInv, tokens' = tokens PROVE QuoteStaysGood
BY DEF GateInv, QuoteStaysGood

LEMMA GateSteps ==
    ASSUME GateAssumption, GateInv, [GateNext]_vars PROVE GateInv' /\ QuoteStaysGood
<1>1. CASE UNCHANGED vars
    <2>1. UNCHANGED <<now, tokens, quoted, pc, req, runs>>
        BY <1>1 DEF vars
    <2>2. \A q \in Requests : Admitted(q)' => Admitted(q) /\ req'[q] = req[q]
        BY <2>1 DEF Admitted
    <2> QED BY <2>1, <2>2, AdmittedStay, QuotesStand DEF GateInv, Shape, Numbered, Timely
<1>2. CASE Tick
    BY <1>2, ClockTicks, QuotesStand DEF Tick
<1>3. ASSUME NEW r \in Requests, NEW ask \in Asks, NEW p \in Prices,
             NEW body \in {NoToken} \cup {k.id : k \in quoted},
             Estimate(r, ask, body, p)
      PROVE  GateInv' /\ QuoteStaysGood
    BY <1>3, Estimates, QuotesStand DEF Estimate
<1>4. ASSUME NEW r \in Requests, Mint(r) \/ Confirm(r) \/ Reserve(r) PROVE GateInv' /\ QuoteStaysGood
    BY <1>4, Mints, Confirms, Reserves, QuotesStand DEF Reserve
<1> QED BY <1>1, <1>2, <1>3, <1>4 DEF GateNext

-----------------------------------------------------------------------------
(* The gate's invariant: tokens are numbered, timely and no more than the cap, *)
(* and every dear create that was let through used up a quote of its own.     *)
THEOREM GateInvariant ==
    ASSUME GateAssumption PROVE GateSpec => []GateInv
<1>1. Init => GateInv
    BY GateStarts
<1>2. GateInv /\ [GateNext]_vars => GateInv'
    BY GateSteps
<1> QED BY <1>1, <1>2, PTL DEF GateSpec

(* evaluate_confirmation: a dear run was quoted to its account, for its panel  *)
(* and price, within the token's life, and no quote admits two runs.          *)
THEOREM DearRunsWereQuoted ==
    ASSUME GateAssumption PROVE GateSpec => []DearRunWasQuoted
<1>1. GateInv => DearRunWasQuoted
    <2> SUFFICES ASSUME GateInv PROVE DearRunWasQuoted
        OBVIOUS
    <2>1. \A r \in DearRuns : r \in Requests /\ Admitted(r) /\ UsedItsQuote(r)
        BY DEF GateInv, Shape, DearRuns, Admitted
    <2>2. ASSUME NEW r \in DearRuns, NEW q \in DearRuns, QuoteOf(r) = QuoteOf(q) PROVE r = q
        <3>1. req[r].body = req[q].body
            BY <2>1, <2>2 DEF UsedItsQuote, QuoteOf
        <3> QED BY <2>1, <3>1 DEF GateInv
    <2> QED BY <2>1, <2>2 DEF DearRunWasQuoted, UsedItsQuote
<1> QED BY <1>1, GateInvariant, PTL

(* What a quote admits, and how long it stands: it is taken away by its own   *)
(* account's create, by its time, or by as many that last longer as are kept. *)
THEOREM EveryQuoteIsHonoured ==
    ASSUME GateAssumption PROVE GateSpec => QuotesAreHonoured
<1>1. GateInv /\ [GateNext]_vars => [QuoteStaysGood]_vars
    BY GateSteps
<1> QED BY <1>1, GateInvariant, DearRunsWereQuoted, PTL DEF GateSpec, QuotesAreHonoured
-----------------------------------------------------------------------------
(* The rate limits (RateLimit), with constants and variables of their own.    *)

CONSTANTS Keys, Capacity, Refill, Stale, Interval, MaxClock, MaxLate, MaxAsked
VARIABLES clock, sweeps, buckets, swept, late, asked, passed, seen, slipped

Limit == INSTANCE RateLimit WITH MaxNow <- MaxClock, now <- clock

BucketShape == [tokens : 0 .. Capacity, last : Nat]

LimitShape ==
    /\ clock \in Nat /\ late \subseteq [key : Keys, at : 0 .. clock, n : Nat] /\ asked \in Nat
    /\ DOMAIN buckets \subseteq Keys /\ buckets \in [DOMAIN buckets -> BucketShape]
    /\ passed \in Seq([key : Keys, at : Nat])
    /\ seen \in [Keys -> Nat] /\ slipped \in [Keys -> Nat]

\* What a span of time refills.
Gain(span) == Refill * span

\* The requests of one caller that were let through from the i-th on.
Window(k, i, j) == {n \in i .. j : passed[n].key = k}
Through(k, i) == Cardinality(Window(k, i, Len(passed)))

\* What a caller may still take at the clock it was last seen with.
Tokens(k) == IF k \in DOMAIN buckets THEN buckets[k].tokens ELSE Capacity

\* The time that went by for a caller: the clock it was last seen with, and all its slips.
Clock(k) == seen[k] + slipped[k]

LastIsSeen == \A k \in DOMAIN buckets : buckets[k].last = seen[k]

\* What went through since a request, and what is left, was there or was refilled; a
\* clock that slips adds as much to the one as it takes from the other.
NothingIsGained ==
    \A i \in DOMAIN passed :
        LET k == passed[i].key
        IN  Through(k, i) + Tokens(k) <= Capacity + 1 + Gain(Clock(k) - passed[i].at)

\* What is missing in a bucket went through, with all that was refilled since.
NothingIsLost ==
    \A k \in DOMAIN buckets : \E i \in DOMAIN passed :
        Through(k, i) >= Capacity - buckets[k].tokens + Gain(Limit!Elapsed(passed[i].at, buckets[k].last))

LimitInv ==
    LimitShape /\ LastIsSeen /\ NothingIsGained /\ NothingIsLost /\ Limit!NoMoreThanTheLimit

-----------------------------------------------------------------------------
\* Refills add up, and an idle bucket is full, with a token to spare, before it is stale.
LEMMA Gains ==
    ASSUME Limit!LimitAssumption
    PROVE  /\ \A x \in Int : Gain(x) \in Int
           /\ \A x \in Nat : Gain(x) >= 0
           /\ \A x, y \in Int : Gain(x + y) = Gain(x) + Gain(y)
           /\ \A x, y \in Int : x <= y => Gain(x) <= Gain(y)
           /\ \A x \in Int : x > Stale => Gain(x) >= Capacity + 1
           /\ Gain(0) = 0
<1> USE DEF Limit!LimitAssumption, Gain
<1>1. \A x \in Int : Gain(x) \in Int
    OBVIOUS
<1>2. \A x \in Nat : Gain(x) >= 0
    OBVIOUS
<1>3. \A x, y \in Int : Gain(x + y) = Gain(x) + Gain(y)
    OBVIOUS
<1>4. ASSUME NEW x \in Int, NEW y \in Int, x <= y PROVE Gain(x) <= Gain(y)
    <2>1. y - x \in Nat /\ y = x + (y - x)
        BY <1>4
    <2>2. Gain(y) = Gain(x) + Gain(y - x)
        BY <1>3, <2>1
    <2> HIDE DEF Gain
    <2> QED BY <1>1, <1>2, <2>1, <2>2
<1>5. ASSUME NEW x \in Int, x > Stale PROVE Gain(x) >= Capacity + 1
    <2>1. Gain(Stale + 1) >= Capacity + 1
        OBVIOUS
    <2>2. Gain(Stale + 1) <= Gain(x)
        BY <1>4, <1>5
    <2> HIDE DEF Gain
    <2> QED BY <1>1, <2>1, <2>2
<1>6. Gain(0) = 0
    OBVIOUS
<1> QED BY <1>1, <1>2, <1>3, <1>4, <1>5, <1>6

\* No span is negative, and a clock that went back spans nothing.
LEMMA Elapses ==
    \A x, y \in Int : /\ Limit!Elapsed(x, y) \in Nat /\ Limit!Elapsed(x, y) >= y - x
                      /\ Limit!Elapsed(x, y) = 0 \/ Limit!Elapsed(x, y) = y - x
                      /\ y >= x => Limit!Elapsed(x, y) = y - x
BY DEF Limit!Elapsed

\* Sets are counted alike there and here.
LEMMA OneCardinality == \A S : Limit!Cardinality(S) = Cardinality(S)
<1>1. ASSUME NEW S PROVE Limit!Cardinality(S) = Cardinality(S)
    BY DEF Limit!Cardinality, Cardinality
<1> QED BY <1>1

\* A window is counted by a natural number.
LEMMA WindowsAreFinite ==
    ASSUME NEW k, NEW i \in Int, NEW j \in Int
    PROVE  IsFiniteSet(Window(k, i, j)) /\ Cardinality(Window(k, i, j)) \in Nat
<1>1. IsFiniteSet(i .. j) /\ Window(k, i, j) \in SUBSET (i .. j)
    BY FS_Interval DEF Window
<1> QED BY <1>1, FS_Subset, FS_CardinalityType

\* The windows that reach to the newest request grow by it, the others stay.
Grown(k, len, x) ==
    /\ len \in Nat /\ DOMAIN passed = 1 .. len /\ DOMAIN passed' = 1 .. len + 1
    /\ Len(passed') = len + 1
    /\ \A n \in 1 .. len : passed'[n] = passed[n]
    /\ passed'[len + 1] = x
    /\ \A i, j \in 1 .. len : Window(k, i, j)' = Window(k, i, j)
    /\ \A i \in 1 .. len + 1 :
         Through(k, i)' = Cardinality(Window(k, i, len)) + (IF x.key = k THEN 1 ELSE 0)

LEMMA WindowsGrow ==
    ASSUME NEW S, NEW len, len = Len(passed), passed \in Seq(S), NEW x \in S, passed' = Append(passed, x), NEW k
    PROVE  Grown(k, len, x)
<1>1. len \in Nat
    OBVIOUS
<1>2. /\ DOMAIN passed = 1 .. len /\ Len(passed') = len + 1 /\ DOMAIN passed' = 1 .. len + 1
      /\ \A n \in 1 .. len : passed'[n] = passed[n]
      /\ passed'[len + 1] = x
    BY <1>1
<1>3. ASSUME NEW i \in 1 .. len, NEW j \in 1 .. len
      PROVE  {n \in i .. j : passed'[n].key = k} = {n \in i .. j : passed[n].key = k}
    <2>1. \A n \in i .. j : n \in 1 .. len
        OBVIOUS
    <2> QED BY <1>2, <2>1
<1>4. ASSUME NEW i \in 1 .. len + 1
      PROVE  Through(k, i)' = Cardinality(Window(k, i, len)) + (IF x.key = k THEN 1 ELSE 0)
    <2> DEFINE W == {n \in i .. len : passed[n].key = k}
               V == {n \in i .. (len + 1) : passed'[n].key = k}
    <2>1. IsFiniteSet(W) /\ Cardinality(W) \in Nat /\ len + 1 \notin W
        <3>1. IsFiniteSet(Window(k, i, len)) /\ Cardinality(Window(k, i, len)) \in Nat
            BY WindowsAreFinite
        <3>2. W = Window(k, i, len)
            BY DEF Window
        <3>3. len + 1 \notin W
            OBVIOUS
        <3> HIDE DEF W
        <3> QED BY <3>1, <3>2, <3>3
    <2>6. Through(k, i)' = Cardinality(V)
        BY <1>2 DEF Through, Window
    <2>7. Cardinality(Window(k, i, len)) = Cardinality(W)
        BY DEF Window
    <2>2. \A n : n \in i .. (len + 1) <=> n \in i .. len \/ n = len + 1
        OBVIOUS
    <2>3. \A n \in i .. len : passed'[n] = passed[n]
        BY <1>2
    <2>4. CASE x.key = k
        <3>1. V = W \cup {len + 1}
            BY <1>2, <2>2, <2>3, <2>4
        <3> HIDE DEF V, W
        <3>2. Cardinality(V) = Cardinality(W) + 1
            BY <2>1, <3>1, FS_AddElement
        <3> QED BY <2>1, <2>4, <2>6, <2>7, <3>2
    <2>5. CASE x.key # k
        <3>1. V = W
            BY <1>2, <2>2, <2>3, <2>5
        <3>2. Cardinality(V) = Cardinality(W)
            BY <3>1
        <3> HIDE DEF V, W
        <3> QED BY <2>1, <2>5, <2>6, <2>7, <3>2
    <2> QED BY <2>4, <2>5
<1> QED BY <1>1, <1>2, <1>3, <1>4 DEF Grown, Window

-----------------------------------------------------------------------------
(* What one request does under the lock.                                     *)

\* Of every bucket, what is left and what passed were there or were refilled: one that
\* is swept or forgotten was idle for so long that its refill covers a full one.
LEMMA AllowDoes ==
    ASSUME Limit!LimitAssumption, LimitShape, LastIsSeen, NEW q \in late, Limit!Allow(q),
           NEW k, k = q.key, NEW at, at = q.at, NEW b, b = Limit!Bucket(k, at), NEW full, full = Limit!Refilled(b, at)
    PROVE  /\ k \in Keys /\ at \in Nat /\ full \in 0 .. Capacity
           /\ passed' = IF Limit!Allows(b, at) THEN Append(passed, [key |-> k, at |-> at]) ELSE passed
           /\ LimitShape' /\ LastIsSeen' /\ seen'[k] = at
           /\ \A j \in Keys : /\ slipped'[j] >= slipped[j] /\ Tokens(j)' \in 0 .. Capacity
                              /\ Tokens(j) \in 0 .. Capacity
                              /\ Clock(j) \in Int /\ Clock(j)' \in Int
           /\ \A j \in Keys \ {k} : Tokens(j)' <= Tokens(j) + Gain(Clock(j)' - Clock(j))
           /\ (IF Limit!Allows(b, at) THEN 1 ELSE 0) + Tokens(k)' <= Tokens(k) + Gain(Clock(k)' - Clock(k))
           /\ \A j \in DOMAIN buckets' \ {k} : j \in DOMAIN buckets /\ buckets'[j] = buckets[j]
           /\ k \in DOMAIN buckets' =>
                buckets'[k] = [tokens |-> full - (IF Limit!Allows(b, at) THEN 1 ELSE 0), last |-> at]
           /\ \/ k \in DOMAIN buckets /\ b = buckets[k]
              \/ full = Capacity
           /\ b \in BucketShape /\ full = Limit!Least(Capacity, b.tokens + Gain(Limit!Elapsed(b.last, at)))
           /\ full >= 1 => Limit!Allows(b, at)
<1> DEFINE kept == Limit!KeptBySweep(at)
           passes == Limit!Allows(b, at)
           forgets == Limit!Forgets(b, at)
           left == full - (IF passes THEN 1 ELSE 0)
           e == Limit!Elapsed(seen[k], at)
<1>1. k \in Keys /\ at \in Nat /\ Capacity \in Nat /\ Capacity > 0 /\ Stale \in Nat
    BY DEF LimitShape, Limit!LimitAssumption
<1>2. /\ kept \subseteq DOMAIN buckets
      /\ \A j \in DOMAIN buckets \ kept : at - seen[j] > Stale
    BY <1>1 DEF Limit!KeptBySweep, LimitShape, LastIsSeen, BucketShape
<1>3. /\ \/ k \in kept /\ b = buckets[k] /\ b.last = seen[k]
         \/ k \notin kept /\ b = [tokens |-> Capacity, last |-> at]
      /\ b \in BucketShape
    BY <1>1, <1>2 DEF Limit!Bucket, LimitShape, LastIsSeen, BucketShape
<1>4. /\ full = Limit!Least(Capacity, b.tokens + Gain(Limit!Elapsed(b.last, at)))
      /\ Gain(Limit!Elapsed(b.last, at)) \in Int /\ Gain(Limit!Elapsed(b.last, at)) >= 0
    <2>1. b.last \in Nat /\ Limit!Elapsed(b.last, at) \in Nat
        <3>1. b.last \in Nat /\ at \in Nat
            BY <1>1, <1>3 DEF BucketShape
        <3> QED BY <3>1 DEF Limit!Elapsed
    <2>2. full = Limit!Least(Capacity, b.tokens + Gain(Limit!Elapsed(b.last, at)))
        BY DEF Limit!Refilled, Gain
    <2> QED BY <2>1, <2>2, Gains
<1>5. /\ full \in 0 .. Capacity /\ full <= b.tokens + Gain(Limit!Elapsed(b.last, at))
      /\ k \notin kept => full = Capacity
    BY <1>1, <1>3, <1>4 DEF Limit!Least, BucketShape
<1>6. /\ passes <=> forgets \/ full >= 1
      /\ forgets <=> full >= Capacity /\ at - b.last > Stale
    BY DEF Limit!Allows, Limit!Forgets
<1>7. /\ q \in late /\ late' = late \ {q} /\ UNCHANGED <<clock, sweeps, asked>>
      /\ passed' = IF passes THEN Append(passed, [key |-> k, at |-> at]) ELSE passed
      /\ seen' = [j \in Keys |-> IF j = k \/ j \in DOMAIN buckets \ kept THEN at ELSE seen[j]]
      /\ slipped' = [slipped EXCEPT ![k] = slipped[k] + Limit!Elapsed(at, seen[k])]
      /\ buckets' = IF forgets THEN [j \in kept \ {k} |-> buckets[j]]
                    ELSE [j \in DOMAIN [i \in kept \ {k} |-> buckets[i]] \cup {k} |->
                              IF j = k THEN [tokens |-> left, last |-> at]
                              ELSE [i \in kept \ {k} |-> buckets[i]][j]]
    BY DEF Limit!Allow
<1> HIDE DEF kept, passes, forgets
<1>8. /\ DOMAIN buckets' = IF forgets THEN kept \ {k} ELSE (kept \ {k}) \cup {k}
      /\ \A j \in kept \ {k} : buckets'[j] = buckets[j]
      /\ ~forgets => buckets'[k] = [tokens |-> left, last |-> at]
      /\ buckets' \in [DOMAIN buckets' -> {buckets'[j] : j \in DOMAIN buckets'}]
    BY <1>7
<1>9. left \in 0 .. Capacity
    BY <1>1, <1>5, <1>6
<1> HIDE DEF left
<1>10. /\ DOMAIN buckets' \subseteq Keys
       /\ \A j \in DOMAIN buckets' : buckets'[j] \in BucketShape
    BY <1>1, <1>2, <1>8, <1>9 DEF LimitShape, BucketShape
<1>11. /\ seen' \in [Keys -> Nat] /\ slipped' \in [Keys -> Nat] /\ seen'[k] = at
       /\ slipped'[k] = slipped[k] + Limit!Elapsed(at, seen[k])
       /\ \A j \in Keys \ {k} : /\ slipped'[j] = slipped[j]
                                /\ seen'[j] = IF j \in DOMAIN buckets \ kept THEN at ELSE seen[j]
    <2>1. /\ seen \in [Keys -> Nat] /\ slipped \in [Keys -> Nat]
          /\ seen[k] \in Nat /\ slipped[k] \in Nat
        BY <1>1 DEF LimitShape
    <2>2. Limit!Elapsed(at, seen[k]) \in Nat
        BY <1>1, <2>1 DEF Limit!Elapsed
    <2>3. seen' \in [Keys -> Nat]
        BY <1>1, <1>7, <2>1
    <2>4. slipped' \in [Keys -> Nat]
        BY <1>1, <1>7, <2>1, <2>2
    <2> QED BY <1>1, <1>7, <2>1, <2>3, <2>4
<1>12. passed' \in Seq([key : Keys, at : Nat])
    <2>1. [key |-> k, at |-> at] \in [key : Keys, at : Nat]
        BY <1>1
    <2>2. passed \in Seq([key : Keys, at : Nat])
        BY DEF LimitShape
    <2>3. \A S, s, x : s \in Seq(S) /\ x \in S => Append(s, x) \in Seq(S)
        OBVIOUS
    <2>4. Append(passed, [key |-> k, at |-> at]) \in Seq([key : Keys, at : Nat])
        BY <2>1, <2>2, <2>3, Zenon
    <2> QED BY <1>7, <2>2, <2>4, Zenon
<1>13. LimitShape'
    BY <1>7, <1>8, <1>10, <1>11, <1>12 DEF LimitShape
<1>14. LastIsSeen'
    BY <1>1, <1>2, <1>8, <1>11, <1>13 DEF LastIsSeen, LimitShape
<1>15. \A j \in Keys : /\ slipped'[j] \in Nat /\ slipped[j] \in Nat /\ seen'[j] \in Nat /\ seen[j] \in Nat
                       /\ slipped'[j] >= slipped[j]
    <2>1. /\ seen \in [Keys -> Nat] /\ slipped \in [Keys -> Nat]
          /\ seen[k] \in Nat /\ slipped[k] \in Nat
        BY <1>1 DEF LimitShape
    <2>2. Limit!Elapsed(at, seen[k]) \in Nat
        BY <1>1, <2>1 DEF Limit!Elapsed
    <2>3. \A j \in Keys : slipped'[j] >= slipped[j]
        BY <1>1, <1>11, <2>1, <2>2
    <2> QED BY <1>11, <2>1, <2>3
<1>16. \A j \in Keys : Tokens(j) \in 0 .. Capacity /\ Tokens(j)' \in 0 .. Capacity
    BY <1>1, <1>10 DEF Tokens, LimitShape, BucketShape
<1>17. ASSUME NEW j \in Keys \ {k} PROVE Tokens(j)' <= Tokens(j) + Gain(Clock(j)' - Clock(j))
    <2>1. CASE j \in DOMAIN buckets \ kept
        <3>1. Clock(j)' - Clock(j) = at - seen[j] /\ at - seen[j] > Stale /\ at - seen[j] \in Int
            BY <1>1, <1>2, <1>11, <1>15, <2>1 DEF Clock
        <3>2. Gain(Clock(j)' - Clock(j)) >= Capacity + 1 /\ Gain(Clock(j)' - Clock(j)) \in Int
            BY <3>1, Gains
        <3> QED BY <1>1, <1>16, <3>2
    <2>2. CASE j \notin DOMAIN buckets \ kept
        <3>1. Clock(j)' - Clock(j) = 0
            BY <1>11, <1>15, <2>2 DEF Clock
        <3>2. Tokens(j)' = Tokens(j)
            BY <1>2, <1>8, <2>2 DEF Tokens
        <3> QED BY <1>1, <1>16, <3>1, <3>2, Gains
    <2> QED BY <2>1, <2>2
<1>18. (IF passes THEN 1 ELSE 0) + Tokens(k)' <= Tokens(k) + Gain(Clock(k)' - Clock(k))
    <2>1. e \in Nat /\ Clock(k)' - Clock(k) = e
        BY <1>1, <1>11, <1>15 DEF Clock, Limit!Elapsed
    <2>2. Gain(e) \in Int /\ Gain(e) >= 0 /\ (e > Stale => Gain(e) >= Capacity + 1)
        BY <2>1, Gains
    <2>3. Tokens(k)' = IF forgets THEN Capacity ELSE left
        BY <1>8 DEF Tokens
    <2>4. CASE k \in kept
        <3>1. full <= Tokens(k) + Gain(e)
            BY <1>2, <1>3, <1>5, <2>4 DEF Tokens
        <3>2. forgets => e > Stale
            BY <1>1, <1>3, <1>6, <1>15, <2>4 DEF Limit!Elapsed
        <3>3. CASE forgets
            BY <1>1, <1>6, <1>16, <2>1, <2>2, <2>3, <3>2, <3>3
        <3>4. CASE ~forgets
            BY <1>5, <1>16, <2>1, <2>2, <2>3, <3>1, <3>4 DEF left
        <3> QED BY <3>3, <3>4
    <2>5. CASE k \notin kept
        <3>1. full = Capacity /\ ~forgets /\ passes /\ left = Capacity - 1
            BY <1>1, <1>3, <1>5, <1>6, <2>5 DEF left
        <3>2. k \in DOMAIN buckets => e > Stale
            BY <1>1, <1>2, <1>15, <2>5 DEF Limit!Elapsed
        <3>3. k \notin DOMAIN buckets => Tokens(k) = Capacity
            BY DEF Tokens
        <3> QED BY <1>1, <1>16, <2>1, <2>2, <2>3, <3>1, <3>2, <3>3
    <2> QED BY <2>4, <2>5
<1>19. \A j \in DOMAIN buckets' \ {k} : j \in DOMAIN buckets /\ buckets'[j] = buckets[j]
    BY <1>2, <1>8
<1>20. k \in DOMAIN buckets' => buckets'[k] = [tokens |-> left, last |-> at]
    BY <1>8
<1>21. \/ k \in DOMAIN buckets /\ b = buckets[k]
       \/ full = Capacity
    BY <1>2, <1>3, <1>5
<1>22. \A j \in Keys : Clock(j) \in Int /\ Clock(j)' \in Int
    BY <1>15 DEF Clock
<1>23. passed' = IF Limit!Allows(b, at) THEN Append(passed, [key |-> k, at |-> at]) ELSE passed
    BY <1>7 DEF passes
<1>24. (IF Limit!Allows(b, at) THEN 1 ELSE 0) + Tokens(k)' <= Tokens(k) + Gain(Clock(k)' - Clock(k))
    BY <1>18 DEF passes
<1>25. k \in DOMAIN buckets' =>
           buckets'[k] = [tokens |-> full - (IF Limit!Allows(b, at) THEN 1 ELSE 0), last |-> at]
    BY <1>20 DEF passes, left
<1>26. seen'[k] = at
    BY <1>11
<1>27. full \in 0 .. Capacity
    BY <1>5
<1>28. full >= 1 => Limit!Allows(b, at)
    BY <1>6 DEF passes
<1> HIDE DEF LimitShape, LastIsSeen
<1> QED BY ONLY <1>1, <1>3, <1>4, <1>28, <1>13, <1>14, <1>15, <1>16, <1>17, <1>19, <1>21, <1>22, <1>23, <1>24, <1>25, <1>26, <1>27

\* What a request adds to the requests that were let through, p of them.
LEMMA AllowAdds ==
    ASSUME LimitShape, NEW len, len = Len(passed), NEW k \in Keys, NEW at \in Nat, NEW p \in {0, 1},
           passed' = IF p = 1 THEN Append(passed, [key |-> k, at |-> at]) ELSE passed
    PROVE  /\ len \in Nat /\ DOMAIN passed = 1 .. len /\ DOMAIN passed' = 1 .. len + p
           /\ \A i \in DOMAIN passed : /\ passed[i].key \in Keys /\ passed[i].at \in Nat
                                      /\ passed'[i] = passed[i]
           /\ \A j \in Keys, i \in DOMAIN passed :
                /\ Through(j, i) \in Nat
                /\ Through(j, i)' = Through(j, i) + (IF j = k THEN p ELSE 0)
           /\ \A j \in Keys, i, n \in DOMAIN passed : Window(j, i, n)' = Window(j, i, n)
           /\ p = 1 => /\ passed'[len + 1] = [key |-> k, at |-> at]
                       /\ Through(k, len + 1)' = 1
<1> DEFINE R == [key : Keys, at : Nat]
           x == [key |-> k, at |-> at]
<1>1. passed \in Seq(R) /\ x \in R
    BY DEF LimitShape
<1>2. len \in Nat /\ DOMAIN passed = 1 .. len /\ \A i \in DOMAIN passed : passed[i] \in R
    <2> HIDE DEF R
    <2> QED BY <1>1
<1>3. \A j \in Keys, i \in DOMAIN passed :
        Through(j, i) = Cardinality(Window(j, i, len)) /\ Through(j, i) \in Nat
    <2>1. \A i \in DOMAIN passed : i \in Int /\ len \in Int
        BY <1>2
    <2> QED BY <2>1, WindowsAreFinite DEF Through
<1>4. CASE p = 0
    BY <1>2, <1>3, <1>4 DEF Through, Window
<1>5. CASE p = 1
    <2>1. passed' = Append(passed, x)
        BY <1>5
    <2> HIDE DEF R, x
    <2>2. \A j : /\ DOMAIN passed' = 1 .. len + 1
                 /\ \A n \in 1 .. len : passed'[n] = passed[n]
                 /\ passed'[len + 1] = x
                 /\ \A i, n \in 1 .. len : Window(j, i, n)' = Window(j, i, n)
                 /\ \A i \in 1 .. len + 1 :
                      Through(j, i)' = Cardinality(Window(j, i, len)) + (IF x.key = j THEN 1 ELSE 0)
        <3>1. \A j : Grown(j, len, x)
            BY <1>1, <2>1, WindowsGrow
        <3> QED BY <3>1 DEF Grown
    <2>3. x.key = k
        BY DEF x
    <2>4. Window(k, len + 1, len) = {} /\ len + 1 \in 1 .. len + 1
        BY <1>2 DEF Window
    <2>5. Through(k, len + 1)' = 1
        <3>1. Through(k, len + 1)' = Cardinality(Window(k, len + 1, len)) + 1
            <4>1. Through(k, len + 1)'
                    = Cardinality(Window(k, len + 1, len)) + (IF x.key = k THEN 1 ELSE 0)
                BY <2>2, <2>4
            <4> QED BY <2>3, <4>1
        <3>2. Cardinality(Window(k, len + 1, len)) = 0
            BY <2>4, FS_EmptySet
        <3> QED BY <3>1, <3>2
    <2>6. \A j \in Keys, i \in DOMAIN passed : Through(j, i)' = Through(j, i) + (IF j = k THEN p ELSE 0)
        <3> TAKE j \in Keys, i \in DOMAIN passed
        <3>1. i \in 1 .. len + 1
            BY <1>2
        <3>2. Through(j, i)' = Cardinality(Window(j, i, len)) + (IF x.key = j THEN 1 ELSE 0)
            BY <2>2, <3>1
        <3>3. Through(j, i) = Cardinality(Window(j, i, len)) /\ Through(j, i) \in Nat
            BY <1>3
        <3> QED BY <1>5, <2>3, <3>2, <3>3
    <2>7. \A i \in DOMAIN passed : passed[i].key \in Keys /\ passed[i].at \in Nat
        BY <1>2 DEF R
    <2> QED BY <1>2, <1>3, <1>5, <2>2, <2>5, <2>6, <2>7 DEF x
<1> QED BY <1>4, <1>5

\* The lock's holder keeps the invariant, and refuses only who has used up its bucket.
LEMMA AllowKeeps ==
    ASSUME Limit!LimitAssumption, LimitInv, NEW q \in late, Limit!Allow(q)
    PROVE  /\ LimitInv'
           /\ passed' = passed => \E i \in DOMAIN passed :
                Through(q.key, i) >= Capacity + Gain(Limit!Elapsed(passed[i].at, q.at))
<1>1. PICK k, at, b, full, p : /\ k = q.key /\ at = q.at /\ b = Limit!Bucket(k, at)
                               /\ full = Limit!Refilled(b, at) /\ p = IF Limit!Allows(b, at) THEN 1 ELSE 0
    OBVIOUS
<1>2. /\ LimitShape /\ LastIsSeen /\ NothingIsGained /\ NothingIsLost /\ Limit!NoMoreThanTheLimit
      /\ Capacity \in Nat /\ Capacity > 0
    BY DEF LimitInv, Limit!LimitAssumption
<1>3. /\ k \in Keys /\ at \in Nat /\ full \in 0 .. Capacity
      /\ passed' = IF Limit!Allows(b, at) THEN Append(passed, [key |-> k, at |-> at]) ELSE passed
      /\ LimitShape' /\ LastIsSeen' /\ seen'[k] = at
      /\ \A j \in Keys : /\ slipped'[j] >= slipped[j] /\ Tokens(j)' \in 0 .. Capacity
                         /\ Tokens(j) \in 0 .. Capacity
                         /\ Clock(j) \in Int /\ Clock(j)' \in Int
      /\ \A j \in Keys \ {k} : Tokens(j)' <= Tokens(j) + Gain(Clock(j)' - Clock(j))
      /\ p + Tokens(k)' <= Tokens(k) + Gain(Clock(k)' - Clock(k))
      /\ \A j \in DOMAIN buckets' \ {k} : j \in DOMAIN buckets /\ buckets'[j] = buckets[j]
      /\ k \in DOMAIN buckets' => buckets'[k] = [tokens |-> full - p, last |-> at]
      /\ \/ k \in DOMAIN buckets /\ b = buckets[k]
         \/ full = Capacity
      /\ b \in BucketShape /\ full = Limit!Least(Capacity, b.tokens + Gain(Limit!Elapsed(b.last, at)))
      /\ full >= 1 => Limit!Allows(b, at)
    BY ONLY AllowDoes, <1>1, <1>2, Limit!LimitAssumption, q \in late, Limit!Allow(q)
<1>4. p \in {0, 1} /\ passed' = (IF p = 1 THEN Append(passed, [key |-> k, at |-> at]) ELSE passed)
      /\ (full >= 1 => p = 1)
    BY <1>1, <1>3
<1>5. PICK len : len = Len(passed)
    OBVIOUS
<1>16. \A j \in Keys : /\ Clock(j) \in Int /\ Clock(j)' \in Int
                       /\ Tokens(j) \in 0 .. Capacity /\ Tokens(j)' \in 0 .. Capacity
                       /\ (IF j = k THEN p ELSE 0) + Tokens(j)' <= Tokens(j) + Gain(Clock(j)' - Clock(j))
    <2> TAKE j \in Keys
    <2>1. /\ Clock(j) \in Int /\ Clock(j)' \in Int
          /\ Tokens(j) \in 0 .. Capacity /\ Tokens(j)' \in 0 .. Capacity
        BY <1>3
    <2>2. CASE j = k
        BY <1>3, <2>1, <2>2
    <2>3. CASE j # k
        <3>1. Tokens(j)' <= Tokens(j) + Gain(Clock(j)' - Clock(j))
            BY <1>3, <2>3
        <3> QED BY <2>1, <2>3, <3>1
    <2> QED BY <2>2, <2>3
<1>6. /\ len \in Nat /\ DOMAIN passed = 1 .. len /\ DOMAIN passed' = 1 .. len + p
      /\ \A i \in DOMAIN passed : /\ passed[i].key \in Keys /\ passed[i].at \in Nat
                                 /\ passed'[i] = passed[i]
      /\ \A j \in Keys, i \in DOMAIN passed :
           /\ Through(j, i) \in Nat
           /\ Through(j, i)' = Through(j, i) + (IF j = k THEN p ELSE 0)
      /\ \A j \in Keys, i, n \in DOMAIN passed : Window(j, i, n)' = Window(j, i, n)
      /\ p = 1 => /\ passed'[len + 1] = [key |-> k, at |-> at]
                  /\ Through(k, len + 1)' = 1
    <2>1. /\ LimitShape /\ k \in Keys /\ at \in Nat /\ p \in {0, 1}
          /\ passed' = IF p = 1 THEN Append(passed, [key |-> k, at |-> at]) ELSE passed
        BY <1>2, <1>3, <1>4
    <2> QED BY ONLY AllowAdds, <1>5, <2>1
<1>7. \A j \in Keys : /\ slipped[j] \in Nat /\ slipped'[j] \in Nat /\ seen[j] \in Nat /\ seen'[j] \in Nat
                      /\ Clock(j) = seen[j] + slipped[j] /\ Clock(j)' = seen'[j] + slipped'[j]
    BY <1>2, <1>3 DEF LimitShape, Clock
<1> HIDE DEF LimitInv
<1>8. ASSUME NEW i \in DOMAIN passed', NEW c, c = passed'[i].key
      PROVE  /\ c \in Keys /\ passed'[i].at \in Nat /\ Through(c, i)' \in Nat
             /\ Through(c, i)' + Tokens(c)' <= Capacity + 1 + Gain(Clock(c)' - passed'[i].at)
    <2>1. CASE i \in DOMAIN passed
        <3>1. PICK d : d = IF c = k THEN p ELSE 0
            OBVIOUS
        <3>2. c \in Keys /\ c = passed[i].key /\ passed'[i].at = passed[i].at /\ passed[i].at \in Nat /\ d \in Nat
            BY <1>4, <1>6, <1>8, <2>1, <3>1
        <3>3. Through(c, i) \in Nat /\ Through(c, i)' = Through(c, i) + d
            BY <1>6, <2>1, <3>1, <3>2
        <3>4. d + Tokens(c)' <= Tokens(c) + Gain(Clock(c)' - Clock(c))
            BY <1>16, <3>1, <3>2
        <3>5. Through(c, i) + Tokens(c) <= Capacity + 1 + Gain(Clock(c) - passed[i].at)
            BY <1>2, <2>1, <3>2 DEF NothingIsGained
        <3>9. /\ Clock(c) \in Int /\ Clock(c)' \in Int /\ Tokens(c) \in Int /\ Tokens(c)' \in Int
            BY <1>2, <1>16, <3>2
        <3>6. PICK x, y : x = Clock(c) - passed[i].at /\ y = Clock(c)' - Clock(c)
            OBVIOUS
        <3>7. x \in Int /\ y \in Int /\ Clock(c)' - passed[i].at = x + y
            BY <3>2, <3>6, <3>9
        <3>8. Gain(x + y) = Gain(x) + Gain(y) /\ Gain(x) \in Int /\ Gain(y) \in Int
            BY <3>7, Gains
        <3>10. Through(c, i)' + Tokens(c)' <= Capacity + 1 + Gain(x + y)
            BY <1>2, <3>2, <3>3, <3>4, <3>5, <3>6, <3>8, <3>9
        <3> QED BY <3>2, <3>3, <3>7, <3>10
    <2>2. CASE i \notin DOMAIN passed
        <3>1. i = len + 1 /\ p = 1
            BY <1>4, <1>6, <2>2
        <3>2. c = k /\ passed'[i].at = at /\ Through(k, i)' = 1
            BY <1>6, <1>8, <3>1
        <3>3. Clock(k)' - at = slipped'[k] /\ Gain(slipped'[k]) >= 0 /\ Gain(slipped'[k]) \in Int
            <4>1. Clock(k)' = at + slipped'[k] /\ slipped'[k] \in Nat /\ slipped'[k] \in Int
                BY <1>3, <1>7
            <4>2. Gain(slipped'[k]) \in Int /\ Gain(slipped'[k]) >= 0
                BY <4>1, Gains
            <4>3. at \in Nat
                BY <1>3
            <4>4. Clock(k)' - at = slipped'[k]
                BY <4>1, <4>3
            <4> QED BY <4>2, <4>4
        <3>4. Tokens(k)' \in 0 .. Capacity
            BY <1>3
        <3>5. 1 + Tokens(k)' <= Capacity + 1 + Gain(slipped'[k])
            BY <1>2, <3>3, <3>4
        <3> QED BY <1>3, <3>2, <3>3, <3>5
    <2> QED BY <2>1, <2>2
<1>9. NothingIsGained'
    BY <1>8 DEF NothingIsGained
<1>10. ASSUME k \in DOMAIN buckets, b = buckets[k], full < Capacity
       PROVE  \E i \in DOMAIN passed : Through(k, i) >= Capacity - full + Gain(Limit!Elapsed(passed[i].at, at))
    <2>1. PICK i \in DOMAIN passed :
            Through(k, i) >= Capacity - b.tokens + Gain(Limit!Elapsed(passed[i].at, b.last))
        BY <1>2, <1>10 DEF NothingIsLost
    <2>2. /\ b.tokens \in 0 .. Capacity /\ b.last \in Nat /\ passed[i].at \in Nat
          /\ Through(k, i) \in Nat
        BY <1>3, <1>6 DEF BucketShape
    <2>7. PICK x, y, z : /\ x = Limit!Elapsed(passed[i].at, b.last) /\ y = Limit!Elapsed(b.last, at)
                         /\ z = Limit!Elapsed(passed[i].at, at)
        OBVIOUS
    <2>3. x \in Nat /\ y \in Nat /\ z \in Nat /\ z <= x + y
        <3>1. at \in Nat
            BY <1>3
        <3> QED BY <2>2, <2>7, <3>1 DEF Limit!Elapsed
    <2>4. /\ Gain(x) \in Int /\ Gain(y) \in Int /\ Gain(z) \in Int
          /\ Gain(x + y) = Gain(x) + Gain(y) /\ Gain(z) <= Gain(x + y)
        <3>1. x \in Int /\ y \in Int /\ z \in Int /\ x + y \in Int /\ z <= x + y
            BY <2>3
        <3> HIDE <2>3
        <3> QED BY <3>1, Gains
    <2>5. full = b.tokens + Gain(y)
        <3>1. full = Limit!Least(Capacity, b.tokens + Gain(y))
            BY <1>3, <2>7
        <3> QED BY <1>2, <1>10, <2>2, <2>4, <3>1 DEF Limit!Least
    <2>6. Through(k, i) >= Capacity - full + Gain(z)
        <3>1. Through(k, i) >= Capacity - b.tokens + Gain(x)
            BY <2>1, <2>7
        <3> QED BY <1>2, <2>2, <2>4, <2>5, <3>1
    <2> QED BY <2>6, <2>7
<1>11. ASSUME NEW j \in DOMAIN buckets'
       PROVE  \E i \in DOMAIN passed' :
                Through(j, i)' >= Capacity - buckets'[j].tokens
                                    + Gain(Limit!Elapsed(passed'[i].at, buckets'[j].last))
    <2>1. j \in Keys /\ DOMAIN passed \subseteq DOMAIN passed'
        BY <1>3, <1>4, <1>6 DEF LimitShape
    <2>2. CASE j # k
        <3>1. j \in DOMAIN buckets /\ buckets'[j] = buckets[j]
            BY <1>3, <2>2
        <3>2. PICK i \in DOMAIN passed :
                Through(j, i) >= Capacity - buckets[j].tokens + Gain(Limit!Elapsed(passed[i].at, buckets[j].last))
            BY <1>2, <3>1 DEF NothingIsLost
        <3>3. Through(j, i)' = Through(j, i) /\ passed'[i] = passed[i]
            BY <1>6, <2>1, <2>2
        <3> QED BY <2>1, <3>1, <3>2, <3>3
    <2>3. CASE j = k
        <3>1. buckets'[k].tokens = full - p /\ buckets'[k].last = at
            BY <1>3, <2>3
        <3>2. CASE full = Capacity
            <4>1. p = 1 /\ len + 1 \in DOMAIN passed'
                BY <1>2, <1>4, <1>6, <3>2
            <4>2. Through(k, len + 1)' = 1 /\ passed'[len + 1].at = at
                BY <1>6, <4>1
            <4>3. Gain(Limit!Elapsed(at, at)) = 0
                <5>1. Limit!Elapsed(at, at) = 0
                    BY <1>3 DEF Limit!Elapsed
                <5> QED BY <5>1, Gains
            <4>4. Through(k, len + 1)' >= Capacity - (full - p) + Gain(Limit!Elapsed(at, at))
                BY <1>2, <3>2, <4>1, <4>2, <4>3
            <4> QED BY <2>3, <3>1, <4>1, <4>2, <4>4
        <3>3. CASE full # Capacity
            <4>1. PICK i \in DOMAIN passed :
                    Through(k, i) >= Capacity - full + Gain(Limit!Elapsed(passed[i].at, at))
                BY <1>2, <1>3, <1>10, <3>3
            <4>2. /\ Through(k, i) \in Nat /\ Through(k, i)' = Through(k, i) + p /\ passed'[i] = passed[i]
                  /\ passed[i].at \in Nat
                BY <1>3, <1>6
            <4>5. Limit!Elapsed(passed[i].at, at) \in Int
                BY <1>3, <4>2 DEF Limit!Elapsed
            <4>3. PICK g \in Int : g = Gain(Limit!Elapsed(passed[i].at, at))
                BY <4>5, Gains
            <4>6. Capacity \in Nat /\ full \in Int /\ p \in Int
                BY <1>2, <1>3, <1>4
            <4>7. Through(k, i) >= Capacity - full + g
                BY <4>1, <4>3
            <4>4. Through(k, i)' >= Capacity - (full - p) + g
                BY <4>2, <4>3, <4>6, <4>7
            <4> QED BY <2>1, <2>3, <3>1, <4>2, <4>3, <4>4
        <3> QED BY <3>2, <3>3
    <2> QED BY <2>2, <2>3
<1>12. NothingIsLost'
    BY <1>11 DEF NothingIsLost
<1>13. ASSUME NEW i \in DOMAIN passed', NEW j \in DOMAIN passed', NEW c, c = passed'[i].key,
              i <= j, passed'[j].key = c
       PROVE  Cardinality(Window(c, i, j)') <= Capacity + 1
                + Gain(Limit!Elapsed(passed'[i].at, passed'[j].at) + slipped'[c])
    <2>1. c \in Keys /\ passed'[i].at \in Nat /\ passed'[j].at \in Nat
        BY <1>8, <1>13
    <2>2. PICK e \in Nat : e = Limit!Elapsed(passed'[i].at, passed'[j].at)
        BY <2>1 DEF Limit!Elapsed
    <2>3. /\ slipped[c] \in Nat /\ slipped'[c] \in Nat /\ slipped'[c] >= slipped[c]
        BY <1>3, <1>7, <2>1
    <2>4. CASE j \in DOMAIN passed
        <3>1. i \in DOMAIN passed
            BY <1>6, <1>13, <2>4
        <3>2. /\ Window(c, i, j)' = Window(c, i, j)
              /\ passed'[i] = passed[i] /\ passed'[j] = passed[j]
            BY <1>6, <2>1, <2>4, <3>1
        <3>3. Cardinality(Window(c, i, j)) <= Capacity + 1 + Gain(e + slipped[c])
            <4>1. passed[i].key = c /\ passed[j].key = c
                BY <1>13, <3>2
            <4>2. e = Limit!Elapsed(passed[i].at, passed[j].at)
                BY <2>2, <3>2
            <4>3. Cardinality(Window(c, i, j)) <= Limit!Allowance(c, e)
                BY <1>2, <1>13, <2>4, <3>1, <4>1, <4>2, OneCardinality DEF Limit!NoMoreThanTheLimit, Window
            <4> QED BY <4>3 DEF Limit!Allowance, Gain
        <3>4. Gain(e + slipped[c]) <= Gain(e + slipped'[c]) /\ Gain(e + slipped[c]) \in Int
              /\ Gain(e + slipped'[c]) \in Int
            <4>1. e + slipped[c] \in Int /\ e + slipped'[c] \in Int /\ e + slipped[c] <= e + slipped'[c]
                BY <2>2, <2>3
            <4> QED BY <4>1, Gains
        <3>5. Cardinality(Window(c, i, j)) \in Nat
            BY <1>6, <2>4, <3>1, WindowsAreFinite
        <3> QED BY <1>2, <2>2, <3>2, <3>3, <3>4, <3>5
    <2>5. CASE j \notin DOMAIN passed
        <3>1. j = len + 1 /\ p = 1
            BY <1>4, <1>6, <2>5
        <3>2. c = k /\ passed'[j].at = at /\ Len(passed') = j
            <4>1. Len(passed') = len + 1
                BY <1>2, <1>4, <1>5, <3>1 DEF LimitShape
            <4> QED BY <1>6, <1>13, <3>1, <4>1
        <3>3. Cardinality(Window(c, i, j)') = Through(c, i)'
            BY <3>1, <3>2 DEF Through, Window
        <3>4. Through(c, i)' + Tokens(c)' <= Capacity + 1 + Gain(Clock(c)' - passed'[i].at) /\ Through(c, i)' \in Nat
            BY <1>8, <1>13
        <3>5. Clock(c)' - passed'[i].at <= e + slipped'[c] /\ Clock(c)' - passed'[i].at \in Int
            <4>1. Clock(c)' = at + slipped'[c]
                BY <1>3, <1>7, <3>2
            <4>2. at \in Nat /\ passed'[i].at \in Nat /\ slipped'[c] \in Nat
                BY <1>3, <2>1, <2>3
            <4>3. e = Limit!Elapsed(passed'[i].at, at)
                BY <2>2, <3>2
            <4> QED BY <4>1, <4>2, <4>3 DEF Limit!Elapsed
        <3>6. /\ Gain(Clock(c)' - passed'[i].at) \in Int /\ Gain(e + slipped'[c]) \in Int
              /\ Gain(Clock(c)' - passed'[i].at) <= Gain(e + slipped'[c])
            <4>1. e + slipped'[c] \in Int
                BY <2>2, <2>3
            <4> QED BY <3>5, <4>1, Gains
        <3>7. Tokens(c)' \in Int /\ Tokens(c)' >= 0
            BY <1>2, <1>16, <2>1
        <3>8. Through(c, i)' <= Capacity + 1 + Gain(e + slipped'[c])
            BY <1>2, <3>4, <3>6, <3>7
        <3> QED BY <2>2, <3>3, <3>8
    <2> QED BY <2>4, <2>5
<1>14. Limit!NoMoreThanTheLimit'
    <2>1. ASSUME NEW i \in DOMAIN passed', NEW j \in DOMAIN passed', i <= j,
                 passed'[j].key = passed'[i].key
          PROVE  Cardinality({n \in i .. j : passed'[n].key = passed'[i].key})
                    <= Capacity + 1 + Refill * (Limit!Elapsed(passed'[i].at, passed'[j].at)
                                                    + slipped'[passed'[i].key])
        BY <1>13, <2>1 DEF Window, Gain
    <2> QED BY <2>1, OneCardinality DEF Limit!NoMoreThanTheLimit, Limit!Allowance
<1>15. ASSUME passed' = passed
       PROVE  \E i \in DOMAIN passed :
                Through(q.key, i) >= Capacity + Gain(Limit!Elapsed(passed[i].at, q.at))
    <2>1. full = 0
        <3>1. p = 0
            BY <1>4, <1>6, <1>15
        <3> QED BY <1>2, <1>3, <1>4, <3>1
    <2>2. \E i \in DOMAIN passed : Through(k, i) >= Capacity - full + Gain(Limit!Elapsed(passed[i].at, at))
        BY <1>2, <1>3, <1>10, <2>1
    <2> QED BY <1>1, <1>2, <2>1, <2>2
<1> QED BY <1>3, <1>9, <1>12, <1>14, <1>15 DEF LimitInv

\* Only the limiter's lock holder changes what the invariant is about.
LEMMA LimitSteps ==
    ASSUME Limit!LimitAssumption, LimitInv, [Limit!LimitNext]_(Limit!vars)
    PROVE  LimitInv' /\ Limit!RefusedForItsOwnRequests
<1>1. CASE \E q \in late : Limit!Allow(q)
    <2>1. PICK q \in late : Limit!Allow(q)
        BY <1>1
    <2>2. LimitInv' /\ late' = late \ {q}
        BY <2>1, AllowKeeps DEF Limit!Allow
    <2>3. ASSUME NEW r \in late, r \notin late', passed' = passed
          PROVE  \E i \in DOMAIN passed :
                    Cardinality({n \in i .. Len(passed) : passed[n].key = r.key})
                        >= Capacity + Refill * Limit!Elapsed(passed[i].at, r.at)
        <3>1. r = q
            BY <2>2, <2>3
        <3> QED BY <2>1, <2>3, <3>1, AllowKeeps DEF Through, Window, Gain
    <2>4. Limit!RefusedForItsOwnRequests
        BY <2>3, OneCardinality DEF Limit!RefusedForItsOwnRequests
    <2> QED BY <2>2, <2>4
<1>2. ASSUME clock' \in Nat, clock' >= clock, late' \subseteq [key : Keys, at : 0 .. clock', n : Nat],
             late \subseteq late', asked' \in Nat, UNCHANGED <<buckets, passed, seen, slipped>>
      PROVE  LimitInv' /\ Limit!RefusedForItsOwnRequests
    <2>1. LimitShape'
        BY <1>2 DEF LimitInv, LimitShape
    <2>2. LastIsSeen' /\ Limit!NoMoreThanTheLimit'
        BY <1>2 DEF LimitInv, LastIsSeen, Limit!NoMoreThanTheLimit, Limit!Allowance
    <2>3. \A j, i : Through(j, i)' = Through(j, i) /\ Tokens(j)' = Tokens(j) /\ Clock(j)' = Clock(j)
        BY <1>2 DEF Through, Window, Tokens, Clock
    <2>4. NothingIsGained' /\ NothingIsLost'
        BY <1>2, <2>3 DEF LimitInv, NothingIsGained, NothingIsLost
    <2> QED BY <1>2, <2>1, <2>2, <2>4 DEF LimitInv, Limit!RefusedForItsOwnRequests
<1>3. clock \in Nat /\ asked \in Nat /\ late \subseteq [key : Keys, at : 0 .. clock, n : Nat]
    BY DEF LimitInv, LimitShape
<1>4. CASE Limit!Tick
    <2>1. clock' = clock + 1 /\ UNCHANGED <<late, asked, buckets, passed, seen, slipped>>
        BY <1>4 DEF Limit!Tick
    <2>2. [key : Keys, at : 0 .. clock, n : Nat] \subseteq [key : Keys, at : 0 .. clock', n : Nat]
        BY <1>3, <2>1
    <2> QED BY <1>2, <1>3, <2>1, <2>2
<1>5. CASE \E k \in Keys : Limit!Arrive(k)
    <2>1. PICK k \in Keys : Limit!Arrive(k)
        BY <1>5
    <2>2. /\ asked' = asked + 1 /\ late' = late \cup {[key |-> k, at |-> clock, n |-> asked']}
          /\ UNCHANGED <<clock, buckets, passed, seen, slipped>>
        BY <2>1 DEF Limit!Arrive
    <2>3. [key |-> k, at |-> clock, n |-> asked'] \in [key : Keys, at : 0 .. clock, n : Nat]
        BY <1>3, <2>2
    <2> QED BY <1>2, <1>3, <2>2, <2>3
<1>6. CASE UNCHANGED Limit!vars
    BY <1>2, <1>3, <1>6 DEF Limit!vars
<1> QED BY <1>1, <1>4, <1>5, <1>6 DEF Limit!LimitNext

\* A limiter starts without buckets and without requests.
LEMMA LimitBegins == ASSUME Limit!LimitAssumption, Limit!Init PROVE LimitInv
<1>1. LimitShape
    BY DEF Limit!Init, LimitShape
<1>2. DOMAIN passed = {} /\ DOMAIN buckets = {}
    BY DEF Limit!Init
<1> QED BY <1>1, <1>2 DEF LimitInv, LastIsSeen, NothingIsGained, NothingIsLost, Limit!NoMoreThanTheLimit

(* _InMemoryIpRateLimiter.allow, _InMemoryAccountRateLimiter.allow: what went  *)
(* through and what is left in a bucket add up, within what was refilled, in   *)
(* every window that reaches to now.                                          *)
THEOREM LimitInvariant ==
    ASSUME Limit!LimitAssumption PROVE Limit!LimitSpec => []LimitInv
<1>1. Limit!Init => LimitInv
    BY LimitBegins
<1>2. LimitInv /\ [Limit!LimitNext]_(Limit!vars) => LimitInv'
    BY LimitSteps
<1> QED BY <1>1, <1>2, PTL DEF Limit!LimitSpec

(* The limit is the advertised one: no window lets a caller through more often *)
(* than a bucket, its refill, one free request and the time its clocks slipped *)
(* allow, and nobody is refused before it has taken that much itself.         *)
THEOREM TheLimitIsAdvertised ==
    ASSUME Limit!LimitAssumption PROVE Limit!LimitSpec => Limit!LimitIsAsAdvertised
<1>1. LimitInv => Limit!NoMoreThanTheLimit
    BY DEF LimitInv
<1>2. LimitInv /\ [Limit!LimitNext]_(Limit!vars) => [Limit!RefusedForItsOwnRequests]_(Limit!vars)
    BY LimitSteps
<1> QED BY <1>1, <1>2, LimitInvariant, PTL DEF Limit!LimitSpec, Limit!LimitIsAsAdvertised

-----------------------------------------------------------------------------
(* CloseWindow: ending a live window, for every declaration an operator may   *)
(* make.                                                                      *)

CONSTANTS Cadence, Declarations, Adrs, Flags, LastHour, MaxEdits,
    NumHosts, Starts, Remarks, MaxMoves
VARIABLES hour, adrs, deployed, tree, script, edits, prod, secret, comments, watch, alert, moves

Close == INSTANCE CloseWindow WITH
    MaxClock <- LastHour, clock <- hour, authorised <- adrs, main <- deployed

CloseShape ==
    /\ hour \in Nat /\ Close!AreEntries(tree.windows)
    /\ DOMAIN tree = {"windows", "live", "peer"}
    /\ DOMAIN script = {"pc", "now", "payload", "exit", "was"}
    /\ script.pc \in {"idle", "windows"} /\ script.now \in Nat

FlagsAreOff == tree.live = "off" /\ tree.peer = "off"
Closed == Close!CloseWindows(script.was, script.now)

\* Between its two writes the script has switched the flags off, and holds the windows as it
\* read them; a run of it that ended well has closed them, or found none that was open.
CloseInv ==
    /\ CloseShape
    /\ script.payload = <<>> \/ tree.live = "off"
    /\ script.pc = "windows" =>
        /\ FlagsAreOff /\ script.payload = Closed
        /\ Close!AreEntries(script.was)
    /\ script.exit = 0 =>
        /\ FlagsAreOff /\ Close!AreEntries(script.was)
        /\ \/ tree.windows = Closed
           \/ tree.windows = script.was /\ Close!FindOpenWindows(script.was, script.now) = {}

\* What a close leaves is still a file that can be read.
LEMMA ClosedAreEntries ==
    ASSUME NEW ws, NEW moment \in Nat, Close!AreEntries(ws)
    PROVE  /\ Close!AreEntries(Close!CloseWindows(ws, moment))
           /\ \A i \in DOMAIN ws :
                /\ i \notin Close!FindOpenWindows(ws, moment) => Close!CloseWindows(ws, moment)[i] = ws[i]
                /\ i \in Close!FindOpenWindows(ws, moment) =>
                    LET w == Close!CloseWindows(ws, moment)[i]
                    IN  /\ w.expires = moment /\ w.sound = ws[i].sound /\ w.mode = ws[i].mode
                        /\ w.opened = ws[i].opened /\ w.issue = ws[i].issue /\ w.adr = ws[i].adr
<1> DEFINE closed == Close!CloseWindows(ws, moment)
<1>1. Len(ws) \in Nat /\ DOMAIN ws = 1 .. Len(ws) /\ \A i \in 1 .. Len(ws) : Close!IsEntry(ws[i])
    BY DEF Close!AreEntries
<1>2. DOMAIN closed = 1 .. Len(ws)
    BY <1>1 DEF Close!CloseWindows
<1>3. ASSUME NEW i \in 1 .. Len(ws)
      PROVE  /\ closed[i] = IF i \in Close!FindOpenWindows(ws, moment)
                            THEN [ws[i] EXCEPT !.expires = moment] ELSE ws[i]
             /\ Close!IsEntry(ws[i])
    BY <1>1 DEF Close!CloseWindows
<1>4. ASSUME NEW w, Close!IsEntry(w)
      PROVE  LET v == [w EXCEPT !.expires = moment]
             IN  /\ Close!IsEntry(v) /\ v.expires = moment /\ v.sound = w.sound /\ v.mode = w.mode
                 /\ v.opened = w.opened /\ v.issue = w.issue /\ v.adr = w.adr
    BY <1>4 DEF Close!IsEntry
<1>5. \A i \in 1 .. Len(ws) : Close!IsEntry(closed[i])
    <2> HIDE DEF closed
    <2> QED BY <1>3, <1>4
<1>6. closed \in [1 .. Len(ws) -> {closed[i] : i \in 1 .. Len(ws)}]
    BY <1>1 DEF Close!CloseWindows
<1>7. Len(closed) = Len(ws)
    <2> HIDE DEF closed
    <2> QED BY <1>1, <1>2, <1>6
<1>8. Close!AreEntries(closed)
    <2> HIDE DEF closed
    <2> QED BY <1>1, <1>2, <1>5, <1>7 DEF Close!AreEntries
<1>9. ASSUME NEW i \in DOMAIN ws
      PROVE  /\ i \notin Close!FindOpenWindows(ws, moment) => closed[i] = ws[i]
             /\ i \in Close!FindOpenWindows(ws, moment) =>
                    LET w == closed[i]
                    IN  /\ w.expires = moment /\ w.sound = ws[i].sound /\ w.mode = ws[i].mode
                        /\ w.opened = ws[i].opened /\ w.issue = ws[i].issue /\ w.adr = ws[i].adr
    <2> HIDE DEF closed
    <2> QED BY <1>1, <1>3, <1>4
<1> QED BY <1>8, <1>9

LEMMA CloseBegins == ASSUME Close!CloseAssumption, Close!CloseInit PROVE CloseInv
<1>1. Close!AreEntries(<<>>)
    BY DEF Close!AreEntries
<1> QED BY <1>1 DEF Close!CloseInit, CloseInv, CloseShape, Close!NoScript, Close!None

\* A run that is over holds no windows any more, and is over.
LEMMA EndedIsOver ==
    ASSUME NEW exit, CloseShape
    PROVE  LET s == Close!Ended(exit)
           IN  /\ DOMAIN s = {"pc", "now", "payload", "exit", "was"} /\ s.pc = "idle"
               /\ s.now = hour /\ s.payload = <<>> /\ s.exit = exit /\ s.was = tree.windows
BY DEF Close!Ended, Close!NoScript, Close!None

\* Switched off, the tree keeps its windows.
LEMMA SwitchedOff ==
    ASSUME CloseShape
    PROVE  LET t == Close!FlagsOff(tree)
           IN  /\ DOMAIN t = {"windows", "live", "peer"} /\ t.windows = tree.windows
               /\ t.live = "off" /\ t.peer = "off"
BY DEF Close!FlagsOff, CloseShape

LEMMA CloseSteps ==
    ASSUME Close!CloseAssumption, CloseInv, [Close!CloseNext]_(Close!closeVars) PROVE CloseInv'
<1> USE DEF CloseInv, CloseShape
<1>1. CASE Close!Edit
    <2>1. PICK ws \in Declarations, f \in Flags :
              tree' = [windows |-> ws, live |-> f[1], peer |-> f[2]]
        BY <1>1 DEF Close!Edit
    <2>2. Close!AreEntries(ws)
        BY DEF Close!CloseAssumption
    <2> QED BY <1>1, <2>1, <2>2 DEF Close!Edit, Close!NoScript, Close!None
<1>2. CASE Close!Commit \/ Close!Revoke \/ UNCHANGED Close!closeVars
    BY <1>2 DEF Close!Commit, Close!Revoke, Close!closeVars, FlagsAreOff, Closed
<1>3. CASE Close!Tick
    BY <1>3 DEF Close!Tick, FlagsAreOff, Closed
<1>4. CASE Close!Interrupt
    BY <1>4 DEF Close!Interrupt, FlagsAreOff, Closed
<1>5. CASE Close!CloseOpen
    <2> DEFINE payload == Close!CloseWindows(tree.windows, hour)
    <2>1. CASE Close!Editable(tree)
        <3>1. /\ script' = [Close!Ended(-1) EXCEPT !.pc = "windows", !.payload = payload]
              /\ tree' = Close!FlagsOff(tree) /\ UNCHANGED hour
            BY <1>5, <2>1 DEF Close!CloseOpen, Close!FirstWrite, Close!None
        <3>2. /\ script'.pc = "windows" /\ script'.now = hour /\ script'.payload = payload
              /\ script'.exit = -1 /\ script'.was = tree.windows
              /\ DOMAIN script' = {"pc", "now", "payload", "exit", "was"}
            BY <3>1, EndedIsOver
        <3>3. /\ DOMAIN tree' = {"windows", "live", "peer"} /\ tree'.windows = tree.windows
              /\ tree'.live = "off" /\ tree'.peer = "off"
            BY <3>1, SwitchedOff
        <3>4. script'.payload = Closed' /\ Close!AreEntries(script'.was)
            BY <3>2 DEF Closed
        <3> HIDE DEF payload
        <3>5. CloseShape'
            BY <3>1, <3>2, <3>3
        <3> QED BY <3>2, <3>3, <3>4, <3>5 DEF FlagsAreOff
    <2>2. CASE ~Close!Editable(tree)
        <3>1. script' = Close!Ended(2) /\ UNCHANGED <<tree, hour>>
            BY <1>5, <2>2 DEF Close!CloseOpen
        <3>2. /\ script'.pc = "idle" /\ script'.now = hour /\ script'.payload = <<>>
              /\ script'.exit = 2 /\ script'.was = tree.windows
              /\ DOMAIN script' = {"pc", "now", "payload", "exit", "was"}
            BY <3>1, EndedIsOver
        <3> QED BY <3>1, <3>2
    <2> QED BY <2>1, <2>2
<1>6. CASE Close!CloseDeclaration
    <2>1. /\ script.pc = "windows" /\ tree' = [Close!FlagsOff(tree) EXCEPT !.windows = script.payload]
          /\ script' = [script EXCEPT !.pc = "idle", !.exit = 0] /\ UNCHANGED hour
        BY <1>6 DEF Close!CloseDeclaration
    <2>2. /\ DOMAIN tree' = {"windows", "live", "peer"} /\ tree'.windows = script.payload
          /\ tree'.live = "off" /\ tree'.peer = "off"
        BY <2>1, SwitchedOff
    <2>3. /\ script'.pc = "idle" /\ script'.now = script.now /\ script'.payload = script.payload
          /\ script'.exit = 0 /\ script'.was = script.was
          /\ DOMAIN script' = {"pc", "now", "payload", "exit", "was"}
        BY <2>1
    <2>4. Close!AreEntries(script.payload) /\ Close!AreEntries(script.was) /\ script.payload = Closed
        BY <2>1, ClosedAreEntries DEF Closed
    <2>5. tree'.windows = Closed' /\ Close!AreEntries(script'.was) /\ Close!AreEntries(tree'.windows)
        BY <2>2, <2>3, <2>4 DEF Closed
    <2> QED BY <2>1, <2>2, <2>3, <2>5 DEF FlagsAreOff
<1>7. CASE Close!CloseStranded
    <2>1. CASE tree' = Close!FlagsOff(tree) /\ \E exit \in {0, 1} : script' = Close!Ended(exit)
        <3>1. PICK exit \in {0, 1} : script' = Close!Ended(exit)
            BY <2>1
        <3>2. /\ DOMAIN tree' = {"windows", "live", "peer"} /\ tree'.windows = tree.windows
              /\ tree'.live = "off" /\ tree'.peer = "off"
            BY <2>1, SwitchedOff
        <3>3. /\ script'.pc = "idle" /\ script'.now = hour /\ script'.payload = <<>>
              /\ script'.exit = exit /\ script'.was = tree.windows
              /\ DOMAIN script' = {"pc", "now", "payload", "exit", "was"}
            BY <3>1, EndedIsOver
        <3>4. Close!FindOpenWindows(tree.windows, hour) = {} /\ UNCHANGED hour
            BY <1>7 DEF Close!CloseStranded
        <3>5. Close!FindOpenWindows(script'.was, script'.now) = {}
            BY <3>3, <3>4
        <3> QED BY <3>2, <3>3, <3>4, <3>5 DEF FlagsAreOff
    <2>2. CASE UNCHANGED tree /\ \E exit \in {1, 2} : script' = Close!Ended(exit)
        <3>1. PICK exit \in {1, 2} : script' = Close!Ended(exit)
            BY <2>2
        <3>2. /\ script'.pc = "idle" /\ script'.now = hour /\ script'.payload = <<>>
              /\ script'.exit = exit /\ script'.was = tree.windows
              /\ DOMAIN script' = {"pc", "now", "payload", "exit", "was"}
            BY <3>1, EndedIsOver
        <3>3. UNCHANGED hour
            BY <1>7 DEF Close!CloseStranded
        <3> QED BY <2>2, <3>2, <3>3
    <2> QED BY <1>7, <2>1, <2>2 DEF Close!CloseStranded
<1> QED BY <1>1, <1>2, <1>3, <1>4, <1>5, <1>6, <1>7 DEF Close!CloseNext

LEMMA ClosedPassesTheGate ==
    ASSUME Close!CloseAssumption, CloseInv PROVE Close!CloseMayMerge
<1>1. SUFFICES ASSUME script.exit = 0, script.now = hour, Close!Trusted(script.was, adrs),
                      \A i \in DOMAIN script.was : script.was[i].opened # script.now
               PROVE  Close!Gate(tree, adrs, hour)
    BY DEF Close!CloseMayMerge
<1> DEFINE ws == script.was
<1>2. FlagsAreOff /\ Close!AreEntries(ws) /\ hour \in Nat
    BY <1>1 DEF CloseInv, CloseShape
<1>3. ASSUME NEW i \in DOMAIN ws
      PROVE  /\ ws[i].opened \in Int /\ ws[i].expires \in Int /\ ws[i].opened # hour
             /\ Close!Declares(ws[i], adrs)
    BY <1>1, <1>2 DEF Close!AreEntries, Close!IsEntry, Close!Trusted
<1>4. DOMAIN tree.windows = DOMAIN ws
    BY <1>1 DEF CloseInv, Closed, Close!CloseWindows
<1>5. ASSUME NEW i \in DOMAIN ws
      PROVE  /\ Close!Declares(tree.windows[i], adrs)
             /\ Close!Covers(tree.windows[i], hour) => Close!Standing(tree.windows[i])
    <2>1. CASE tree.windows = Closed /\ i \in Close!FindOpenWindows(ws, hour)
        <3> DEFINE w == tree.windows[i]
        <3>1. /\ w.expires = hour /\ w.sound = ws[i].sound /\ w.mode = ws[i].mode
              /\ w.opened = ws[i].opened /\ w.issue = ws[i].issue /\ w.adr = ws[i].adr
            BY <1>1, <1>2, <2>1, ClosedAreEntries DEF Closed
        <3>2. /\ ws[i].mode = "time_boxed" /\ ws[i].expires # -1
              /\ ws[i].opened <= hour /\ hour < ws[i].expires
            BY <2>1 DEF Close!FindOpenWindows, Close!Covers, Close!None
        <3>3. Close!Declares(w, adrs) /\ ~Close!Covers(w, hour)
            <4> HIDE DEF w
            <4> QED BY <1>2, <1>3, <3>1, <3>2 DEF Close!Declares, Close!Covers, Close!Standing,
                    Close!None, Close!CloseAssumption
        <3> QED BY <3>3
    <2>2. CASE tree.windows[i] = ws[i] /\ i \notin Close!FindOpenWindows(ws, hour)
        BY <1>3, <2>2 DEF Close!FindOpenWindows, Close!Declares, Close!Covers, Close!Standing, Close!None
    <2>3. tree.windows = Closed /\ i \notin Close!FindOpenWindows(ws, hour) => tree.windows[i] = ws[i]
        BY <1>1, <1>2, ClosedAreEntries DEF Closed
    <2> QED BY <1>1, <2>1, <2>2, <2>3 DEF CloseInv
<1> QED BY <1>2, <1>4, <1>5 DEF Close!Gate, Close!Trusted, FlagsAreOff

(* close_live_window.py: the flags go off before the windows are taken back,  *)
(* whatever was declared, committed, revoked or interrupted around it.        *)
THEOREM CloseInvariant ==
    ASSUME Close!CloseAssumption PROVE Close!CloseSpec => []CloseInv
<1>1. Close!CloseInit => CloseInv
    BY CloseBegins
<1>2. CloseInv /\ [Close!CloseNext]_(Close!closeVars) => CloseInv'
    BY CloseSteps
<1> QED BY <1>1, <1>2, PTL DEF Close!CloseSpec

(* No run of it, finished or interrupted, leaves the flag on over a window it *)
(* has closed, and what a finished one leaves of a file that was in order     *)
(* passes the gate.                                                           *)
THEOREM ClosedWindowsAreClosed ==
    ASSUME Close!CloseAssumption
    PROVE  Close!CloseSpec => [](Close!CloseNeverStrands /\ Close!CloseMayMerge)
<1>1. CloseInv => Close!CloseNeverStrands
    BY DEF CloseInv, Close!CloseNeverStrands
<1>2. CloseInv => Close!CloseMayMerge
    BY ClosedPassesTheGate
<1> QED BY <1>1, <1>2, CloseInvariant, PTL

-----------------------------------------------------------------------------
(* PostureWatch: the watchdog over the switch, for every number of hosts it   *)
(* probes, every declaration and every way production moves while it reads.   *)

Watch == INSTANCE PostureWatch WITH
    Earlier <- Remarks, clock <- hour, authorised <- adrs, main <- deployed

Postures == [live : BOOLEAN, judge : BOOLEAN]
Fields == {"pc", "now", "trusted", "windows", "ready", "judge", "notes", "decision", "complete",
           "crashed", "seen"}

WatchShape ==
    /\ hour \in Int /\ Watch!AreEntries(deployed.windows) /\ prod \in Postures
    /\ \A c \in comments : c.at \in Int /\ c.issue # "none"
    /\ DOMAIN watch = Fields /\ watch.now \in Int /\ Watch!AreEntries(watch.windows)
    /\ watch.pc \in {"idle", "ready", "judge", "issues", "verdict", "reported", "over"}
    /\ watch.ready \in [Watch!Hosts -> {"unread", "on", "off", "odd", "down"}]
    /\ watch.judge \in [Watch!Hosts -> {"unread", "on", "off", "down"}]
    /\ watch.seen \subseteq Postures /\ alert \in BOOLEAN

\* What a check has read of an endpoint was so at some moment of the check.
ReadsAreOfTheCheck ==
    /\ watch.pc \in {"ready", "judge", "issues"} => prod \in watch.seen
    /\ \A h \in Watch!Hosts :
        /\ watch.ready[h] = "on" => \E p \in watch.seen : p.live
        /\ watch.ready[h] = "off" => \E p \in watch.seen : ~p.live
        /\ watch.judge[h] = "on" => \E p \in watch.seen : p.judge
        /\ watch.judge[h] = "off" => \E p \in watch.seen : ~p.judge
    /\ watch.pc = "issues" => \A h \in Watch!Hosts : watch.judge[h] # "unread"

\* The verdict alerts when it must, and only then.
Alarming == (\A p \in watch.seen : p.live) /\ ~Watch!Sanctioned(\A p \in watch.seen : p.judge)
ReadItAll ==
    /\ \A h \in Watch!Hosts : watch.ready[h] \in {"on", "off"} /\ watch.judge[h] \in {"on", "off"}
    /\ \A k \in DOMAIN watch.notes : watch.notes[k] # Watch!Unreadable
    /\ ~watch.crashed
Harmless ==
    \/ (\A p \in watch.seen : ~p.live) /\ watch.trusted
    \/ (\A p \in watch.seen : p.live) /\ Watch!Sanctioned(\E p \in watch.seen : p.judge)
VerdictIsRight ==
    /\ Alarming => Watch!ShouldAlert(watch.decision)
    /\ ReadItAll /\ Harmless => ~Watch!ShouldAlert(watch.decision) /\ watch.complete

WatchInv ==
    /\ WatchShape /\ ReadsAreOfTheCheck
    /\ watch.pc = "verdict" => VerdictIsRight
    /\ watch.pc = "reported" => (Alarming => alert) /\ (ReadItAll /\ Harmless =>
                                    ~Watch!ShouldAlert(watch.decision) /\ ~alert)

-----------------------------------------------------------------------------
(* Who attends a window, and which one a report speaks of.                    *)

\* Moments that are not in the future have a last one.
LEMMA LastMoment ==
    ASSUME NEW moment \in Int, NEW S, S \subseteq Int, S # {}, \A u \in S : u <= moment
    PROVE  \E t \in S : \A u \in S : u <= t
<1> DEFINE Ages == {moment - u : u \in S}
<1>1. Ages \subseteq Nat /\ Ages # {}
    <2>1. \A u \in S : moment - u \in Nat
        OBVIOUS
    <2> QED BY <2>1
<1> HIDE DEF Ages
<1>2. \E n \in Ages : \A k \in Ages : ~ (<<k, n>> \in OpToRel(<, Nat))
    BY <1>1, NatLessThanWellFounded, WFMin
<1>3. PICK n \in Ages : \A k \in Ages : ~ (k < n)
    BY <1>1, <1>2 DEF OpToRel
<1>4. PICK t \in S : n = moment - t
    BY DEF Ages
<1>5. ASSUME NEW u \in S PROVE u <= t
    <2>1. moment - u \in Ages
        BY DEF Ages
    <2> QED BY <1>3, <1>4, <2>1
<1> QED BY <1>5

\* A window is attended while it is new, or while its owner's last word is.
LEMMA WhoAttends ==
    ASSUME NEW w, w.opened \in Int, NEW moment \in Int, w.opened <= moment, Cadence \in Nat,
           NEW entries, \A c \in entries : c.at \in Int /\ c.at <= moment
    PROVE  Watch!IsAttended(w, moment, entries) <=>
               \/ moment - w.opened < Cadence
               \/ \E c \in entries : /\ c.window = w.opened /\ c.by = "owner"
                                     /\ moment - c.at < Cadence
<1> DEFINE own == {c.at : c \in {c \in entries : c.window = w.opened /\ c.by = "owner"}}
           S == own \cup {w.opened}
           since == Watch!AttendedSince(w, entries)
<1>1. S \subseteq Int /\ S # {} /\ \A u \in S : u <= moment
    OBVIOUS
<1>2. \E t \in S : \A u \in S : u <= t
    <2> HIDE DEF S
    <2> QED BY <1>1, LastMoment
<1>3. since = CHOOSE t \in S : \A u \in S : u <= t
    BY DEF Watch!AttendedSince
<1>4. since \in S /\ \A u \in S : u <= since
    <2> HIDE DEF S, since
    <2> QED BY <1>2, <1>3
<1>5. Watch!IsAttended(w, moment, entries) <=> moment - since < Cadence
    BY DEF Watch!IsAttended
<1>6. moment - since < Cadence <=> \E t \in S : moment - t < Cadence
    <2> HIDE DEF S, since
    <2> QED BY <1>1, <1>4
<1>7. (\E t \in S : moment - t < Cadence) <=>
               \/ moment - w.opened < Cadence
               \/ \E c \in entries : /\ c.window = w.opened /\ c.by = "owner"
                                     /\ moment - c.at < Cadence
    OBVIOUS
<1> QED BY <1>5, <1>6, <1>7

\* i comes before j in a report.
Governs(ws, i, j) ==
    \/ Watch!Outlasts(ws[i], ws[j])
    \/ /\ ~Watch!Outlasts(ws[j], ws[i])
       /\ ws[i].opened < ws[j].opened \/ (ws[i].opened = ws[j].opened /\ i < j)

LEMMA GovernsIsAnOrder ==
    ASSUME NEW ws, Watch!AreEntries(ws), NEW i \in DOMAIN ws, NEW j \in DOMAIN ws,
           NEW k \in DOMAIN ws
    PROVE  /\ i = j \/ Governs(ws, i, j) \/ Governs(ws, j, i)
           /\ Governs(ws, i, j) /\ Governs(ws, j, k) => Governs(ws, i, k)
<1>1. /\ i \in Int /\ j \in Int /\ k \in Int
      /\ ws[i].opened \in Int /\ ws[j].opened \in Int /\ ws[k].opened \in Int
      /\ ws[i].expires \in Int /\ ws[j].expires \in Int /\ ws[k].expires \in Int
    BY DEF Watch!AreEntries, Watch!IsEntry
<1> QED BY <1>1 DEF Governs, Watch!Outlasts, Watch!None

\* One of the windows that cover a moment comes before all others.
LEMMA OneGoverns ==
    ASSUME NEW ws, Watch!AreEntries(ws), NEW active, active \subseteq DOMAIN ws, active # {}
    PROVE  Watch!Governing(ws, active) \in active
<1> DEFINE First(n) == active \cap (1 .. n)
           Leads(i, n) == i \in First(n) /\ \A j \in First(n) \ {i} : Governs(ws, i, j)
           Bad == {n \in 0 .. Len(ws) : First(n) # {} /\ ~\E i \in First(n) : Leads(i, n)}
<1>1. Len(ws) \in Nat /\ DOMAIN ws = 1 .. Len(ws)
    BY DEF Watch!AreEntries
<1>2. Bad = {}
    <2>1. SUFFICES ASSUME Bad # {} PROVE FALSE
        OBVIOUS
    <2>2. Bad \subseteq Nat
        BY <1>1
    <2>3. PICK n \in Bad : \A m \in Bad : ~ (m < n)
        <3> HIDE DEF Bad
        <3>1. \E n \in Bad : \A m \in Bad : ~ (<<m, n>> \in OpToRel(<, Nat))
            BY <2>1, <2>2, NatLessThanWellFounded, WFMin
        <3> QED BY <2>2, <3>1 DEF OpToRel
    <2>4. n \in 1 .. Len(ws) /\ n - 1 \in 0 .. Len(ws) /\ n - 1 < n
        BY <1>1, <2>3
    <2>5. n - 1 \notin Bad
        BY <2>3, <2>4
    <2>6. First(n) = IF n \in active THEN First(n - 1) \cup {n} ELSE First(n - 1)
        <3>1. 1 .. n = (1 .. (n - 1)) \cup {n}
            BY <2>4
        <3> QED BY <3>1
    <2>7. CASE n \notin active
        BY <2>3, <2>4, <2>5, <2>6, <2>7
    <2>8. CASE n \in active /\ First(n - 1) = {}
        <3>1. Leads(n, n)
            BY <2>4, <2>6, <2>8
        <3> QED BY <2>3, <3>1
    <2>9. CASE n \in active /\ First(n - 1) # {}
        <3>1. PICK i \in First(n - 1) : Leads(i, n - 1)
            BY <2>4, <2>5, <2>9
        <3>2. i \in DOMAIN ws /\ n \in DOMAIN ws /\ i # n
            BY <1>1, <2>4, <3>1
        <3>3. CASE Governs(ws, i, n)
            <4>1. Leads(i, n)
                BY <2>6, <2>9, <3>1, <3>3
            <4> QED BY <2>3, <4>1
        <3>4. CASE Governs(ws, n, i)
            <4>1. ASSUME NEW j \in First(n) \ {n} PROVE Governs(ws, n, j)
                <5>1. j \in First(n - 1) /\ j \in DOMAIN ws
                    BY <1>1, <2>4, <2>6, <4>1
                <5> QED BY <3>1, <3>2, <3>4, <5>1, GovernsIsAnOrder
            <4>2. Leads(n, n)
                BY <2>4, <2>6, <2>9, <4>1
            <4> QED BY <2>3, <4>2
        <3> QED BY <3>2, <3>3, <3>4, GovernsIsAnOrder
    <2> QED BY <2>7, <2>8, <2>9
<1>3. First(Len(ws)) = active
    BY <1>1
<1>4. \E i \in active : \A j \in active \ {i} : Governs(ws, i, j)
    BY <1>1, <1>2, <1>3
<1> QED BY <1>4 DEF Watch!Governing, Governs

-----------------------------------------------------------------------------
(* The verdict.                                                              *)

\* What the issues said, of those that could be read.
NotesOf(readable) ==
    [k \in Watch!Asked |-> IF k \in readable THEN <<Watch!Reaffirmations(k, watch.now)>>
                           ELSE Watch!Unreadable]
EntriesOf(i, notes) ==
    IF watch.windows[i].issue = "none" \/ notes[watch.windows[i].issue] = Watch!Unreadable THEN {}
    ELSE notes[watch.windows[i].issue][1]

Verdict(notes) ==
    Watch!EvaluatePosture(watch.ready, watch.judge, notes, watch.trusted, watch.windows, watch.now)
Covering == Watch!Active(watch.windows, watch.now)
Answered == {h \in Watch!Hosts : watch.ready[h] # "down"}
Known == {h \in Watch!Hosts : watch.judge[h] # "down"}
Complete == Answered = Watch!Hosts /\ \A h \in Watch!Hosts : watch.judge[h] # "down"
Unattended(notes) == \E i \in Covering : ~Watch!IsAttended(watch.windows[i], watch.now, EntriesOf(i, notes))
JudgeIsUndeclared == (\E h \in Known : watch.judge[h] = "on") /\ ~\E i \in Covering : watch.windows[i].judge
Speaks == watch.windows[Watch!Governing(watch.windows, Covering)]

\* The verdict over what is live.
LEMMA LiveVerdict ==
    ASSUME NEW notes
    PROVE  Watch!LivePosture(watch.judge, notes, watch.windows, watch.now, Complete) =
        IF Covering = {} THEN
            Watch!Says(IF \E i \in DOMAIN watch.windows : /\ watch.windows[i].expires # Watch!None
                                                          /\ watch.windows[i].expires <= watch.now
                 THEN "live_past_declared_window" ELSE "live_undeclared", Complete)
        ELSE IF Speaks.issue # "none" /\ notes[Speaks.issue] = Watch!Unreadable
        THEN Watch!Says("unknown", FALSE)
        ELSE IF Known = {} THEN Watch!Says("unknown", FALSE)
        ELSE IF Unattended(notes) THEN Watch!Says("live_reaffirmation_lapsed", Complete)
        ELSE IF JudgeIsUndeclared THEN Watch!Says("live_judge_undeclared", Complete)
        ELSE Watch!Says(IF Watch!Standing(Speaks) THEN "live_within_standing_declaration"
                        ELSE "live_within_declared_window", Complete)
<1> DEFINE entriesOf == [i \in Covering |-> EntriesOf(i, notes)]
<1>1. Watch!SomeUnattended(watch.windows, Covering, watch.now, entriesOf) <=> Unattended(notes)
    BY DEF Watch!SomeUnattended, Unattended
<1>2. entriesOf = [i \in Covering |->
            IF watch.windows[i].issue = Watch!NoIssue \/ notes[watch.windows[i].issue] = Watch!Unreadable
            THEN {} ELSE notes[watch.windows[i].issue][1]]
    BY DEF EntriesOf, Watch!NoIssue
<1> HIDE DEF entriesOf
<1> QED BY <1>1, <1>2, Zenon DEF Watch!LivePosture, Covering, Known, JudgeIsUndeclared, Speaks, Watch!NoIssue

\* What it says alerts, unless it is one of three.
LEMMA WhatAlerts ==
    ASSUME NEW notes
    PROVE  /\ \/ Answered = {} \/ (\E h \in Answered : watch.ready[h] = "odd") \/ ~watch.trusted
              => Watch!ShouldAlert(Verdict(notes).decision)
           /\ ~(\/ Answered = {} \/ (\E h \in Answered : watch.ready[h] = "odd") \/ ~watch.trusted) =>
              IF \A h \in Answered : watch.ready[h] = "off"
              THEN ~Watch!ShouldAlert(Verdict(notes).decision) /\ Verdict(notes).complete = Complete
              ELSE /\ \/ Covering = {} \/ Known = {} \/ Unattended(notes) \/ JudgeIsUndeclared
                      => Watch!ShouldAlert(Verdict(notes).decision)
                   /\ /\ Covering # {} /\ Known # {} /\ ~Unattended(notes) /\ ~JudgeIsUndeclared
                      /\ Speaks.issue = "none" \/ notes[Speaks.issue] # Watch!Unreadable
                      => ~Watch!ShouldAlert(Verdict(notes).decision) /\ Verdict(notes).complete = Complete
<1>1. Verdict(notes) =
        IF Answered = {} THEN Watch!Says("unknown", FALSE)
        ELSE IF (\E h \in Answered : watch.ready[h] = "odd") \/ ~watch.trusted
        THEN Watch!Says("unknown", Complete)
        ELSE IF \A h \in Answered : watch.ready[h] = "off" THEN Watch!Says("off_as_declared", Complete)
        ELSE Watch!LivePosture(watch.judge, notes, watch.windows, watch.now, Complete)
    BY DEF Verdict, Watch!EvaluatePosture, Answered, Complete
<1>2. \A d, c : Watch!Says(d, c).decision = d /\ Watch!Says(d, c).complete = c
    BY DEF Watch!Says
<1>3. \A d : Watch!ShouldAlert(d) <=>
              d \in {"live_undeclared", "live_past_declared_window", "live_reaffirmation_lapsed",
                     "live_judge_undeclared", "unknown"}
    BY DEF Watch!ShouldAlert
<1>4. ASSUME Answered = {} \/ (\E h \in Answered : watch.ready[h] = "odd") \/ ~watch.trusted
      PROVE  Watch!ShouldAlert(Verdict(notes).decision)
    <2>1. Verdict(notes) = Watch!Says("unknown", FALSE) \/ Verdict(notes) = Watch!Says("unknown", Complete)
        BY <1>1, <1>4, Zenon
    <2>2. Verdict(notes).decision = "unknown"
        BY <1>2, <2>1, Zenon
    <2> QED BY <1>3, <2>2
<1>5. ASSUME ~(Answered = {} \/ (\E h \in Answered : watch.ready[h] = "odd") \/ ~watch.trusted),
             \A h \in Answered : watch.ready[h] = "off"
      PROVE  ~Watch!ShouldAlert(Verdict(notes).decision) /\ Verdict(notes).complete = Complete
    <2>1. Verdict(notes) = Watch!Says("off_as_declared", Complete)
        BY <1>1, <1>5, Zenon
    <2>2. Verdict(notes).decision = "off_as_declared" /\ Verdict(notes).complete = Complete
        BY <1>2, <2>1, Zenon
    <2> QED BY <1>3, <2>2
<1>6. ASSUME ~(Answered = {} \/ (\E h \in Answered : watch.ready[h] = "odd") \/ ~watch.trusted),
             ~\A h \in Answered : watch.ready[h] = "off"
      PROVE  Verdict(notes) = Watch!LivePosture(watch.judge, notes, watch.windows, watch.now, Complete)
    BY <1>1, <1>6, Zenon
<1>7. ASSUME ~(Answered = {} \/ (\E h \in Answered : watch.ready[h] = "odd") \/ ~watch.trusted),
             ~\A h \in Answered : watch.ready[h] = "off",
             Covering = {} \/ Known = {} \/ Unattended(notes) \/ JudgeIsUndeclared
      PROVE  Watch!ShouldAlert(Verdict(notes).decision)
    <2>1. \E d \in {"live_undeclared", "live_past_declared_window", "live_reaffirmation_lapsed",
                     "live_judge_undeclared", "unknown"} :
              Verdict(notes) = Watch!Says(d, FALSE) \/ Verdict(notes) = Watch!Says(d, Complete)
        BY <1>6, <1>7, LiveVerdict, Zenon
    <2>2. PICK d \in {"live_undeclared", "live_past_declared_window", "live_reaffirmation_lapsed",
                     "live_judge_undeclared", "unknown"} :
              Verdict(notes) = Watch!Says(d, FALSE) \/ Verdict(notes) = Watch!Says(d, Complete)
        BY <2>1
    <2>3. Verdict(notes).decision = d
        BY <1>2, <2>2, Zenon
    <2> QED BY <1>3, <2>3
<1>8. ASSUME ~(Answered = {} \/ (\E h \in Answered : watch.ready[h] = "odd") \/ ~watch.trusted),
             ~\A h \in Answered : watch.ready[h] = "off",
             Covering # {}, Known # {}, ~Unattended(notes), ~JudgeIsUndeclared,
             Speaks.issue = "none" \/ notes[Speaks.issue] # Watch!Unreadable
      PROVE  ~Watch!ShouldAlert(Verdict(notes).decision) /\ Verdict(notes).complete = Complete
    <2>1. \E d \in {"live_within_standing_declaration", "live_within_declared_window"} :
              Verdict(notes) = Watch!Says(d, Complete)
        BY <1>6, <1>8, LiveVerdict, Zenon
    <2>2. PICK d \in {"live_within_standing_declaration", "live_within_declared_window"} :
              Verdict(notes) = Watch!Says(d, Complete)
        BY <2>1
    <2>3. Verdict(notes).decision = d /\ Verdict(notes).complete = Complete
        BY <1>2, <2>2, Zenon
    <2> QED BY <1>3, <2>3
<1> QED BY <1>4, <1>5, <1>7, <1>8, Zenon

\* What a check counts as a window's re-affirmations are comments on that window's issue, and
\* all of the recent ones if it could read the issue.
LEMMA WhatWasSaid ==
    ASSUME WatchShape, Cadence \in Nat, NEW readable \in SUBSET Watch!Asked,
           Watch!Asked = {watch.windows[j].issue : j \in Covering} \ {"none"},
           NEW i \in Covering
    PROVE  LET w == watch.windows[i]
               said == EntriesOf(i, NotesOf(readable))
               recent == {c \in comments : /\ c.issue = w.issue /\ c.at <= watch.now /\ c.by # "app"
                                           /\ watch.now - c.at <= 2 * Cadence}
           IN  /\ said \subseteq recent
               /\ w.issue \in readable => said = recent
               /\ w.issue # "none" => w.issue \in Watch!Asked
               /\ w.issue \in Watch!Asked /\ w.issue \notin readable =>
                      NotesOf(readable)[w.issue] = Watch!Unreadable
<1> DEFINE w == watch.windows[i]
           recent == {c \in comments : /\ c.issue = w.issue /\ c.at <= watch.now /\ c.by # "app"
                                       /\ watch.now - c.at <= 2 * Cadence}
           notes == NotesOf(readable)
<1>1. w.issue # "none" => w.issue \in Watch!Asked
    OBVIOUS
<1>2. Watch!Reaffirmations(w.issue, watch.now) = recent
    BY DEF Watch!Reaffirmations, WatchShape
<1>3. w.issue \in Watch!Asked =>
          notes[w.issue] = IF w.issue \in readable THEN <<recent>> ELSE <<>>
    BY <1>2 DEF NotesOf, Watch!Unreadable
<1>4. \A X : <<X>> # <<>> /\ <<X>>[1] = X
    OBVIOUS
<1>5. EntriesOf(i, notes) = IF w.issue = "none" \/ notes[w.issue] = <<>> THEN {} ELSE notes[w.issue][1]
    BY DEF EntriesOf, Watch!Unreadable
<1>6. EntriesOf(i, notes) = IF w.issue = "none" \/ w.issue \notin readable THEN {} ELSE recent
    <2> HIDE DEF w, recent, notes
    <2> QED BY <1>1, <1>3, <1>4, <1>5
<1>7. "none" \notin readable
    OBVIOUS
<1>8. EntriesOf(i, notes) \subseteq recent /\ (w.issue \in readable => EntriesOf(i, notes) = recent)
    <2> HIDE DEF w, recent, notes
    <2> QED BY <1>6, <1>7
<1> QED BY <1>1, <1>3, <1>8 DEF Watch!Unreadable

\* Nothing that covers the moment was opened after it.
LEMMA CoveringIsOpen ==
    ASSUME WatchShape, NEW i \in Covering
    PROVE  /\ i \in DOMAIN watch.windows /\ watch.windows[i].opened \in Int
           /\ watch.windows[i].opened <= watch.now
BY DEF WatchShape, Covering, Watch!Active, Watch!Covers, Watch!AreEntries, Watch!IsEntry

\* A verdict over a production that was live and not sanctioned alerts.
LEMMA VerdictAlerts ==
    ASSUME Watch!WatchAssumption, WatchShape, ReadsAreOfTheCheck, watch.pc = "issues",
           NEW readable \in SUBSET Watch!Asked, Alarming
    PROVE  Watch!ShouldAlert(Verdict(NotesOf(readable)).decision)
<1> DEFINE notes == NotesOf(readable)
<1>1. SUFFICES ASSUME ~Watch!ShouldAlert(Verdict(notes).decision) PROVE FALSE
    OBVIOUS
<1> HIDE DEF notes
<1>2. Answered # {} /\ (\A h \in Answered : watch.ready[h] # "odd") /\ watch.trusted
    BY <1>1, WhatAlerts
<1>3. ~\A h \in Answered : watch.ready[h] = "off"
    BY <1>2 DEF Alarming, ReadsAreOfTheCheck, Answered
<1>4. Covering # {} /\ Known # {} /\ ~Unattended(notes) /\ ~JudgeIsUndeclared
    BY <1>1, <1>2, <1>3, WhatAlerts
<1>5. Watch!Asked = {watch.windows[j].issue : j \in Covering} \ {"none"}
    BY <1>2, <1>3 DEF Watch!Asked, Covering, Answered, Watch!NoIssue
<1>6. ASSUME NEW i \in Covering
      PROVE  LET w == watch.windows[i]
             IN  \/ watch.now - w.opened < Cadence
                 \/ \E c \in comments :
                        /\ c.issue = w.issue /\ c.window = w.opened /\ c.by = "owner"
                        /\ c.at <= watch.now /\ watch.now - c.at < Cadence
    <2> DEFINE w == watch.windows[i]
               said == EntriesOf(i, notes)
    <2>1. w.opened \in Int /\ w.opened <= watch.now /\ watch.now \in Int /\ Cadence \in Nat
        BY CoveringIsOpen DEF WatchShape, Watch!WatchAssumption
    <2>2. \A c \in said : c \in comments /\ c.issue = w.issue /\ c.at \in Int /\ c.at <= watch.now
        BY <1>5, <2>1, WhatWasSaid DEF notes, WatchShape
    <2>3. Watch!IsAttended(w, watch.now, said)
        BY <1>4 DEF Unattended
    <2> HIDE DEF w, said
    <2>4. \/ watch.now - w.opened < Cadence
          \/ \E c \in said : c.window = w.opened /\ c.by = "owner" /\ watch.now - c.at < Cadence
        BY <2>1, <2>2, <2>3, WhoAttends
    <2>5. \/ watch.now - w.opened < Cadence
          \/ \E c \in comments :
                        /\ c.issue = w.issue /\ c.window = w.opened /\ c.by = "owner"
                        /\ c.at <= watch.now /\ watch.now - c.at < Cadence
        BY <2>2, <2>4
    <2> QED BY <2>5 DEF w
<1>7. (\A p \in watch.seen : p.judge) => \E i \in Covering : watch.windows[i].judge
    <2>1. SUFFICES ASSUME \A p \in watch.seen : p.judge
                   PROVE  \E i \in Covering : watch.windows[i].judge
        OBVIOUS
    <2>2. PICK h \in Watch!Hosts : watch.judge[h] # "down"
        BY <1>4 DEF Known
    <2>3. watch.judge[h] \in {"on", "off"}
        BY <2>2 DEF ReadsAreOfTheCheck, WatchShape
    <2>4. watch.judge[h] = "on" /\ h \in Known
        BY <2>1, <2>2, <2>3 DEF ReadsAreOfTheCheck, Known
    <2> QED BY <1>4, <2>4 DEF JudgeIsUndeclared
<1>8. Watch!Sanctioned(\A p \in watch.seen : p.judge)
    BY <1>2, <1>4, <1>6, <1>7, Zenon DEF Watch!Sanctioned, Covering
<1> QED BY <1>8, Zenon DEF Alarming

\* A verdict over a production that was off or sanctioned, all of it read, raises no alarm.
LEMMA VerdictIsQuiet ==
    ASSUME Watch!WatchAssumption, WatchShape, ReadsAreOfTheCheck, Harmless,
           NEW readable \in SUBSET Watch!Asked,
           \A h \in Watch!Hosts : watch.ready[h] \in {"on", "off"} /\ watch.judge[h] \in {"on", "off"},
           \A k \in Watch!Asked : NotesOf(readable)[k] # Watch!Unreadable
    PROVE  ~Watch!ShouldAlert(Verdict(NotesOf(readable)).decision) /\ Verdict(NotesOf(readable)).complete
<1> DEFINE notes == NotesOf(readable)
<1>1. Answered = Watch!Hosts /\ Known = Watch!Hosts /\ Watch!Hosts # {} /\ Complete
    BY DEF Answered, Known, Complete, Watch!Hosts, Watch!WatchAssumption
<1>2. ~ \E h \in Answered : watch.ready[h] = "odd"
    BY DEF Answered
<1>3. CASE (\A p \in watch.seen : ~p.live) /\ watch.trusted
    <2>1. \A h \in Answered : watch.ready[h] = "off"
        BY <1>1, <1>3 DEF ReadsAreOfTheCheck
    <2> HIDE DEF notes
    <2>2. ~Watch!ShouldAlert(Verdict(notes).decision) /\ Verdict(notes).complete = Complete
        BY <1>1, <1>2, <1>3, <2>1, WhatAlerts, Zenon
    <2>3. Verdict(notes).complete
        BY <1>1, <2>2, Zenon
    <2> QED BY <2>2, <2>3 DEF notes
<1>4. CASE (\A p \in watch.seen : p.live) /\ Watch!Sanctioned(\E p \in watch.seen : p.judge)
    <2>1. \A h \in Watch!Hosts : watch.ready[h] = "on"
        BY <1>4 DEF ReadsAreOfTheCheck
    <2>2. /\ watch.trusted /\ Covering # {}
          /\ \A i \in Covering :
                LET w == watch.windows[i]
                IN  \/ watch.now - w.opened < Cadence
                    \/ \E c \in comments :
                        /\ c.issue = w.issue /\ c.window = w.opened /\ c.by = "owner"
                        /\ c.at <= watch.now /\ watch.now - c.at < Cadence
          /\ (\E p \in watch.seen : p.judge) => \E i \in Covering : watch.windows[i].judge
        BY <1>4, Zenon DEF Watch!Sanctioned, Covering
    <2>3. Watch!Asked = {watch.windows[j].issue : j \in Covering} \ {"none"}
        BY <1>1, <2>1, <2>2 DEF Watch!Asked, Covering, Watch!NoIssue
    <2>4. ASSUME NEW i \in Covering
          PROVE  Watch!IsAttended(watch.windows[i], watch.now, EntriesOf(i, notes))
        <3> DEFINE w == watch.windows[i]
                   said == EntriesOf(i, notes)
        <3>1. w.opened \in Int /\ w.opened <= watch.now /\ watch.now \in Int /\ Cadence \in Nat
            BY CoveringIsOpen DEF WatchShape, Watch!WatchAssumption
        <3>2. \A c \in said : c.at \in Int /\ c.at <= watch.now
            BY <2>3, <3>1, WhatWasSaid DEF WatchShape
        <3>3. ASSUME NEW c \in comments, c.issue = w.issue, c.window = w.opened, c.by = "owner",
                     c.at <= watch.now, watch.now - c.at < Cadence
              PROVE  c \in said
            <4>1. c.issue # "none" /\ c.at \in Int
                BY DEF WatchShape
            <4>2. w.issue \in readable
                BY <2>3, <3>1, <3>3, <4>1, WhatWasSaid
            <4> QED BY <2>3, <3>1, <3>3, <4>1, <4>2, WhatWasSaid
        <3>4. \/ watch.now - w.opened < Cadence
              \/ \E c \in said : c.window = w.opened /\ c.by = "owner" /\ watch.now - c.at < Cadence
            BY <2>2, <3>3
        <3> HIDE DEF w, said
        <3>5. Watch!IsAttended(w, watch.now, said)
            BY <3>1, <3>2, <3>4, WhoAttends
        <3> QED BY <3>5 DEF w, said
    <2>5. ~Unattended(notes)
        BY <2>4 DEF Unattended
    <2>6. ~JudgeIsUndeclared
        BY <2>2 DEF JudgeIsUndeclared, ReadsAreOfTheCheck, Known
    <2>7. Speaks.issue = "none" \/ notes[Speaks.issue] # Watch!Unreadable
        <3>1. Watch!Governing(watch.windows, Covering) \in Covering
            BY <2>2, OneGoverns DEF WatchShape, Covering, Watch!Active
        <3>2. Speaks.issue = "none" \/ Speaks.issue \in Watch!Asked
            BY <2>3, <3>1 DEF Speaks
        <3> QED BY <3>2
    <2> HIDE DEF notes
    <2>8. ~\A h \in Answered : watch.ready[h] = "off"
        BY <1>1, <2>1
    <2>9. ~Watch!ShouldAlert(Verdict(notes).decision) /\ Verdict(notes).complete = Complete
        BY <1>1, <1>2, <2>2, <2>5, <2>6, <2>7, <2>8, WhatAlerts, Zenon
    <2>10. Verdict(notes).complete
        BY <1>1, <2>9, Zenon
    <2> QED BY <2>9, <2>10 DEF notes
<1> QED BY <1>3, <1>4 DEF Harmless

-----------------------------------------------------------------------------
(* The steps.                                                                *)

\* While a check reads, production moves on, and it is written down what it was.
LEMMA ProductionMoves ==
    ASSUME WatchShape, ReadsAreOfTheCheck, NEW p \in Postures, Watch!Moves(p),
           watch.pc \in {"ready", "judge", "issues"}
    PROVE  /\ DOMAIN watch' = Fields /\ watch'.seen = watch.seen \cup {p} /\ prod' = p
           /\ watch'.pc = watch.pc /\ watch'.now = watch.now /\ watch'.windows = watch.windows
           /\ watch'.ready = watch.ready /\ watch'.judge = watch.judge
BY DEF Watch!Moves, WatchShape, Fields

LEMMA WorldSteps ==
    ASSUME Watch!WatchAssumption, WatchInv, Watch!World PROVE WatchInv'
<1>1. watch.pc \in {"ready", "judge", "issues"} /\ UNCHANGED alert /\ WatchShape /\ ReadsAreOfTheCheck
    BY DEF Watch!World, WatchInv
<1>2. ASSUME NEW p \in Postures, Watch!Moves(p), UNCHANGED <<hour, deployed, comments>>
      PROVE  WatchInv'
    <2>1. /\ DOMAIN watch' = Fields /\ watch'.seen = watch.seen \cup {p} /\ prod' = p
          /\ watch'.pc = watch.pc /\ watch'.now = watch.now /\ watch'.windows = watch.windows
          /\ watch'.ready = watch.ready /\ watch'.judge = watch.judge
        BY <1>1, <1>2, ProductionMoves
    <2>2. WatchShape'
        BY <1>1, <1>2, <2>1 DEF WatchShape
    <2>3. ReadsAreOfTheCheck'
        BY <1>1, <2>1 DEF ReadsAreOfTheCheck
    <2> QED BY <1>1, <2>1, <2>2, <2>3 DEF WatchInv
<1>3. ASSUME UNCHANGED <<watch, prod>>, WatchShape' PROVE WatchInv'
    BY <1>1, <1>3 DEF WatchInv, ReadsAreOfTheCheck
<1>4. CASE Watch!Merge
    <2>1. UNCHANGED <<watch, prod, hour, comments>> /\ Watch!AreEntries(deployed'.windows)
        BY <1>4 DEF Watch!Merge, Watch!WatchAssumption, Watch!production
    <2>2. WatchShape'
        BY <1>1, <2>1 DEF WatchShape
    <2> QED BY <1>3, <2>1, <2>2
<1>5. CASE Watch!Revoke
    <2>1. UNCHANGED <<watch, prod, hour, comments, deployed>>
        BY <1>5 DEF Watch!Revoke, Watch!production
    <2>2. WatchShape'
        BY <1>1, <2>1 DEF WatchShape
    <2> QED BY <1>3, <2>1, <2>2
<1>6. CASE Watch!Deploy
    <2>1. [prod EXCEPT !.live = IF secret = "none" THEN deployed.live = "on" ELSE secret = "on"] \in Postures
        BY <1>1 DEF WatchShape, Postures
    <2> QED BY <1>2, <1>6, <2>1 DEF Watch!Deploy
<1>7. CASE Watch!SetSecret
    <2>1. \A s : [prod EXCEPT !.live = (s = "on")] \in Postures
        BY <1>1 DEF WatchShape, Postures
    <2>2. [prod EXCEPT !.judge = ~@] \in Postures
        BY <1>1 DEF WatchShape, Postures
    <2> QED BY <1>2, <1>7, <2>1, <2>2 DEF Watch!SetSecret
<1>8. CASE Watch!Reaffirm
    <2>1. PICK i \in DOMAIN deployed.windows, by \in {"owner", "other", "app"} :
              /\ deployed.windows[i].issue # "none"
              /\ comments' = comments \cup {Watch!Comment(deployed.windows[i], hour, by)}
        BY <1>8 DEF Watch!Reaffirm, Watch!NoIssue
    <2>2. UNCHANGED <<watch, prod, hour, deployed, alert>>
        BY <1>1, <1>8 DEF Watch!Reaffirm, Watch!production
    <2>3. \A c \in comments' : c.at \in Int /\ c.issue # "none"
        BY <1>1, <2>1 DEF WatchShape, Watch!Comment
    <2>4. WatchShape'
        BY <1>1, <2>2, <2>3 DEF WatchShape
    <2> QED BY <1>3, <2>2, <2>4
<1>9. CASE Watch!Tick
    <2>1. hour' = hour + 1 /\ UNCHANGED <<watch, prod, comments, deployed, alert>>
        BY <1>1, <1>9 DEF Watch!Tick, Watch!production
    <2>2. WatchShape'
        BY <1>1, <2>1 DEF WatchShape
    <2> QED BY <1>3, <2>1, <2>2
<1> QED BY <1>4, <1>5, <1>6, <1>7, <1>8, <1>9 DEF Watch!World

\* The watchdog's own steps leave the world alone.
WorldRests == UNCHANGED <<hour, deployed, prod, comments>>

LEMMA StartSteps ==
    ASSUME Watch!WatchAssumption, WatchInv, Watch!StartWatch PROVE WatchInv'
<1>1. WatchShape /\ WorldRests /\ UNCHANGED alert
    BY DEF Watch!StartWatch, WatchInv, WorldRests, Watch!world, Watch!production
<1>2. /\ DOMAIN watch' = Fields /\ watch'.pc = "ready" /\ watch'.now = hour /\ watch'.seen = {prod}
      /\ watch'.windows = deployed.windows
      /\ watch'.ready = [h \in Watch!Hosts |-> "unread"]
      /\ watch'.judge = [h \in Watch!Hosts |-> "unread"]
    BY DEF Watch!StartWatch, Watch!NoWatch, Fields
<1>3. WatchShape'
    BY <1>1, <1>2 DEF WatchShape, WorldRests
<1>4. ReadsAreOfTheCheck'
    BY <1>1, <1>2 DEF ReadsAreOfTheCheck, WorldRests
<1> QED BY <1>2, <1>3, <1>4 DEF WatchInv

LEMMA ReadReadySteps ==
    ASSUME Watch!WatchAssumption, WatchInv, NEW h \in Watch!Hosts, Watch!ReadReady(h) PROVE WatchInv'
<1>1. WatchShape /\ ReadsAreOfTheCheck /\ WorldRests /\ UNCHANGED alert /\ watch.pc = "ready"
    BY DEF Watch!ReadReady, WatchInv, WorldRests, Watch!world, Watch!production
<1>2. PICK state \in {IF prod.live THEN "on" ELSE "off", "down", "odd"} :
          watch' = [watch EXCEPT !.ready[h] = state, !.pc = Watch!AfterHost(h, "ready", "judge")]
    BY DEF Watch!ReadReady
<1>3. /\ DOMAIN watch' = Fields /\ watch'.pc \in {"ready", "judge"}
      /\ watch'.ready = [watch.ready EXCEPT ![h] = state]
      /\ watch'.judge = watch.judge /\ watch'.now = watch.now /\ watch'.seen = watch.seen
      /\ watch'.windows = watch.windows
    BY <1>1, <1>2 DEF WatchShape, Fields, Watch!AfterHost
<1>4. prod \in watch.seen /\ prod \in Postures
    BY <1>1 DEF ReadsAreOfTheCheck, WatchShape
<1>5. /\ state \in {"on", "off", "down", "odd"}
      /\ state = "on" => prod.live
      /\ state = "off" => ~prod.live
    OBVIOUS
<1>6. WatchShape'
    BY <1>1, <1>3, <1>5 DEF WatchShape, WorldRests
<1>7. ReadsAreOfTheCheck'
    BY <1>1, <1>3, <1>4, <1>5 DEF ReadsAreOfTheCheck, WorldRests, WatchShape
<1> QED BY <1>3, <1>6, <1>7 DEF WatchInv

LEMMA ReadJudgeSteps ==
    ASSUME Watch!WatchAssumption, WatchInv, NEW h \in Watch!Hosts, Watch!ReadJudge(h) PROVE WatchInv'
<1>1. WatchShape /\ ReadsAreOfTheCheck /\ WorldRests /\ UNCHANGED alert /\ watch.pc = "judge"
    BY DEF Watch!ReadJudge, WatchInv, WorldRests, Watch!world, Watch!production
<1>2. PICK state \in {IF prod.judge THEN "on" ELSE "off", "down"} :
          watch' = [watch EXCEPT !.judge[h] = state, !.pc = Watch!AfterHost(h, "judge", "issues")]
    BY DEF Watch!ReadJudge
<1>3. /\ DOMAIN watch' = Fields /\ watch'.pc = IF h = NumHosts THEN "issues" ELSE "judge"
      /\ watch'.judge = [watch.judge EXCEPT ![h] = state]
      /\ watch'.ready = watch.ready /\ watch'.now = watch.now /\ watch'.seen = watch.seen
      /\ watch'.windows = watch.windows
    BY <1>1, <1>2 DEF WatchShape, Fields, Watch!AfterHost
<1>4. prod \in watch.seen /\ prod \in Postures
    BY <1>1 DEF ReadsAreOfTheCheck, WatchShape
<1>5. /\ state \in {"on", "off", "down"}
      /\ state = "on" => prod.judge
      /\ state = "off" => ~prod.judge
    OBVIOUS
<1>6. WatchShape'
    BY <1>1, <1>3, <1>5 DEF WatchShape, WorldRests
<1>7. watch'.pc = "issues" => \A k \in Watch!Hosts : watch'.judge[k] # "unread"
    <2>1. \A k \in 1 .. (h - 1) : watch.judge[k] # "unread"
        BY DEF Watch!ReadJudge, Watch!NextHost
    <2>2. h = NumHosts => \A k \in Watch!Hosts : k = h \/ k \in 1 .. (h - 1)
        BY DEF Watch!Hosts, Watch!WatchAssumption
    <2> QED BY <1>1, <1>3, <1>5, <2>1, <2>2 DEF WatchShape
<1>8. ReadsAreOfTheCheck'
    BY <1>1, <1>3, <1>4, <1>5, <1>7 DEF ReadsAreOfTheCheck, WorldRests, WatchShape
<1> QED BY <1>3, <1>6, <1>8 DEF WatchInv

LEMMA ReadIssuesSteps ==
    ASSUME Watch!WatchAssumption, WatchInv, Watch!ReadIssues PROVE WatchInv'
<1>1. WatchShape /\ ReadsAreOfTheCheck /\ WorldRests /\ UNCHANGED alert /\ watch.pc = "issues"
    BY DEF Watch!ReadIssues, WatchInv, WorldRests, Watch!world, Watch!production
<1>2. PICK readable \in SUBSET Watch!Asked :
          watch' = [watch EXCEPT !.pc = "verdict", !.notes = NotesOf(readable),
                            !.decision = Verdict(NotesOf(readable)).decision,
                            !.complete = Verdict(NotesOf(readable)).complete]
    BY Zenon DEF Watch!ReadIssues, NotesOf, Verdict
<1> DEFINE notes == NotesOf(readable)
<1>3. /\ DOMAIN watch' = Fields /\ watch'.pc = "verdict" /\ watch'.notes = notes
      /\ watch'.decision = Verdict(notes).decision /\ watch'.complete = Verdict(notes).complete
      /\ watch'.ready = watch.ready /\ watch'.judge = watch.judge /\ watch'.now = watch.now
      /\ watch'.seen = watch.seen /\ watch'.windows = watch.windows
      /\ watch'.trusted = watch.trusted /\ watch'.crashed = watch.crashed
    <2> HIDE DEF notes
    <2> QED BY <1>1, <1>2 DEF WatchShape, Fields, notes
<1>4. WatchShape'
    BY <1>1, <1>3 DEF WatchShape, WorldRests
<1>5. ReadsAreOfTheCheck'
    BY <1>1, <1>3 DEF ReadsAreOfTheCheck, WorldRests
<1>6. \A judge : Watch!Sanctioned(judge)' = Watch!Sanctioned(judge)
    BY <1>1, <1>3 DEF Watch!Sanctioned, WorldRests
<1>7. Alarming' => Alarming
    BY <1>3, <1>6 DEF Alarming
<1>8. Harmless' => Harmless
    BY <1>3, <1>6 DEF Harmless
<1>9. DOMAIN notes = Watch!Asked
    BY DEF NotesOf
<1>10. VerdictIsRight'
    <2>1. Alarming' => Watch!ShouldAlert(watch'.decision)
        BY <1>1, <1>3, <1>7, VerdictAlerts
    <2>2. ASSUME ReadItAll', Harmless' PROVE ~Watch!ShouldAlert(watch'.decision) /\ watch'.complete
        <3>1. /\ \A h \in Watch!Hosts : watch.ready[h] \in {"on", "off"} /\ watch.judge[h] \in {"on", "off"}
              /\ \A k \in Watch!Asked : notes[k] # Watch!Unreadable
            BY <1>3, <1>9, <2>2 DEF ReadItAll
        <3>2. Harmless
            BY <1>8, <2>2
        <3>3. ~Watch!ShouldAlert(Verdict(notes).decision) /\ Verdict(notes).complete
            BY <1>1, <3>1, <3>2, VerdictIsQuiet
        <3> QED BY <1>3, <3>3
    <2> QED BY <2>1, <2>2 DEF VerdictIsRight, Watch!ShouldAlert
<1> QED BY <1>3, <1>4, <1>5, <1>10 DEF WatchInv

LEMMA CrashSteps ==
    ASSUME Watch!WatchAssumption, WatchInv, Watch!WatchCrashes PROVE WatchInv'
<1>1. WatchShape /\ ReadsAreOfTheCheck /\ WorldRests /\ UNCHANGED alert
    BY DEF Watch!WatchCrashes, WatchInv, WorldRests, Watch!world, Watch!production
<1>2. /\ DOMAIN watch' = Fields /\ watch'.pc = "verdict" /\ watch'.decision = "unknown"
      /\ watch'.crashed = TRUE /\ watch'.ready = watch.ready /\ watch'.judge = watch.judge
      /\ watch'.now = watch.now /\ watch'.seen = watch.seen /\ watch'.windows = watch.windows
    BY <1>1 DEF Watch!WatchCrashes, WatchShape, Fields
<1>3. WatchShape' /\ ReadsAreOfTheCheck'
    BY <1>1, <1>2 DEF WatchShape, ReadsAreOfTheCheck, WorldRests
<1>4. VerdictIsRight'
    BY <1>2 DEF VerdictIsRight, Watch!ShouldAlert, ReadItAll
<1> QED BY <1>2, <1>3, <1>4 DEF WatchInv

LEMMA ReportSteps ==
    ASSUME Watch!WatchAssumption, WatchInv, Watch!Report PROVE WatchInv'
<1>1. WatchShape /\ ReadsAreOfTheCheck /\ WorldRests /\ watch.pc = "verdict" /\ VerdictIsRight
    BY DEF Watch!Report, WatchInv, WorldRests, Watch!world, Watch!production
<1>2. /\ DOMAIN watch' = Fields /\ watch'.pc = "reported" /\ watch'.decision = watch.decision
      /\ watch'.complete = watch.complete /\ watch'.crashed = watch.crashed /\ watch'.notes = watch.notes
      /\ watch'.ready = watch.ready /\ watch'.judge = watch.judge /\ watch'.trusted = watch.trusted
      /\ watch'.now = watch.now /\ watch'.seen = watch.seen /\ watch'.windows = watch.windows
    BY <1>1 DEF Watch!Report, WatchShape, Fields
<1>3. alert' = (IF Watch!ShouldAlert(watch.decision) THEN TRUE ELSE alert /\ ~watch.complete)
    BY DEF Watch!Report, Watch!AlertAfter
<1>4. alert' \in BOOLEAN
    BY <1>1, <1>3 DEF WatchShape
<1>5. WatchShape' /\ ReadsAreOfTheCheck'
    BY <1>1, <1>2, <1>4 DEF WatchShape, ReadsAreOfTheCheck, WorldRests
<1>6. \A judge : Watch!Sanctioned(judge)' = Watch!Sanctioned(judge)
    BY <1>1, <1>2 DEF Watch!Sanctioned, WorldRests
<1>7. (Alarming' => Alarming) /\ (Harmless' => Harmless) /\ (ReadItAll' => ReadItAll)
    BY <1>2, <1>6 DEF Alarming, Harmless, ReadItAll
<1>8. Alarming' => alert'
    BY <1>1, <1>3, <1>7 DEF VerdictIsRight
<1>9. ReadItAll' /\ Harmless' => ~Watch!ShouldAlert(watch'.decision) /\ ~alert'
    BY <1>1, <1>2, <1>3, <1>7 DEF VerdictIsRight
<1> QED BY <1>2, <1>5, <1>8, <1>9 DEF WatchInv, Watch!ShouldAlert

LEMMA WatchSteps ==
    ASSUME Watch!WatchAssumption, WatchInv, [Watch!WatchNext]_(Watch!watchVars) PROVE WatchInv'
<1>1. CASE Watch!ReportFails
    <2>1. /\ DOMAIN watch' = Fields /\ watch'.pc = "over"
          /\ watch'.ready = watch.ready /\ watch'.judge = watch.judge
          /\ watch'.now = watch.now /\ watch'.seen = watch.seen /\ watch'.windows = watch.windows
          /\ WorldRests /\ UNCHANGED alert
        BY <1>1 DEF Watch!ReportFails, WatchInv, WatchShape, Fields, WorldRests, Watch!world, Watch!production
    <2> QED BY <2>1 DEF WatchInv, WatchShape, ReadsAreOfTheCheck, WorldRests
<1>2. CASE UNCHANGED Watch!watchVars
    <2>1. UNCHANGED <<hour, deployed, prod, comments, watch, alert>>
        BY <1>2 DEF Watch!watchVars
    <2>2. WatchShape' /\ ReadsAreOfTheCheck'
        BY <2>1 DEF WatchInv, WatchShape, ReadsAreOfTheCheck
    <2>3. \A judge : Watch!Sanctioned(judge)' = Watch!Sanctioned(judge)
        BY <2>1 DEF Watch!Sanctioned
    <2>4. (Alarming' => Alarming) /\ (Harmless' => Harmless) /\ (ReadItAll' => ReadItAll)
        BY <2>1, <2>3 DEF Alarming, Harmless, ReadItAll
    <2> QED BY <2>1, <2>2, <2>4 DEF WatchInv, VerdictIsRight, Watch!ShouldAlert
<1> QED BY <1>1, <1>2, WorldSteps, StartSteps, ReadReadySteps, ReadJudgeSteps, ReadIssuesSteps,
           CrashSteps, ReportSteps DEF Watch!WatchNext

LEMMA WatchBegins ==
    ASSUME Watch!WatchAssumption, Watch!WatchInit PROVE WatchInv
<1>1. Watch!AreEntries(<<>>) /\ Watch!AreEntries(deployed.windows)
    BY DEF Watch!AreEntries, Watch!WatchInit, Watch!WatchAssumption
<1>2. hour \in Int /\ \A c \in comments : c.at \in Int /\ c.issue # "none"
    BY DEF Watch!WatchInit, Watch!WatchAssumption, Watch!NoIssue
<1>3. /\ DOMAIN watch = Fields /\ watch.pc = "idle" /\ watch.now = 0 /\ watch.windows = <<>>
      /\ watch.ready = [h \in Watch!Hosts |-> "unread"]
      /\ watch.judge = [h \in Watch!Hosts |-> "unread"] /\ watch.seen = {}
    BY DEF Watch!WatchInit, Watch!NoWatch, Fields
<1>4. WatchShape
    BY <1>1, <1>2, <1>3 DEF WatchShape, Watch!WatchInit, Postures
<1>5. ReadsAreOfTheCheck
    BY <1>3 DEF ReadsAreOfTheCheck
<1> QED BY <1>3, <1>4, <1>5 DEF WatchInv

(* live_posture_check.py and its workflow: what a check has read was so while *)
(* it ran, and its verdict, however the reads fell, alerts when it must and   *)
(* only then.                                                                *)
THEOREM WatchInvariant ==
    ASSUME Watch!WatchAssumption PROVE Watch!WatchSpec => []WatchInv
<1>1. Watch!WatchInit => WatchInv
    BY WatchBegins
<1>2. WatchInv /\ [Watch!WatchNext]_(Watch!watchVars) => WatchInv'
    BY WatchSteps
<1> QED BY <1>1, <1>2, PTL DEF Watch!WatchSpec

(* A spending that nobody answered for throughout a check has its alert open  *)
(* when the check has reported, and a check that could read everything raises *)
(* no alarm over one that was off or sanctioned.                             *)
THEOREM TheSwitchIsWatched ==
    ASSUME Watch!WatchAssumption
    PROVE  Watch!WatchSpec => [](Watch!AlertIsOwed /\ Watch!NoFalseAlarm)
<1>1. WatchInv => Watch!AlertIsOwed
    BY DEF WatchInv, Watch!AlertIsOwed, Alarming
<1>2. WatchInv => Watch!NoFalseAlarm
    BY DEF WatchInv, Watch!NoFalseAlarm, ReadItAll, Harmless
<1> QED BY <1>1, <1>2, WatchInvariant, PTL
=============================================================================
