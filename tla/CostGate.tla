------------------------------ MODULE CostGate --------------------------------
(***************************************************************************)
(* The confirmation of a dear run (costs.py and the routes of              *)
(* query_runs.py).  Each estimate that is not blocked mints a token, good  *)
(* for a while and for one account, panel and price; a create in the upper *)
(* band has to bring one back.  Requests are served by several threads.    *)
(***************************************************************************)
EXTENDS Naturals, FiniteSets

CONSTANTS
    MaxRequests,    \* bound on requests to the estimate and the create route
    Asks,       \* what they ask: an account and a panel with its critique shape
    Prices,     \* what an estimate may say; prices move between two estimates
    Earlier,    \* estimates asked for before, oldest first
    Dear,       \* those in the band that asks for confirmation
    TTL,        \* CONFIRMATION_TOKEN_TTL
    TokenCap,   \* tokens kept at a time (4096)
    MaxNow      \* bound on the clock

\* None of the estimates asked for before was dropped yet.
GateAssumption ==
    /\ MaxRequests \in Nat /\ TTL \in Nat /\ TokenCap \in Nat
    /\ Cardinality(DOMAIN Earlier) \in 0 .. TokenCap
    /\ Earlier \in [1 .. Cardinality(DOMAIN Earlier) -> [ask : Asks, price : Prices]]

VARIABLES
    now,
    tokens,     \* _tokens, numbered in the order of insertion
    quoted,     \* every token there ever was
    pc,         \* where each request is
    req,        \* what it asks, and what its estimate said
    runs        \* those whose run was started

Requests == 1 .. MaxRequests

vars == <<now, tokens, quoted, pc, req, runs>>

NoToken == 0
Nothing == [ask |-> "none", body |-> NoToken, price |-> "none", expires |-> 0, confirmed |-> 0]

Init ==
    /\ now = 0
    /\ tokens = {[id |-> i, ask |-> Earlier[i].ask, price |-> Earlier[i].price, expires |-> TTL] :
                    i \in DOMAIN Earlier}
    /\ quoted = tokens
    /\ pc = [r \in Requests |-> "new"] /\ req = [r \in Requests |-> Nothing]
    /\ runs = {}

Goes(r, to) == pc' = [pc EXCEPT ![r] = to]
Ends(r) == Goes(r, "done") /\ req' = [req EXCEPT ![r] = Nothing]

Tick == now < MaxNow /\ now' = now + 1 /\ UNCHANGED <<tokens, quoted, pc, req, runs>>

\* estimate, the first step of either route: its token's expiry is read before the
\* lock.  A create may bring a token its page holds, and that may be of the account
\* that was signed in there before.  One that is blocked, for its price or for what
\* was spent, mints nothing and ends.
Estimate(r, ask, body, p) ==
    /\ pc[r] = "new" /\ \A q \in 1 .. r - 1 : pc[q] # "new"
    /\ Goes(r, "mint")
    /\ req' = [req EXCEPT ![r] =
          [ask |-> ask, body |-> body, price |-> p, expires |-> now + TTL, confirmed |-> 0]]
    /\ UNCHANGED <<now, tokens, quoted, runs>>

Outlasts(j, k) == j.expires > k.expires \/ (j.expires = k.expires /\ j.id > k.id)

\* Mutant: the tokens that would live longest make room.
PurgesNewest(ts) ==
    LET fresh == {k \in ts : k.expires >= now}
    IN {k \in fresh : Cardinality({j \in fresh : Outlasts(k, j)}) < TokenCap}

\* _purge_expired_tokens_locked
Purged(ts) ==
    LET fresh == {k \in ts : k.expires >= now}
    IN {k \in fresh : Cardinality({j \in fresh : Outlasts(j, k)}) < TokenCap}

\* _mint_confirmation_token: the estimate route ends here, a create goes on.
Mint(r) ==
    LET token == [id |-> Cardinality(quoted) + 1, ask |-> req[r].ask,
                  price |-> req[r].price, expires |-> req[r].expires]
    IN /\ pc[r] = "mint"
       /\ quoted' = quoted \cup {token}
       /\ tokens' = Purged(tokens \cup {token})
       /\ \/ Goes(r, "confirm") /\ req' = [req EXCEPT ![r].expires = 0]
          \/ req[r].body = NoToken /\ Ends(r)
       /\ UNCHANGED <<now, runs>>

\* Mutant: a token of any account and price is looked up, and used up.
FoundByAnyone(r) == {k \in tokens : k.id = req[r].body}

\* The token a create brought, if it is its account's and was for this price: no
\* other create uses it up.
Found(r) ==
    {k \in tokens : /\ k.id = req[r].body /\ k.price = req[r].price
                    /\ k.ask.account = req[r].ask.account}

Good(k, r) == k.ask = req[r].ask /\ k.expires >= now

\* Mutant: a token is left for the next run.
AfterUseStays(found) == tokens

AfterUse(found) == tokens \ found

\* evaluate_confirmation and _verify_confirmation_token: one hold of the lock.
Confirm(r) ==
    /\ pc[r] = "confirm"
    /\ IF req[r].price \in Dear
       THEN /\ tokens' = AfterUse(Found(r))
            /\ IF \E k \in Found(r) : Good(k, r)
               THEN Goes(r, "reserve") /\ req' = [req EXCEPT ![r].confirmed = now]
               ELSE Ends(r)
       ELSE Goes(r, "reserve") /\ UNCHANGED <<tokens, req>>
    /\ UNCHANGED <<now, quoted, runs>>

\* A run slot is free and the run is reserved, or it is refused: no slot, another
\* run of the account, a session about to end.  The token is gone either way.
Reserve(r) ==
    /\ pc[r] = "reserve"
    /\ \/ Goes(r, "done") /\ runs' = runs \cup {r} /\ UNCHANGED req
       \/ Ends(r) /\ UNCHANGED runs
    /\ UNCHANGED <<now, tokens, quoted>>

GateNext ==
    \/ Tick
    \/ \E r \in Requests :
        \/ \E ask \in Asks, body \in {NoToken} \cup {k.id : k \in quoted}, p \in Prices :
            Estimate(r, ask, body, p)
        \/ Mint(r) \/ Confirm(r) \/ Reserve(r)

GateSpec == Init /\ [][GateNext]_vars
----------------------------------------------------------------------------
QuoteOf(r) == {k \in quoted : k.id = req[r].body}
DearRuns == {r \in runs : req[r].price \in Dear}

\* A dear run was quoted, to the same account, at this price and for this panel,
\* no longer ago than the token's life; and no quote admits two runs, however
\* many creates bring it at once (_verify_confirmation_token).
DearRunWasQuoted ==
    /\ \A r \in DearRuns : \E k \in QuoteOf(r) :
        /\ k.ask = req[r].ask /\ k.price = req[r].price
        /\ k.expires - TTL <= req[r].confirmed /\ req[r].confirmed <= k.expires
    /\ \A r, q \in DearRuns : QuoteOf(r) = QuoteOf(q) => r = q

\* The create that uses up the token: of its account, at its price.
Spends(r, k) ==
    /\ pc[r] = "confirm" /\ pc'[r] # "confirm"
    /\ req[r].body = k.id /\ req[r].ask.account = k.ask.account /\ req[r].price = k.price

\* A quote stays good until its own account spends it, it expires, or as many
\* tokens that last longer displace it; and never more are kept than the cap.
QuoteStaysGood ==
    /\ \A k \in tokens \ tokens' :
        \/ k.expires < now
        \/ \E r \in Requests : Spends(r, k)
        \/ Cardinality({j \in tokens' : j.expires >= k.expires}) >= TokenCap
    /\ Cardinality(tokens') <= TokenCap

\* Both: what a quote admits, and how long it stands.
QuotesAreHonoured == [](DearRunWasQuoted) /\ [][QuoteStaysGood]_vars
=============================================================================
