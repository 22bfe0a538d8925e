---------------------------- MODULE MCAdmission ----------------------------
(***************************************************************************)
(* Small instances of what stands before a run, and of what it is said to  *)
(* cost: four runs that compete for two permits and for their account's    *)
(* one active run, the cost gate, the rate limit, the figures shown, the   *)
(* event rows that meter the day and the minted sessions, and the switch   *)
(* that lets visitors spend at all: how its windows are closed and how it  *)
(* is watched.  They share no state: each behaviour exercises one of them  *)
(* and the others rest.                                                    *)
(***************************************************************************)
EXTENDS QueryRuns, Integers, Sequences, TLC

CONSTANTS r1, r2, r3, r4, a1, a2

VARIABLES
    part,               \* what this behaviour exercises
    gateNow, tokens, quoted, gatePc, req, started,
    limitNow, sweeps, buckets, lastSweep, late, asks, passed, seen, slipped,
    question, figure,
    rows, rowsClock, db, handle, promise, swept,
    hour, adrs, tree, deployed, script, edits,
    prod, secret, comments, watch, alert, moves

FourRuns == {r1, r2, r3, r4}
TwoOwners == [r \in Runs |-> IF r = r4 THEN a2 ELSE a1]

\* One account's runs are interchangeable: they ask in this order.  Two runs get in.
GotIn(r) == request[r] \notin {"idle", "refused"} \/ status[r] # "absent"
TwoGetIn ==
    /\ request[r1] = "idle" => request[r2] = "idle"
    /\ request[r2] = "idle" => request[r3] = "idle"
    /\ Cardinality({r \in Runs : GotIn(r)}) <= 2

-----------------------------------------------------------------------------
\* Two quotes were given before; a third token displaces the oldest.
Ann(p) == [account |-> "ann", panel |-> p]
Gate == INSTANCE CostGate WITH
    MaxRequests <- 2, Asks <- {Ann("p"), Ann("q"), [account |-> "bob", panel |-> "p"]},
    Prices <- {"cheap", "dear", "dearer"}, Dear <- {"dear", "dearer"},
    Earlier <- <<[ask |-> Ann("q"), price |-> "dear"], [ask |-> Ann("p"), price |-> "dear"]>>,
    TTL <- 1, TokenCap <- 3, MaxNow <- 2, now <- gateNow, pc <- gatePc, runs <- started


\* As in the code, a bucket is full again before it is stale.
Limit == INSTANCE RateLimit WITH
    Keys <- {"k", "other"}, Capacity <- 2, Refill <- 1, Stale <- 2, Interval <- 1,
    MaxNow <- 3, MaxLate <- 3, MaxAsked <- 5, now <- limitNow, swept <- lastSweep, asked <- asks

-----------------------------------------------------------------------------
(* Figures: five units are displayed as one, so that all remainders occur.     *)
PriceOf(prompt, output) == [pin |-> prompt, pout |-> output]
Models == [cheap |-> PriceOf(1, 2), dear |-> PriceOf(3, 7), free |-> PriceOf(0, 0)]
Figures(peerCritique, withJudge, pages) ==
    [peer |-> peerCritique, judge |-> withJudge, pages |-> pages,
     debateModel |-> PriceOf(1, 3), synthesisModel |-> PriceOf(2, 3), judgeModel |-> PriceOf(1, 4),
     system |-> 1, debateSystem |-> 2, texts |-> 2, suffix |-> 1, frame |-> 1,
     searchTokens |-> 2, boundSearch |-> 2, searchFee |-> 3,
     initialOut |-> 1, perQueryToken |-> 1, initialMax |-> 3,
     debateOut |-> 2, debateCap |-> 3, sections |-> 2, synthesisOut |-> 1,
     evidence |-> 4, pagesMax |-> 3, judgeTypical |-> 5, judgeWithPages |-> 7,
     judgeOut |-> 1, judgeMax |-> 2]
Seats == [model : DOMAIN Models, search : BOOLEAN]
Panels == (Seats \X Seats) \cup {<<s, t, s>> : s, t \in Seats}
Questions ==
    [panel : Panels, tokens : {0, 1, 3}, context : BOOLEAN, quick : {FALSE}]
    \cup [panel : {<<s>> : s \in Seats}, tokens : 0 .. 3, context : {FALSE}, quick : {TRUE}]
JudgedFor == {<<>>, <<0>>, <<2>>}
PanelBills ==
    [initial : {<<c, d>> : c \in 0 .. 6, d \in {0, 3}}, rounds : {0, 3, 7} \X {0, 3, 6},
     synthesis : {0, 4}, judge : JudgedFor, critique : {<<>>, <<2>>, <<1, 4>>},
     quick : {FALSE}, pages : BOOLEAN]
QuickBills ==
    [initial : {<<c>> : c \in 0 .. 9}, rounds : {<<0, 0>>}, synthesis : {0}, judge : JudgedFor,
     critique : {<<>>}, quick : {TRUE}, pages : {FALSE}]
Days == [spent : 0 .. 24, cumulative : 0 .. 28, estimated : {0, 5, 10, 15, 20, 25, 30}]

Price == INSTANCE Pricing WITH
    Quantum <- 5, Slots <- Models, Settings <- {Figures(p, j, g) : p, j, g \in BOOLEAN},
    Requests <- Questions, Bills <- PanelBills \cup QuickBills, Ledgers <- Days,
    DailyCap <- 20, HardLimit <- 25, asked <- question, shown <- figure

-----------------------------------------------------------------------------
(* Event rows, in two sizes: mints of a longer window that is told in seconds, *)
(* and charges over what older builds left.                                    *)
Old(type, run, live, at) ==
    [type |-> type, who |-> a1, key |-> TRUE, run |-> run, at |-> at, live |-> live,
     actual |-> -1]
OlderBuilds ==
    {<<>>, <<Old("accepted", 1, FALSE, -3)>>,
     <<Old("accepted", 0, FALSE, -2), Old("accepted", 2, TRUE, -1)>>,
     <<Old("simulated", 1, FALSE, -2), Old("accepted", 2, TRUE, -1)>>}
Mints == INSTANCE EventRows WITH
    People <- {a1}, Histories <- {<<>>}, Window <- 5, Keep <- 6, Interval <- 1, Second <- 2,
    DailyCap <- 0, MintCaps <- {1, 2}, MaxRows <- 3, MaxClock <- 9, clock <- rowsClock
Charges == INSTANCE EventRows WITH
    People <- {a1}, Histories <- OlderBuilds, Window <- 2, Keep <- 3, Interval <- 1,
    Second <- 2, DailyCap <- 2, MintCaps <- {}, MaxRows <- 3, MaxClock <- 5, clock <- rowsClock

-----------------------------------------------------------------------------
(* The live switch: two windows that overlap, a standing one, one that is yet  *)
(* to open, and an entry that does not parse.                                  *)
Boxed(opened, expires, withJudge, issue) ==
    [sound |-> TRUE, mode |-> "time_boxed", opened |-> opened, expires |-> expires,
     judge |-> withJudge, issue |-> issue, adr |-> "none"]
Stands(opened, issue) ==
    [sound |-> TRUE, mode |-> "standing", opened |-> opened, expires |-> -1, judge |-> FALSE,
     issue |-> issue, adr |-> "adr"]
Said(w, at, by) == [issue |-> w.issue, at |-> at, window |-> w.opened, by |-> by]

Close == INSTANCE CloseWindow WITH
    Adrs <- {"adr"}, Cadence <- 2, MaxClock <- 4, MaxEdits <- 3,
    Flags <- {<<"on", "on">>, <<"on", "off">>, <<"off", "off">>, <<"odd", "off">>},
    Declarations <-
        {<<>>, <<Boxed(0, 3, TRUE, "i"), Boxed(1, 4, FALSE, "i")>>,
         <<Boxed(0, 3, FALSE, "i"), Stands(1, "j")>>, <<Stands(0, "j")>>,
         <<[Boxed(0, 3, FALSE, "i") EXCEPT !.sound = FALSE]>>,
         <<Boxed(3, 4, FALSE, "none"), Boxed(0, 2, TRUE, "none")>>},
    clock <- hour, authorised <- adrs, main <- deployed

Long == Boxed(0, 9, FALSE, "i")
Watch == INSTANCE PostureWatch WITH
    NumHosts <- 2, Adrs <- {"adr"}, Cadence <- 2, MaxMoves <- 1, Starts <- {2},
    Earlier <-
        {{}, {Said(Long, 2, "app")}, {Said(Long, 1, "owner")},
         {Said(Long, 1, "owner"), Said(Stands(0, "j"), 1, "owner")}},
    Declarations <- {<<>>, <<Boxed(1, 3, TRUE, "none"), Long>>, <<Long, Stands(0, "j")>>},
    clock <- hour, authorised <- adrs, main <- deployed

ASSUME GateInstance ==
    /\ Gate!GateAssumption /\ Limit!LimitAssumption
    /\ Close!CloseAssumption /\ Watch!WatchAssumption

-----------------------------------------------------------------------------
gateVars == <<gateNow, tokens, quoted, gatePc, req, started>>
limitVars == <<limitNow, sweeps, buckets, lastSweep, late, asks, passed, seen, slipped>>
priceVars == <<question, figure>>
rowVars == <<rows, rowsClock, db, handle, promise, swept>>
closeVars == <<tree, script, edits>>
watchVars == <<prod, secret, comments, watch, alert, moves>>
liveVars == <<hour, adrs, deployed, closeVars, watchVars>>

\* What rests has no state to speak of.
GateRests == gateNow = 0 /\ tokens = 0 /\ quoted = 0 /\ gatePc = 0 /\ req = 0 /\ started = 0
LimitRests ==
    /\ limitNow = 0 /\ sweeps = 0 /\ buckets = 0 /\ lastSweep = 0 /\ late = 0 /\ asks = 0
    /\ passed = 0 /\ seen = 0 /\ slipped = 0
RowsRest == rows = 0 /\ rowsClock = 0 /\ db = 0 /\ handle = 0 /\ promise = 0 /\ swept = 0
LiveRests == hour = 0 /\ adrs = 0 /\ deployed = 0
CloseRests == tree = 0 /\ script = 0 /\ edits = 0
WatchRests == prod = 0 /\ secret = 0 /\ comments = 0 /\ watch = 0 /\ alert = 0 /\ moves = 0

AdmissionInit ==
    /\ part \in {"runs", "gate", "limit", "price", "mints", "charges", "closing", "watching"}
    /\ Init
    /\ IF part = "gate" THEN Gate!Init ELSE GateRests
    /\ IF part = "limit" THEN Limit!Init ELSE LimitRests
    /\ IF part = "price" THEN Price!PricingInit ELSE question = 0 /\ figure = 0
    /\ CASE part = "mints" -> Mints!RowsInit [] part = "charges" -> Charges!RowsInit
         [] OTHER -> RowsRest
    /\ CASE part = "closing" -> Close!CloseInit /\ WatchRests
         [] part = "watching" -> Watch!WatchInit /\ CloseRests
         [] OTHER -> LiveRests /\ CloseRests /\ WatchRests

RunsPart ==
    /\ part = "runs" /\ Next /\ TwoGetIn'
    /\ UNCHANGED <<part, gateVars, limitVars, priceVars, rowVars, liveVars>>
GatePart ==
    /\ part = "gate" /\ Gate!GateNext
    /\ UNCHANGED <<part, vars, limitVars, priceVars, rowVars, liveVars>>
LimitPart ==
    /\ part = "limit" /\ Limit!LimitNext
    /\ UNCHANGED <<part, vars, gateVars, priceVars, rowVars, liveVars>>
PricePart ==
    /\ part = "price" /\ Price!PricingNext
    /\ UNCHANGED <<part, vars, gateVars, limitVars, rowVars, liveVars>>
MintsPart ==
    /\ part = "mints" /\ Mints!RowsNext
    /\ UNCHANGED <<part, vars, gateVars, limitVars, priceVars, liveVars>>
ChargesPart ==
    /\ part = "charges" /\ Charges!RowsNext
    /\ UNCHANGED <<part, vars, gateVars, limitVars, priceVars, liveVars>>
ClosePart ==
    /\ part = "closing" /\ Close!CloseNext
    /\ UNCHANGED <<part, vars, gateVars, limitVars, priceVars, rowVars, watchVars>>
WatchPart ==
    /\ part = "watching" /\ Watch!WatchNext
    /\ UNCHANGED <<part, vars, gateVars, limitVars, priceVars, rowVars, closeVars>>
AdmissionNext ==
    \/ RunsPart \/ GatePart \/ LimitPart \/ PricePart \/ MintsPart \/ ChargesPart
    \/ ClosePart \/ WatchPart

AdmissionSpec ==
    AdmissionInit
    /\ [][AdmissionNext]_<<part, vars, gateVars, limitVars, priceVars, rowVars, liveVars>>
-----------------------------------------------------------------------------
(* CostGate.QuotesAreHonoured: what a quote admits, and how long it stands.    *)
QuotesAreHonoured ==
    [](part = "gate" => Gate!DearRunWasQuoted) /\ [][part = "gate" => Gate!QuoteStaysGood]_gateVars

(* RateLimit.LimitIsAsAdvertised: no window lets more through, and nobody is   *)
(* refused for others' requests.                                               *)
LimitIsAsAdvertised ==
    /\ [](part = "limit" => Limit!NoMoreThanTheLimit)
    /\ [][part = "limit" => Limit!RefusedForItsOwnRequests]_limitVars

(* Pricing: every breakdown states its whole total, the figure shown is within *)
(* the one the guardrail uses, and the allowance shown is the one enforced.    *)
CostFiguresHold ==
    part = "price" =>
        Price!BreakdownsAddUp /\ Price!EstimateWithinBound /\ Price!AllowanceIsKept

(* EventRows: the meters count each charge and mint of their window at its     *)
(* worth, a promised wait suffices, identifiers go in time, and the charge     *)
(* reported as the last live one is.                                           *)
EventRowsHold ==
    /\ part = "mints" =>
        /\ Mints!MetersSeeTheirWindow /\ Mints!PromisedWaitSuffices /\ Mints!IdentifiersGoInTime
    /\ part = "charges" =>
        /\ Charges!MetersSeeTheirWindow /\ Charges!IdentifiersGoInTime
        /\ Charges!LastLiveChargeIsLive

(* The live switch: its watchdog alerts over a spending nobody answers for and *)
(* only over that, and a closed window is closed safely and for good.          *)
LiveSwitchIsWatched ==
    /\ part = "watching" => Watch!AlertIsOwed /\ Watch!NoFalseAlarm
    /\ part = "closing" => Close!CloseNeverStrands /\ Close!CloseMayMerge
=============================================================================
