----------------------------- MODULE EventRows -----------------------------
(***************************************************************************)
(* The rows of the feedback store (feedback_store.py) over time: the       *)
(* windowed sums the daily cap is metered from, the cap on minted sessions *)
(* and the wait a refused visitor is told, the wipe of old identifiers,    *)
(* and the one-shot repairs of rows older builds wrote, through restarts   *)
(* on a volume that may refuse any single write.                           *)
(*                                                                         *)
(* A row's position is its id.  Its "who" is the truth; the store can read *)
(* it only while "key" holds.  Its "live" is the truth as well: builds     *)
(* before the split of event types wrote "accepted" for every charge.      *)
(***************************************************************************)
EXTENDS Integers, FiniteSets, Sequences, FiniteSetsExt

CONSTANTS
    People,             \* accounts, or the addresses sessions are minted for
    Histories,          \* sequences of rows that older builds left
    Window,             \* SESSION_MINT_WINDOW, and the 24 hours of the meters
    Keep,               \* IDENTIFIER_KEEP
    Interval,           \* IDENTIFIER_WIPE_INTERVAL
    Second,             \* ticks in a second, the unit of a promised wait
    DailyCap,           \* charges of one unit an account may have in a window
    MintCaps,           \* caps on minted sessions an address may be under
    MaxRows, MaxClock   \* bounds of the model

VARIABLES
    rows,               \* the events table
    clock,
    db,                 \* the migrations it is marked with, the frozen cutover
    handle,             \* the open store: its cutover, its wipe stamp
    promise,            \* the wait one refused visitor was told
    swept               \* the last write that looked at the wipe, if all succeeded

rowVars == <<rows, clock, db, handle, promise, swept>>

NoCutover == -1
Unsettled == -1
NoPromise == [who |-> {}, cap |-> 0, made |-> 0, until |-> 0]
Closed == [open |-> FALSE, cutover |-> 0, wipedAt |-> 0]
ChargeTypes == {"accepted", "simulated"}

\* run: the charge's position, 0 for a row of no run; actual: a reconciled cost.
Row(type, who, run, live, actual) ==
    [type |-> type, who |-> who, key |-> TRUE, run |-> run, at |-> clock,
     live |-> live, actual |-> actual]

Recent(row) == row.at >= clock - Window
Readable(row, who) == row.key /\ row.who = who

-----------------------------------------------------------------------------
(* What the meters read. *)

\* A charge's amount after the last settlement of its run that is in the window.
Settlements(i, who) ==
    {j \in DOMAIN rows :
        /\ rows[j].type \in {"voided", "reconciled"} /\ rows[j].run = i
        /\ Recent(rows[j]) /\ Readable(rows[j], who)}
Amount(i, who) ==
    IF Settlements(i, who) = {} THEN 1 ELSE rows[Max(Settlements(i, who))].actual

ChargesInWindow(who) ==
    {i \in DOMAIN rows :
        rows[i].type \in ChargeTypes /\ Recent(rows[i]) /\ Readable(rows[i], who)}
DailySpend(who) == MapThenSumSet(LAMBDA i : Amount(i, who), ChargesInWindow(who))

MintsInWindow(who) ==
    {i \in DOMAIN rows :
        rows[i].type = "minted" /\ Recent(rows[i]) /\ Readable(rows[i], who)}

\* The newest charge typed live above the boundary: the frozen cutover, or below the
\* first charge typed simulated, which proves that its build told them apart.
Simulated == {i \in DOMAIN rows : rows[i].type = "simulated"}
LiveBoundary ==
    IF Simulated # {} /\ Min(Simulated) - 1 < handle.cutover
    THEN Min(Simulated) - 1 ELSE handle.cutover
TypedLive == {i \in DOMAIN rows : rows[i].type = "accepted" /\ i > LiveBoundary}
LastLiveCharge == IF TypedLive = {} THEN 0 ELSE Max(TypedLive)

-----------------------------------------------------------------------------
(* The wipe.  It never raises: a pass that fails leaves the rows.           *)

\* Mutant: rows are cut off an interval after they were written.
OlderThanInterval(row) == row.at < clock - Interval

OlderThanCut(row) == row.at < clock - Keep

HoldsIdentifier(row) == row.key
Wiped(table) ==
    [i \in DOMAIN table |->
        IF OlderThanCut(table[i]) /\ HoldsIdentifier(table[i])
        THEN [table[i] EXCEPT !.key = FALSE] ELSE table[i]]

WipeIsDue == clock - handle.wipedAt >= Interval

\* A pass with nothing due writes nothing, and so cannot fail.
PassMayFail(table) == Wiped(table) # table

\* What follows a write that landed, with the pass's success.
MaybeWipe(table, succeeds) ==
    /\ succeeds \/ (WipeIsDue /\ PassMayFail(table))
    /\ rows' = IF WipeIsDue /\ succeeds THEN Wiped(table) ELSE table
    /\ handle' = IF WipeIsDue THEN [handle EXCEPT !.wipedAt = clock] ELSE handle
    /\ swept' = [at |-> clock, sound |-> swept.sound /\ (WipeIsDue => succeeds)]

-----------------------------------------------------------------------------
(* Opening the store: each repair is one transaction, and none that fails   *)
(* keeps the store from opening.                                            *)

\* A preview recorded as an accepted charge has no run.
Relabelled(table) ==
    [i \in DOMAIN table |->
        IF table[i].type = "accepted" /\ table[i].run = 0
        THEN [table[i] EXCEPT !.type = "previewed"] ELSE table[i]]

OpenStore(relabels, freezes, wipes) ==
    /\ ~handle.open /\ (db.relabelled => relabels)
    /\ LET repaired == IF relabels /\ ~db.relabelled THEN Relabelled(rows) ELSE rows
           frozen == IF db.cutover # NoCutover THEN db.cutover ELSE Len(rows)
       IN  /\ wipes \/ PassMayFail(repaired)
           /\ rows' = IF wipes THEN Wiped(repaired) ELSE repaired
           /\ db' = [relabelled |-> db.relabelled \/ relabels,
                     cutover |-> IF freezes THEN frozen ELSE db.cutover]
           /\ handle' = [open |-> TRUE, cutover |-> IF freezes THEN frozen ELSE 0,
                         wipedAt |-> clock]
           /\ swept' = [at |-> clock, sound |-> wipes]
    /\ UNCHANGED <<clock, promise>>

CloseStore ==
    /\ handle.open /\ handle' = Closed
    /\ UNCHANGED <<rows, clock, db, promise, swept>>

-----------------------------------------------------------------------------
(* Writing.  An insert that fails is logged and lost.                       *)

MayWrite == handle.open /\ Len(rows) < MaxRows

\* try_record_cost_charge: the cap is checked and the charge inserted under one hold.
Charge(who, live, wipes) ==
    /\ MayWrite
    /\ DailySpend(who) + 1 <= DailyCap
    /\ MaybeWipe(Append(rows, Row(IF live THEN "accepted" ELSE "simulated", who,
                                  Len(rows) + 1, live, Unsettled)), wipes)
    /\ UNCHANGED <<clock, db, promise>>

Settled(i) == \E j \in DOMAIN rows : rows[j].run = i /\ rows[j].actual # Unsettled
InWindowCharge(i) == rows[i].type = "accepted" /\ rows[i].run = i /\ Recent(rows[i])

\* try_record_cost_reconciliation starts no wipe.
ReconcileCharge(i, actual) ==
    /\ MayWrite /\ InWindowCharge(i) /\ ~Settled(i)
    /\ rows' = Append(rows, Row("reconciled", rows[i].who, i, TRUE, actual))
    /\ UNCHANGED <<clock, db, handle, promise, swept>>

\* void_cost_charge asks nothing of the ledger; a run is voided once at most.
VoidCharge(i, wipes) ==
    /\ MayWrite /\ rows[i].type \in ChargeTypes /\ rows[i].run = i /\ ~Settled(i)
    /\ MaybeWipe(Append(rows, Row("voided", rows[i].who, i, rows[i].live, 0)), wipes)
    /\ UNCHANGED <<clock, db, promise>>

\* try_record_session_mint answers TRUE whether or not its insert landed.
MintSession(who, cap, lands, wipes) ==
    /\ MayWrite
    /\ Cardinality(MintsInWindow(who)) < cap
    /\ MaybeWipe(IF lands THEN Append(rows, Row("minted", who, 0, FALSE, Unsettled)) ELSE rows,
                 wipes)
    /\ UNCHANGED <<clock, db, promise>>

\* The row whose ageing out brings the address below its cap.
DecidingMint(who, cap) ==
    LET mints == MintsInWindow(who)
        after(i) == Cardinality({j \in mints : j > i})
    IN  CHOOSE i \in mints : after(i) = cap - 1
SecondsUntilFree(who, cap) ==
    LET wait == (rows[DecidingMint(who, cap)].at + Window - clock) \div Second
    IN  IF wait < 1 THEN 1 ELSE wait

\* One refusal is followed up: every other changes nothing.
RefuseMint(who, cap) ==
    /\ handle.open /\ promise = NoPromise
    /\ Cardinality(MintsInWindow(who)) >= cap
    /\ promise' = [who |-> who, cap |-> cap, made |-> Len(rows),
                   until |-> clock + Second * SecondsUntilFree(who, cap)]
    /\ UNCHANGED <<rows, clock, db, handle, swept>>

Passes ==
    /\ clock < MaxClock /\ clock' = clock + 1
    /\ UNCHANGED <<rows, db, handle, promise, swept>>

-----------------------------------------------------------------------------
RowsInit ==
    /\ rows \in Histories
    /\ clock = 0
    /\ db = [relabelled |-> FALSE, cutover |-> NoCutover]
    /\ handle = Closed /\ promise = NoPromise /\ swept = [at |-> 0, sound |-> TRUE]

RowsNext ==
    \/ \E relabels, freezes, wipes \in BOOLEAN : OpenStore(relabels, freezes, wipes)
    \/ CloseStore \/ Passes
    \/ \E who \in People, live, wipes \in BOOLEAN : Charge(who, live, wipes)
    \/ \E i \in DOMAIN rows : \/ \E actual \in {0, 2} : ReconcileCharge(i, actual)
                              \/ \E wipes \in BOOLEAN : VoidCharge(i, wipes)
    \/ \E who \in People, cap \in MintCaps :
        \/ \E lands, wipes \in BOOLEAN : MintSession(who, cap, lands, wipes)
        \/ RefuseMint(who, cap)

-----------------------------------------------------------------------------
(* feedback_store.py:1414 and 2103: at every moment the store counts each   *)
(* charge and each mint of the last 24 hours at what it is worth, its       *)
(* settlement included: neither the edge of the window, the wipe nor a      *)
(* restart drops a settlement and keeps its charge, or blinds a meter.      *)
WorthOf(i) ==
    LET settled == {j \in DOMAIN rows : rows[j].run = i /\ rows[j].actual # Unsettled}
    IN  IF settled = {} THEN 1 ELSE rows[Max(settled)].actual
MetersSeeTheirWindow ==
    \A who \in People :
        LET mine == {i \in DOMAIN rows : rows[i].who = who /\ Recent(rows[i])}
        IN  /\ DailySpend(who) =
                  MapThenSumSet(WorthOf, {i \in mine : rows[i].type \in ChargeTypes})
            /\ MintsInWindow(who) = {i \in mine : rows[i].type = "minted"}

(* feedback_store.py:2179: a refused visitor who comes back a second after  *)
(* the promised wait is below the cap, unless sessions were minted since.   *)
(* The second is owed: a row as old as the window exactly still counts, and *)
(* the wait is rounded down.                                                *)
PromisedWaitSuffices ==
    promise # NoPromise /\ clock > promise.until + Second =>
        \/ Cardinality(MintsInWindow(promise.who)) < promise.cap
        \/ \E i \in MintsInWindow(promise.who) : i > promise.made

(* feedback_store.py:319: after any write that looks at the wipe no         *)
(* identifier is older than it may be kept by more than one interval, as    *)
(* long as no pass has failed.                                              *)
IdentifiersGoInTime ==
    swept.sound => \A i \in DOMAIN rows : rows[i].key => rows[i].at >= swept.at - Keep - Interval

(* feedback_store.py:1691: once the cutover is frozen, the charge reported  *)
(* as the last live one is live, and no live charge is newer unless it was  *)
(* written before the freeze, where a row does not tell.                    *)
LastLiveChargeIsLive ==
    handle.open /\ db.cutover # NoCutover /\ handle.cutover = db.cutover =>
        /\ LastLiveCharge > 0 => rows[LastLiveCharge].live
        /\ \A i \in DOMAIN rows :
            rows[i].type = "accepted" /\ rows[i].live /\ i > LastLiveCharge =>
                i <= db.cutover
=============================================================================
