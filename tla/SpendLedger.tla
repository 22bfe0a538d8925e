---------------------------- MODULE SpendLedger ----------------------------
(***************************************************************************)
(* The two spend meters of the service and the healing of the durable one. *)
(*                                                                         *)
(* The durable meter is feedback_store.py's append-only events table: a    *)
(* charge row opens a run's spend, a reconciled row replaces it with the   *)
(* measured cost, a void row cancels it, and only the last 24 hours count. *)
(* The second meter is the in-process ring of costs.py.  Requests estimate *)
(* and then charge (costs.py); a handle on the table that lost a write is  *)
(* replaced in the background by store_reconnect.py.                       *)
(*                                                                         *)
(* Every handle has a lock of its own, and the process may hold several    *)
(* handles on the one file: a request that fetched a handle keeps it when  *)
(* the process-wide handle is swapped.                                     *)
(***************************************************************************)
EXTENDS Integers, FiniteSets, Sequences, SequencesExt, FiniteSetsExt

CONSTANTS
    Runs,           \* requests that may start a run
    Visitors,       \* requests that only ask for an estimate
    Accounts,       \* spend keys
    Owner,          \* [Runs -> Accounts]
    Est,            \* [Runs -> amount]: the point estimate of a run
    Measured,       \* the amounts a run's provider-reported cost may be
    DailyCap, GlobalCeiling, HardLimit,     \* the rails of costs.py
    RingCap,        \* MAX_EVENTS of the ring
    Handles,        \* names of FeedbackStore objects; a dropped one is reused
    FailClosed,     \* settings.daily_cap_fail_closed
    Nobody, NoHandle,
    MaxFaults,      \* bound: how often the storage breaks or no thread can start
    MaxRestarts     \* bound: how often the process restarts

ASSUME RunsAssumption == Nobody \notin Runs /\ NoHandle \notin Handles
ASSUME OwnerAssumption == Owner \in [Runs -> Accounts]
ASSUME EstAssumption == Est \in [Runs -> Nat] /\ Measured \subseteq Nat
ASSUME RingAssumption == RingCap \in Nat \ {0}

VARIABLES
    \* the storage: rows in id order, how many left the 24 h window, is it writable
    log, aged, storage, faults, restarts,
    \* the process: its handles, the configured one, who holds each handle's lock
    handle, store, lock,
    \* the ring, the reconnect flag, the reopen thread and its cooldown
    ring, reopenTried, reopen, cooling,
    \* the requests: program counter and locals
    pc, held, snap, ceiling, checkedAt, actual

table == <<log, aged>>
weather == <<storage, faults, restarts>>
healing == <<reopenTried, reopen, cooling>>
locals == <<held, snap, ceiling, checkedAt, actual>>
vars == <<table, weather, handle, store, lock, ring, healing, pc, locals>>

Requests == Runs \cup Visitors

------------------------------------------------------------------------------
(* The durable meter: _spend_total_locked over the rows of the window.     *)

InWindow == (aged + 1) .. Len(log)

RowsOf(r, kinds) == { i \in InWindow : log[i].run = r /\ log[i].kind \in kinds }

\* A run's charges, or what its last correction says; corrections of a run
\* whose charge left the window do not count.
RunSpend(r) ==
    LET corrections == RowsOf(r, {"reconciled", "void"})
        charges     == RowsOf(r, {"charge"})
    IN IF charges = {} THEN 0
       ELSE IF corrections = {} THEN MapThenSumSet(LAMBDA i : log[i].amount, charges)
       ELSE log[Max(corrections)].amount

AccountSpend(a) == MapThenSumSet(RunSpend, { r \in Runs : Owner[r] = a })
GlobalSpend == MapThenSumSet(RunSpend, Runs)

------------------------------------------------------------------------------
(* A handle: the outcome of its last write, and whether it ever lost a     *)
(* billed one (lost_billed_writes > 0, which never goes back).  A handle   *)
(* opened while the storage was down may never be able to write.           *)

FreshHandle(isReadOnly) == [health |-> "unverified", tainted |-> FALSE, readOnly |-> isReadOnly]

\* feedback_ledger_may_be_metered
MayBeMetered(h) == h # NoHandle /\ handle[h].health # "failing" /\ ~handle[h].tainted

\* feedback_ledger_is_trustworthy
Trustworthy(h) == h # NoHandle /\ handle[h].health = "ok" /\ ~handle[h].tainted

Lands(h) == storage = "up" /\ ~handle[h].readOnly

\* The handle's counters after a write on it.
AfterWrite(h, metered) ==
    IF Lands(h)
    THEN [handle EXCEPT ![h].health = "ok"]
    ELSE [handle EXCEPT ![h].health = "failing", ![h].tainted = @ \/ metered]

\* _insert_event: the row lands, or the handle remembers that it did not.
Append1(h, row, metered) ==
    /\ handle' = AfterWrite(h, metered)
    /\ log' = IF Lands(h) THEN Append(log, row) ELSE log

\* A row that is on neither meter still shows whether the handle can write.
WriteUncounted ==
    IF store = NoHandle THEN UNCHANGED handle
    ELSE lock[store] = Nobody /\ handle' = AfterWrite(store, FALSE)

Row(k, r, amt, h) == [kind |-> k, run |-> r, amount |-> amt, via |-> h]

------------------------------------------------------------------------------
(* The ring: InMemoryCostEventRecorder.  Any event displaces the oldest.   *)

Pushed(r, amt) ==
    LET grown == Append(ring, [run |-> r, amount |-> amt])
    IN SubSeq(grown, Max({1, Len(grown) - RingCap + 1}), Len(grown))

\* Sequence s with just the places of K, in their order.
Kept(s, K) ==
    LET places == 1 .. Cardinality(K)
        rising == {f \in [places -> K] : \A m, n \in places : m < n => f[m] < f[n]}
    IN  {[n \in places |-> s[f[n]]] : f \in rising}

RingSpend(a) ==
    MapThenSumSet(LAMBDA i : ring[i].amount,
                  { i \in DOMAIN ring : ring[i].run \in Runs /\ Owner[ring[i].run] = a })

------------------------------------------------------------------------------
Init ==
    /\ log = <<>> /\ aged = 0
    /\ storage = "up" /\ faults = 0 /\ restarts = 0
    /\ \E h \in Handles :
        /\ store = h
        /\ handle = [x \in Handles |-> FreshHandle(FALSE)]
    /\ lock = [h \in Handles |-> Nobody]
    /\ ring = <<>>
    /\ reopenTried = FALSE /\ reopen = "idle" /\ cooling = FALSE
    /\ pc = [q \in Requests |-> "idle"]
    /\ held = [r \in Runs |-> NoHandle]
    /\ snap = [q \in Requests |-> FALSE]
    /\ ceiling = [r \in Runs |-> FALSE]
    /\ checkedAt = [r \in Runs |-> 0]
    /\ actual = [r \in Runs |-> 0]

Goto(q, label) == pc' = [pc EXCEPT ![q] = label]

------------------------------------------------------------------------------
(* Healing: maybe_reconnect_feedback_store and the thread it spawns.       *)

DropFlag == reopenTried' = (reopenTried /\ ~Trustworthy(store))

\* Mutant: only a failing handle is replaced, so a handle that recovered
\* after it lost a charge stays, and is never metered again.
ReconnectIfFailing ==
    /\ DropFlag
    /\ IF cooling \/ reopen # "idle" \/ (store # NoHandle /\ handle[store].health # "failing")
       THEN UNCHANGED <<reopen, cooling>>
       ELSE reopen' = "opening" /\ cooling' = TRUE
    /\ UNCHANGED faults

\* The flag is dropped once the handle shows a write and no loss; a handle
\* that may not be metered is replaced, at most once per cooldown.
Reconnect ==
    \/ /\ MayBeMetered(store) \/ cooling \/ reopen # "idle"
       /\ DropFlag
       /\ UNCHANGED <<reopen, cooling, faults>>
    \/ /\ ~(MayBeMetered(store) \/ cooling \/ reopen # "idle")
       /\ DropFlag
       /\ reopen' = "opening" /\ cooling' = TRUE
       /\ UNCHANGED faults
    \/ /\ ~(MayBeMetered(store) \/ cooling \/ reopen # "idle")
       /\ faults < MaxFaults            \* _spawn could not start the thread
       /\ faults' = faults + 1
       /\ reopenTried' = TRUE /\ cooling' = TRUE
       /\ UNCHANGED reopen

\* A handle nothing refers to; a request keeps the one it fetched.
Free(h) == h # store /\ (\A r \in Runs : held[r] # h)

\* _reopen_feedback_store: open and configure.
ReopenSwaps ==
    /\ reopen = "opening"
    /\ \E h \in Handles :
        /\ Free(h)
        /\ handle' = [handle EXCEPT ![h] = FreshHandle(storage = "down")]
        /\ store' = h
    /\ reopen' = "swapped"
    /\ UNCHANGED <<table, weather, lock, ring, reopenTried, cooling, pc, locals>>

ReopenFails ==
    /\ reopen = "opening"
    /\ storage = "down"
    /\ reopenTried' = TRUE
    /\ reopen' = "idle"
    /\ UNCHANGED <<table, weather, handle, store, lock, ring, cooling, pc, locals>>

\* The thread reports on the handle it opened, after it was configured.
ReopenReports ==
    /\ reopen = "swapped"
    /\ reopenTried' = ~Trustworthy(store)
    /\ reopen' = "idle"
    /\ UNCHANGED <<table, weather, handle, store, lock, ring, cooling, pc, locals>>

CooldownEnds ==
    /\ cooling
    /\ cooling' = FALSE
    /\ UNCHANGED <<table, weather, handle, store, lock, ring, reopenTried, reopen, pc, locals>>

------------------------------------------------------------------------------
(* Estimating.                                                             *)

\* estimate(): the flag is read before the reconnect that may set it.
Submit(q) ==
    /\ pc[q] = "idle"
    /\ snap' = [snap EXCEPT ![q] = reopenTried]
    /\ Reconnect
    /\ Goto(q, "estimating")
    /\ UNCHANGED <<table, storage, restarts, handle, store, lock, ring, held, ceiling, checkedAt, actual>>

Condemned(q) == FailClosed /\ snap[q] /\ ~Trustworthy(store)

RunningTotalFires(r) ==
    RingSpend(Owner[r]) > 0 /\ RingSpend(Owner[r]) + Est[r] > HardLimit

DailyCapFires(r) ==
    MayBeMetered(store) /\ AccountSpend(Owner[r]) + Est[r] > DailyCap

\* The estimate blocks, or asks for a confirmation the client did not send,
\* or was only a preview: an event is written and no run is started.
TurnAway(q) ==
    /\ pc[q] = "estimating"
    /\ Goto(q, "noting")
    /\ UNCHANGED <<table, weather, handle, store, lock, ring, healing, locals>>

\* No rail blocks the estimate; the ceiling only marks it.
Admit(r) ==
    /\ pc[r] = "estimating"
    /\ ~RunningTotalFires(r) /\ ~Condemned(r) /\ ~DailyCapFires(r)
    /\ Goto(r, "admitted")
    /\ ceiling' = [ceiling EXCEPT ![r] = store # NoHandle /\ GlobalSpend >= GlobalCeiling]
    /\ UNCHANGED <<table, weather, handle, store, lock, ring, healing, held, snap, checkedAt, actual>>

\* record_guardrail_event: the ring, then the store; neither meter counts it.
NoteEvent(q) ==
    /\ pc[q] \in {"noting", "degrading"}
    /\ ring' = Pushed(Nobody, 0)
    /\ WriteUncounted
    /\ Goto(q, IF pc[q] = "noting" THEN "idle" ELSE "simulated")
    /\ UNCHANGED <<table, weather, store, lock, healing, locals>>

------------------------------------------------------------------------------
(* Charging: try_record_run_charge.                                        *)

\* A run past the ceiling, or without a metered store, is simulated.
FetchStore(r) ==
    /\ pc[r] = "admitted"
    /\ IF ceiling[r] THEN Goto(r, "degrading") /\ UNCHANGED held
       ELSE IF MayBeMetered(store)
       THEN Goto(r, "charging") /\ held' = [held EXCEPT ![r] = store]
       ELSE Goto(r, "simulated") /\ UNCHANGED held
    /\ UNCHANGED <<table, weather, handle, store, lock, ring, healing, snap, ceiling, checkedAt, actual>>

\* Mutant: the rails are read before the lock is taken.
CheckRailsUnlocked(r) ==
    /\ pc[r] = "charging"
    /\ IF AccountSpend(Owner[r]) + Est[r] > DailyCap
       THEN Goto(r, "idle") /\ held' = [held EXCEPT ![r] = NoHandle] /\ UNCHANGED checkedAt
       ELSE IF GlobalSpend >= GlobalCeiling
       THEN Goto(r, "degrading") /\ held' = [held EXCEPT ![r] = NoHandle] /\ UNCHANGED checkedAt
       ELSE Goto(r, "cleared") /\ checkedAt' = [checkedAt EXCEPT ![r] = Len(log)]
            /\ UNCHANGED held
    /\ UNCHANGED <<table, weather, handle, store, lock, ring, healing, snap, ceiling, actual>>

\* _check_rails_and_charge_locked takes the lock and reads both rails.
CheckRails(r) ==
    /\ pc[r] = "charging"
    /\ lock[held[r]] = Nobody
    /\ IF AccountSpend(Owner[r]) + Est[r] > DailyCap
       THEN /\ Goto(r, "idle")
            /\ held' = [held EXCEPT ![r] = NoHandle]
            /\ UNCHANGED <<lock, checkedAt>>
       ELSE IF GlobalSpend >= GlobalCeiling
       THEN /\ Goto(r, "degrading")
            /\ held' = [held EXCEPT ![r] = NoHandle]
            /\ UNCHANGED <<lock, checkedAt>>
       ELSE /\ Goto(r, "cleared")
            /\ lock' = [lock EXCEPT ![held[r]] = r]
            /\ checkedAt' = [checkedAt EXCEPT ![r] = Len(log)]
            /\ UNCHANGED held
    /\ UNCHANGED <<table, weather, handle, store, ring, healing, snap, ceiling, actual>>

\* Mutant: the run goes live although its charge was not stored.
InsertChargeBlindly(r) ==
    /\ pc[r] = "cleared"
    /\ Append1(held[r], Row("charge", r, Est[r], held[r]), TRUE)
    /\ Goto(r, "charged")
    /\ lock' = [h \in Handles |-> IF lock[h] = r THEN Nobody ELSE lock[h]]
    /\ held' = [held EXCEPT ![r] = NoHandle]
    /\ UNCHANGED <<aged, weather, store, ring, healing, snap, ceiling, checkedAt, actual>>

\* ... and inserts the charge, still under the lock of its own handle.
InsertCharge(r) ==
    /\ pc[r] = "cleared"
    /\ Append1(held[r], Row("charge", r, Est[r], held[r]), TRUE)
    /\ Goto(r, IF Lands(held[r]) THEN "charged" ELSE "simulated")
    /\ lock' = [h \in Handles |-> IF lock[h] = r THEN Nobody ELSE lock[h]]
    /\ held' = [held EXCEPT ![r] = NoHandle]
    /\ UNCHANGED <<aged, weather, store, ring, healing, snap, ceiling, checkedAt, actual>>

\* RECORDED: the ring follows, and the run starts.
RingCharge(r) ==
    /\ pc[r] = "charged"
    /\ ring' = Pushed(r, Est[r])
    /\ Goto(r, "live")
    /\ UNCHANGED <<table, weather, handle, store, lock, healing, locals>>

------------------------------------------------------------------------------
(* Settling: the worker reconciles, or the handler voids a run whose       *)
(* worker never started.                                                   *)

MayReconcile(r) == RowsOf(r, {"charge"}) # {} /\ RowsOf(r, {"reconciled", "void"}) = {}

\* try_record_cost_reconciliation: True even when the row was not stored.
Reconcile(r) ==
    /\ pc[r] = "live"
    /\ IF store # NoHandle /\ MayReconcile(r)
       THEN /\ lock[store] = Nobody
            /\ \E cost \in Measured :
                  /\ Append1(store, Row("reconciled", r, cost, store), TRUE)
                  /\ actual' = [actual EXCEPT ![r] = cost]
            /\ Goto(r, "measured")
       ELSE /\ Goto(r, "settled")
            /\ UNCHANGED <<log, handle, actual>>
    /\ UNCHANGED <<aged, weather, store, lock, ring, healing, held, snap, ceiling, checkedAt>>

\* Mutant: only the durable meter takes the measured cost.
RingKeepsEstimate(r) ==
    /\ pc[r] = "measured"
    /\ Goto(r, "settled")
    /\ UNCHANGED <<table, weather, handle, store, lock, ring, healing, locals>>

\* reconcile_charge_for_run: the ring's entry takes the measured cost.
RingReconcile(r) ==
    /\ pc[r] = "measured"
    /\ ring' = [i \in DOMAIN ring |->
                  IF ring[i].run = r THEN [ring[i] EXCEPT !.amount = actual[r]] ELSE ring[i]]
    /\ Goto(r, "settled")
    /\ UNCHANGED <<table, weather, handle, store, lock, healing, locals>>

\* discard_charge_for_run, first ...
RingDiscard(r) ==
    /\ pc[r] = "live"
    /\ ring' \in Kept(ring, {i \in DOMAIN ring : ring[i].run # r})
    /\ Goto(r, "voiding")
    /\ UNCHANGED <<table, weather, handle, store, lock, healing, locals>>

\* ... then void_cost_charge.
VoidCharge(r) ==
    /\ pc[r] = "voiding"
    /\ IF store = NoHandle THEN UNCHANGED <<log, handle>>
       ELSE /\ lock[store] = Nobody
            /\ Append1(store, Row("void", r, 0, store), FALSE)
    /\ Goto(r, "settled")
    /\ UNCHANGED <<aged, weather, store, lock, ring, healing, locals>>

------------------------------------------------------------------------------
(* The environment.                                                        *)

StorageBreaks ==
    /\ storage = "up" /\ faults < MaxFaults
    /\ storage' = "down"
    /\ faults' = faults + 1
    /\ UNCHANGED <<table, restarts, handle, store, lock, ring, healing, pc, locals>>

StorageRepaired ==
    /\ storage = "down"
    /\ storage' = "up"
    /\ UNCHANGED <<table, faults, restarts, handle, store, lock, ring, healing, pc, locals>>

\* The oldest row of the window turns 24 hours old.
RowAges ==
    /\ aged < Len(log)
    /\ aged' = aged + 1
    /\ UNCHANGED <<log, weather, handle, store, lock, ring, healing, pc, locals>>

\* A new process: an empty ring, no flag, a handle if the storage opens.
\* What was in flight is gone; the charges stay.
Restart ==
    /\ restarts < MaxRestarts
    /\ restarts' = restarts + 1
    /\ \E h \in Handles :
        /\ handle' = [handle EXCEPT ![h] = FreshHandle(storage = "down")]
        /\ store' = h \/ (storage = "down" /\ store' = NoHandle)
    /\ lock' = [h \in Handles |-> Nobody]
    /\ ring' = <<>>
    /\ reopenTried' = FALSE /\ reopen' = "idle" /\ cooling' = FALSE
    /\ pc' = [q \in Requests |->
                IF q \in Runs /\ pc[q] \notin {"idle", "estimating", "noting", "admitted", "charging"}
                THEN "settled" ELSE "idle"]
    /\ held' = [r \in Runs |-> NoHandle]
    /\ UNCHANGED <<table, storage, faults, snap, ceiling, checkedAt, actual>>

------------------------------------------------------------------------------
Request(q) == Submit(q) \/ TurnAway(q) \/ NoteEvent(q)

Run(r) ==
    \/ Admit(r) \/ FetchStore(r) \/ CheckRails(r) \/ InsertCharge(r) \/ RingCharge(r)
    \/ Reconcile(r) \/ RingReconcile(r) \/ RingDiscard(r) \/ VoidCharge(r)

Heal == ReopenSwaps \/ ReopenFails \/ ReopenReports \/ CooldownEnds

Next ==
    \/ \E q \in Requests : Request(q)
    \/ \E r \in Runs : Run(r)
    \/ Heal
    \/ StorageBreaks \/ StorageRepaired \/ RowAges \/ Restart

Spec == Init /\ [][Next]_vars

\* Estimates keep arriving and are answered, the thread runs, the cooldown
\* passes, and somebody repairs the storage.
Fairness ==
    /\ \A q \in Visitors : WF_vars(Request(q))
    /\ \A r \in Runs : WF_vars(InsertCharge(r))
    /\ WF_vars(ReopenSwaps \/ ReopenFails) /\ WF_vars(ReopenReports) /\ WF_vars(CooldownEnds)
    /\ WF_vars(StorageRepaired)

FairSpec == Spec /\ Fairness

------------------------------------------------------------------------------
(* What must hold.                                                         *)

RowType == [kind : {"charge", "reconciled", "void"}, run : Runs,
            amount : Nat, via : Handles]

TypeOK ==
    /\ log \in Seq(RowType) /\ aged \in 0 .. Len(log)
    /\ storage \in {"up", "down"} /\ faults \in 0 .. MaxFaults /\ restarts \in 0 .. MaxRestarts
    /\ handle \in [Handles -> [health : {"unverified", "ok", "failing"},
                               tainted : BOOLEAN, readOnly : BOOLEAN]]
    /\ store \in Handles \cup {NoHandle}
    /\ lock \in [Handles -> Runs \cup {Nobody}]
    /\ ring \in Seq([run : Runs \cup {Nobody}, amount : Nat]) /\ Len(ring) <= RingCap
    /\ reopenTried \in BOOLEAN /\ cooling \in BOOLEAN
    /\ reopen \in {"idle", "opening", "swapped"}
    /\ pc \in [Requests -> {"idle", "estimating", "noting", "admitted", "degrading", "simulated",
                            "charging", "cleared", "charged", "live", "measured", "voiding",
                            "settled"}]
    /\ held \in [Runs -> Handles \cup {NoHandle}]
    /\ snap \in [Requests -> BOOLEAN] /\ ceiling \in [Runs -> BOOLEAN]
    /\ checkedAt \in [Runs -> Nat] /\ actual \in [Runs -> Nat]

HasRow(r, kind) == \E i \in DOMAIN log : log[i].run = r /\ log[i].kind = kind

\* A run that may spend has its charge on the durable ledger, whatever the
\* storage, the handles and the other requests did: an unstored charge means
\* a simulated run.
LiveRunsAreCharged ==
    \A r \in Runs : pc[r] \in {"charged", "live", "measured", "voiding"} => HasRow(r, "charge")

\* Every entry of the ring has its charge row, and no void row.
RingIsBooked ==
    \A i \in DOMAIN ring :
        ring[i].run \in Runs => HasRow(ring[i].run, "charge") /\ ~HasRow(ring[i].run, "void")

\* The rails hold under every interleaving of charges through one handle: a
\* charge lands over the account's cap, or with the ceiling already reached,
\* only if a row came through another handle between its check and its insert.
ChargeRespectsRails(r) ==
    LET a == Owner[r]
    IN \/ AccountSpend(a)' <= DailyCap /\ GlobalSpend < GlobalCeiling
       \/ \E i \in (checkedAt[r] + 1) .. Len(log) : log[i].via # held[r]

Charges(r) == pc[r] = "cleared" /\ pc'[r] = "charged"

OverRailsOnlyAcrossHandles == [][\A r \in Runs : Charges(r) => ChargeRespectsRails(r)]_vars

\* What ADR-0016 and try_record_run_charge say of the daily cap: the window
\* between check and charge is closed, so no charge takes an account over it.
CapMeansItsNumber ==
    [][\A r \in Runs : Charges(r) => AccountSpend(Owner[r])' <= DailyCap]_vars

\* What reconcile_run_charge says of the two rails: they cannot diverge.  Once
\* a run is settled, the ring and the ledger count it for the same amount.
RailsAgree ==
    \A i \in DOMAIN ring :
        LET r == ring[i].run
        IN r \in Runs /\ pc[r] = "settled" /\ RowsOf(r, {"charge"}) # {}
              => ring[i].amount = RunSpend(r)

\* The ring never counts a run the ledger does not, its entry appearing after
\* the charge row and gone before the void row; and the two count a run for the
\* same amount as long as no write is lost, across restarts and as rows leave
\* the window.
RingFollowsLedger == RingIsBooked /\ (faults = 0 => RailsAgree)

\* The fail-closed refusal and the loss of metering are never absorbing: once
\* the storage stays repaired and estimates keep coming, the configured handle
\* is metered again and no request finds the ledger condemned.
Healed == MayBeMetered(store) /\ (reopenTried => Trustworthy(store))

LedgerRecovers == <>[](storage = "up") => <>[]Healed
=============================================================================
