-------------------------- MODULE SpendLedgerProofs --------------------------
(* What SpendLedger promises of the durable ledger for every number of      *)
(* runs, visitors, handles, faults and restarts.                             *)
EXTENDS SpendLedger, SequenceTheorems, FiniteSetTheorems, TLAPS

Labels == {"idle", "estimating", "noting", "admitted", "degrading", "simulated",
           "charging", "cleared", "charged", "live", "measured", "voiding", "settled"}

\* The state a charge depends on has its shape.
Shape ==
    /\ log \in Seq(RowType)
    /\ store \in Handles \cup {NoHandle}
    /\ lock \in [Handles -> Runs \cup {Nobody}]
    /\ pc \in [Requests -> Labels]
    /\ held \in [Runs -> Handles \cup {NoHandle}]
    /\ checkedAt \in [Runs -> Nat]

\* A charge in flight has the handle it fetched, and from the check to the
\* insert it has that handle's lock.
ChargerHoldsHandle ==
    \A r \in Runs :
        /\ pc[r] \in {"charging", "cleared"} => held[r] \in Handles
        /\ pc[r] = "cleared" => lock[held[r]] = r

\* Between the check and the insert of a charge no row comes through its handle.
NoRowSlipsIn ==
    \A r \in Runs : pc[r] = "cleared" =>
        /\ checkedAt[r] <= Len(log)
        /\ \A i \in (checkedAt[r] + 1) .. Len(log) : log[i].via # held[r]

LedgerInv == Shape /\ ChargerHoldsHandle /\ NoRowSlipsIn /\ LiveRunsAreCharged

-----------------------------------------------------------------------------
(* The ledger only grows.                                                    *)

\* A write leaves the ledger as it is or adds its row at the end.
LEMMA WriteAppends ==
    ASSUME NEW h, NEW row \in RowType, NEW metered, log \in Seq(RowType), Append1(h, row, metered)
    PROVE  /\ log' \in Seq(RowType)
           /\ Len(log') >= Len(log)
           /\ \A i \in 1 .. Len(log) : log'[i] = log[i]
           /\ \A i \in (Len(log) + 1) .. Len(log') : log'[i] = row
           /\ Lands(h) => Len(log') = Len(log) + 1
<1>1. CASE Lands(h)
    <2>1. log' = Append(log, row)
        BY <1>1 DEF Append1
    <2> QED
        BY <2>1, AppendProperties
<1>2. CASE ~Lands(h)
    <2>1. log' = log
        BY <1>2 DEF Append1
    <2> QED
        BY <1>2, <2>1
<1> QED
    BY <1>1, <1>2

\* A row stays on the ledger when the ledger only grows.
LEMMA RowsStay ==
    ASSUME log \in Seq(RowType), log' \in Seq(RowType), Len(log') >= Len(log),
           \A i \in 1 .. Len(log) : log'[i] = log[i],
           NEW r, NEW k, HasRow(r, k)
    PROVE  HasRow(r, k)'
<1>1. PICK i \in DOMAIN log : log[i].run = r /\ log[i].kind = k
    BY DEF HasRow
<1>2. i \in 1 .. Len(log) /\ i \in DOMAIN log' /\ log'[i] = log[i]
    BY <1>1
<1> QED
    BY <1>1, <1>2 DEF HasRow

\* LedgerInv is inductive: who may write to the ledger, and what a run that is
\* live has there.
THEOREM LedgerInvariant == Spec => []LedgerInv
<1>1. Init => LedgerInv
    <2> SUFFICES ASSUME Init PROVE LedgerInv
        OBVIOUS
    <2>1. log \in Seq(RowType)
        BY EmptySeq DEF Init
    <2> QED
        BY <2>1, RunsAssumption DEF Init, LedgerInv, Shape, Labels, ChargerHoldsHandle, NoRowSlipsIn,
            LiveRunsAreCharged, Requests
<1>2. LedgerInv /\ [Next]_vars => LedgerInv'
    <2> SUFFICES ASSUME LedgerInv, [Next]_vars PROVE LedgerInv'
        OBVIOUS
    <2>0. Shape /\ ChargerHoldsHandle /\ NoRowSlipsIn /\ LiveRunsAreCharged
        BY DEF LedgerInv
    <2> DEFINE Live == {"charged", "live", "measured", "voiding"}
    \* A step of one request that writes nothing to the ledger.
    <2>q. ASSUME NEW q \in Requests, NEW to \in Labels \ {"charging", "cleared"},
                 pc' = [pc EXCEPT ![q] = to], to \in Live => pc[q] \in Live,
                 store' \in Handles \cup {NoHandle}, UNCHANGED <<log, lock, held, checkedAt>>
          PROVE  LedgerInv'
        <3>1. Shape'
            BY <2>0, <2>q DEF Shape
        <3>2. ChargerHoldsHandle' /\ NoRowSlipsIn'
            BY <2>0, <2>q DEF Shape, ChargerHoldsHandle, NoRowSlipsIn, Requests
        <3>3. LiveRunsAreCharged'
            BY <2>0, <2>q DEF Shape, LiveRunsAreCharged, HasRow, Requests
        <3> QED
            BY <3>1, <3>2, <3>3 DEF LedgerInv
    \* A step of the healing thread or of the environment.
    <2>e. ASSUME store' \in Handles \cup {NoHandle}, UNCHANGED <<log, lock, pc, held, checkedAt>>
          PROVE  LedgerInv'
        BY <2>0, <2>e DEF LedgerInv, Shape, ChargerHoldsHandle, NoRowSlipsIn, LiveRunsAreCharged,
            HasRow
    <2>1. ASSUME NEW q \in Requests, Submit(q)
          PROVE  LedgerInv'
        BY <2>0, <2>1, <2>q DEF Submit, Goto, table, Labels, Shape
    <2>2. ASSUME NEW q \in Requests, TurnAway(q)
          PROVE  LedgerInv'
        BY <2>0, <2>2, <2>q DEF TurnAway, Goto, table, locals, Labels, Shape
    <2>3. ASSUME NEW q \in Requests, NoteEvent(q)
          PROVE  LedgerInv'
        BY <2>0, <2>3, <2>q DEF NoteEvent, Goto, table, locals, Labels, Shape
    <2>4. ASSUME NEW r \in Runs, Admit(r)
          PROVE  LedgerInv'
        BY <2>0, <2>4, <2>q DEF Admit, Goto, table, Labels, Shape, Requests
    <2>5. ASSUME NEW r \in Runs, FetchStore(r)
          PROVE  LedgerInv'
        <3>1. CASE ~ceiling[r] /\ MayBeMetered(store)
            <4>1. /\ pc' = [pc EXCEPT ![r] = "charging"] /\ held' = [held EXCEPT ![r] = store]
                  /\ store \in Handles /\ pc[r] = "admitted"
                  /\ UNCHANGED <<log, lock, store, checkedAt>>
                BY <2>0, <2>5, <3>1 DEF FetchStore, Goto, table, MayBeMetered, Shape
            <4> QED
                BY <2>0, <4>1 DEF LedgerInv, Shape, Labels, ChargerHoldsHandle, NoRowSlipsIn,
                    LiveRunsAreCharged, HasRow, Requests
        <3>2. CASE ceiling[r] \/ ~MayBeMetered(store)
            BY <2>0, <2>5, <2>q, <3>2 DEF FetchStore, Goto, table, Labels, Shape, Requests
        <3> QED
            BY <3>1, <3>2
    <2>6. ASSUME NEW r \in Runs, CheckRails(r)
          PROVE  LedgerInv'
        <3>1. CASE \E to \in {"idle", "degrading"} :
                      /\ pc' = [pc EXCEPT ![r] = to] /\ held' = [held EXCEPT ![r] = NoHandle]
                      /\ UNCHANGED <<lock, checkedAt>>
            <4>1. UNCHANGED <<log, store>>
                BY <2>6 DEF CheckRails, table
            <4> QED
                BY <2>0, <3>1, <4>1 DEF LedgerInv, Shape, Labels, ChargerHoldsHandle, NoRowSlipsIn,
                    LiveRunsAreCharged, HasRow, Requests
        <3>2. CASE /\ pc' = [pc EXCEPT ![r] = "cleared"]
                   /\ lock' = [lock EXCEPT ![held[r]] = r]
                   /\ checkedAt' = [checkedAt EXCEPT ![r] = Len(log)]
                   /\ held' = held
            <4>1. UNCHANGED <<log, store>> /\ pc[r] = "charging" /\ lock[held[r]] = Nobody
                BY <2>6 DEF CheckRails, table
            <4>2. Len(log) \in Nat
                BY <2>0, LenProperties DEF Shape
            <4>3. Shape'
                BY <2>0, <3>2, <4>1, <4>2 DEF Shape, Labels, Requests
            <4>4. ChargerHoldsHandle'
                BY <2>0, <3>2, <4>1, RunsAssumption DEF Shape, ChargerHoldsHandle, Requests
            <4>5. NoRowSlipsIn'
                BY <2>0, <3>2, <4>1, <4>2 DEF Shape, NoRowSlipsIn, Requests
            <4>6. LiveRunsAreCharged'
                BY <2>0, <3>2, <4>1 DEF Shape, LiveRunsAreCharged, HasRow, Requests
            <4> QED
                BY <4>3, <4>4, <4>5, <4>6 DEF LedgerInv
        <3> QED
            BY <2>6, <3>1, <3>2 DEF CheckRails, Goto
    <2>7. ASSUME NEW r \in Runs, InsertCharge(r)
          PROVE  LedgerInv'
        <3> DEFINE h == held[r]
                   row == Row("charge", r, Est[r], h)
        <3>1. /\ pc[r] = "cleared" /\ h \in Handles /\ lock[h] = r
              /\ Append1(h, row, TRUE)
              /\ pc' = [pc EXCEPT ![r] = IF Lands(h) THEN "charged" ELSE "simulated"]
              /\ lock' = [x \in Handles |-> IF lock[x] = r THEN Nobody ELSE lock[x]]
              /\ held' = [held EXCEPT ![r] = NoHandle]
              /\ UNCHANGED <<store, checkedAt>>
            BY <2>0, <2>7 DEF InsertCharge, Goto, ChargerHoldsHandle
        <3>2. row \in RowType /\ row.via = h /\ row.run = r /\ row.kind = "charge"
            BY <3>1, EstAssumption DEF Row, RowType
        <3> HIDE DEF row
        <3>3. /\ log' \in Seq(RowType) /\ Len(log') >= Len(log)
              /\ \A i \in 1 .. Len(log) : log'[i] = log[i]
              /\ \A i \in (Len(log) + 1) .. Len(log') : log'[i] = row
              /\ Lands(h) => Len(log') = Len(log) + 1
            BY <2>0, <3>1, <3>2, WriteAppends DEF Shape
        <3>4. Len(log) \in Nat /\ Len(log') \in Nat
            BY <2>0, <3>3, LenProperties DEF Shape
        <3>5. Shape'
            BY <2>0, <3>1, <3>3 DEF Shape, Labels, Requests
        <3>6. ChargerHoldsHandle'
            BY <2>0, <3>1 DEF Shape, ChargerHoldsHandle, Requests
        <3>7. NoRowSlipsIn'
            <4> SUFFICES ASSUME NEW q \in Runs, pc'[q] = "cleared",
                                NEW i \in (checkedAt[q] + 1) .. Len(log')
                         PROVE  checkedAt[q] <= Len(log') /\ log'[i].via # held'[q]
                BY <2>0, <3>1, <3>3, <3>4 DEF Shape, NoRowSlipsIn, Requests
            <4>1. q # r /\ pc[q] = "cleared" /\ held'[q] = held[q] /\ checkedAt[q] \in Nat
                BY <2>0, <3>1 DEF Shape, Requests
            <4>2. held[q] # h /\ checkedAt[q] <= Len(log)
                BY <2>0, <3>1, <4>1 DEF ChargerHoldsHandle, NoRowSlipsIn
            <4>3. CASE i <= Len(log)
                BY <2>0, <3>3, <3>4, <4>1, <4>2, <4>3 DEF NoRowSlipsIn
            <4>4. CASE i > Len(log)
                BY <3>2, <3>3, <3>4, <4>1, <4>2, <4>4
            <4> QED
                BY <3>4, <4>1, <4>3, <4>4
        <3>8. LiveRunsAreCharged'
            <4> SUFFICES ASSUME NEW q \in Runs, pc'[q] \in Live
                         PROVE  HasRow(q, "charge")'
                BY DEF LiveRunsAreCharged
            <4>1. CASE q = r
                <5>1. Lands(h)
                    BY <2>0, <3>1, <4>1 DEF Shape, Requests
                <5>2. log'[Len(log')] = row /\ Len(log') \in DOMAIN log'
                    BY <3>3, <3>4, <5>1
                <5> QED
                    BY <3>2, <4>1, <5>2 DEF HasRow
            <4>2. CASE q # r
                <5>1. HasRow(q, "charge")
                    BY <2>0, <3>1, <4>2 DEF Shape, LiveRunsAreCharged, Requests
                <5> QED
                    BY <2>0, <3>3, <5>1, RowsStay DEF Shape
            <4> QED
                BY <4>1, <4>2
        <3> QED
            BY <3>5, <3>6, <3>7, <3>8 DEF LedgerInv
    \* A correction goes through a handle whose lock is free.
    <2>c. ASSUME NEW r \in Runs, NEW row \in RowType, NEW metered,
                 store \in Handles, lock[store] = Nobody, row.via = store,
                 Append1(store, row, metered), NEW to \in {"measured", "settled"},
                 pc[r] \in {"live", "voiding"}, pc' = [pc EXCEPT ![r] = to],
                 UNCHANGED <<store, lock, held, checkedAt>>
          PROVE  LedgerInv'
        <3>1. /\ log' \in Seq(RowType) /\ Len(log') >= Len(log)
              /\ \A i \in 1 .. Len(log) : log'[i] = log[i]
              /\ \A i \in (Len(log) + 1) .. Len(log') : log'[i] = row
            BY <2>0, <2>c, WriteAppends DEF Shape
        <3>2. Len(log) \in Nat /\ Len(log') \in Nat
            BY <2>0, <3>1, LenProperties DEF Shape
        <3>3. Shape'
            BY <2>0, <2>c, <3>1 DEF Shape, Labels, Requests
        <3>4. ChargerHoldsHandle'
            BY <2>0, <2>c DEF Shape, ChargerHoldsHandle, Requests
        <3>5. NoRowSlipsIn'
            <4> SUFFICES ASSUME NEW q \in Runs, pc'[q] = "cleared",
                                NEW i \in (checkedAt[q] + 1) .. Len(log')
                         PROVE  checkedAt[q] <= Len(log') /\ log'[i].via # held[q]
                BY <2>0, <2>c, <3>1, <3>2 DEF Shape, NoRowSlipsIn, Requests
            <4>1. pc[q] = "cleared" /\ checkedAt[q] \in Nat
                BY <2>0, <2>c DEF Shape, Requests
            <4>2. held[q] # store /\ checkedAt[q] <= Len(log)
                BY <2>0, <2>c, <4>1, RunsAssumption DEF ChargerHoldsHandle, NoRowSlipsIn
            <4>3. CASE i <= Len(log)
                BY <2>0, <3>1, <3>2, <4>1, <4>2, <4>3 DEF NoRowSlipsIn
            <4>4. CASE i > Len(log)
                BY <2>c, <3>1, <3>2, <4>1, <4>2, <4>4
            <4> QED
                BY <3>2, <4>1, <4>3, <4>4
        <3>6. LiveRunsAreCharged'
            <4> SUFFICES ASSUME NEW q \in Runs, pc'[q] \in Live
                         PROVE  HasRow(q, "charge")'
                BY DEF LiveRunsAreCharged
            <4>1. HasRow(q, "charge")
                BY <2>0, <2>c DEF Shape, LiveRunsAreCharged, Requests
            <4> QED
                BY <2>0, <3>1, <4>1, RowsStay DEF Shape
        <3> QED
            BY <3>3, <3>4, <3>5, <3>6 DEF LedgerInv
    <2>8. ASSUME NEW r \in Runs, RingCharge(r)
          PROVE  LedgerInv'
        BY <2>0, <2>8, <2>q DEF RingCharge, Goto, table, locals, Labels, Shape, Requests
    <2>9. ASSUME NEW r \in Runs, Reconcile(r)
          PROVE  LedgerInv'
        <3>1. CASE store # NoHandle /\ MayReconcile(r)
            <4>1. PICK cost \in Measured : Append1(store, Row("reconciled", r, cost, store), TRUE)
                BY <2>9, <3>1 DEF Reconcile
            <4>2. store \in Handles
                BY <2>0, <3>1 DEF Shape
            <4>3. /\ Row("reconciled", r, cost, store) \in RowType
                  /\ Row("reconciled", r, cost, store).via = store
                BY <4>2, EstAssumption DEF Row, RowType
            <4>4. /\ lock[store] = Nobody /\ pc[r] = "live"
                  /\ pc' = [pc EXCEPT ![r] = "measured"]
                  /\ UNCHANGED <<store, lock, held, checkedAt>>
                BY <2>9, <3>1 DEF Reconcile, Goto
            <4> QED
                BY <2>c, <4>1, <4>2, <4>3, <4>4
        <3>2. CASE ~(store # NoHandle /\ MayReconcile(r))
            BY <2>0, <2>9, <2>q, <3>2 DEF Reconcile, Goto, Labels, Shape, Requests
        <3> QED
            BY <3>1, <3>2
    <2>10. ASSUME NEW r \in Runs, RingReconcile(r)
           PROVE  LedgerInv'
        BY <2>0, <2>10, <2>q DEF RingReconcile, Goto, table, locals, Labels, Shape, Requests
    <2>11. ASSUME NEW r \in Runs, RingDiscard(r)
           PROVE  LedgerInv'
        BY <2>0, <2>11, <2>q DEF RingDiscard, Goto, table, locals, Labels, Shape, Requests
    <2>12. ASSUME NEW r \in Runs, VoidCharge(r)
           PROVE  LedgerInv'
        <3>1. CASE store # NoHandle
            <4>1. store \in Handles
                BY <2>0, <3>1 DEF Shape
            <4>2. /\ Row("void", r, 0, store) \in RowType
                  /\ Row("void", r, 0, store).via = store
                BY <4>1 DEF Row, RowType
            <4>3. /\ Append1(store, Row("void", r, 0, store), FALSE)
                  /\ lock[store] = Nobody /\ pc[r] = "voiding"
                  /\ pc' = [pc EXCEPT ![r] = "settled"]
                  /\ UNCHANGED <<store, lock, held, checkedAt>>
                BY <2>12, <3>1 DEF VoidCharge, Goto, locals
            <4> QED
                BY <2>c, <4>1, <4>2, <4>3
        <3>2. CASE store = NoHandle
            BY <2>0, <2>12, <2>q, <3>2 DEF VoidCharge, Goto, locals, Labels, Shape, Requests
        <3> QED
            BY <3>1, <3>2
    <2>13. ASSUME Heal
           PROVE  LedgerInv'
        BY <2>0, <2>13, <2>e DEF Heal, ReopenSwaps, ReopenFails, ReopenReports, CooldownEnds,
            table, locals, Shape
    <2>14. ASSUME StorageBreaks \/ StorageRepaired \/ RowAges
           PROVE  LedgerInv'
        BY <2>0, <2>14, <2>e DEF StorageBreaks, StorageRepaired, RowAges, table, locals, Shape
    <2>15. ASSUME Restart
           PROVE  LedgerInv'
        <3>1. /\ store' \in Handles \cup {NoHandle}
              /\ lock' = [h \in Handles |-> Nobody]
              /\ held' = [r \in Runs |-> NoHandle]
              /\ pc' \in [Requests -> {"settled", "idle"}]
              /\ UNCHANGED <<log, checkedAt>>
            BY <2>15 DEF Restart, table
        <3> QED
            BY <2>0, <3>1 DEF LedgerInv, Shape, Labels, ChargerHoldsHandle, NoRowSlipsIn,
                LiveRunsAreCharged, Requests
    <2>16. CASE UNCHANGED vars
        BY <2>0, <2>16, <2>e DEF vars, table, locals, Shape
    <2> QED
        BY <2>1, <2>2, <2>3, <2>4, <2>5, <2>6, <2>7, <2>8, <2>9, <2>10, <2>11, <2>12, <2>13,
            <2>14, <2>15, <2>16 DEF Next, Request, Run
<1> QED
    BY <1>1, <1>2, PTL DEF Spec

\* LiveRunsAreCharged: a run that may spend is on the durable ledger, whatever
\* the storage, the handles, the restarts and the other requests did.
THEOREM LiveRunsStayCharged == Spec => []LiveRunsAreCharged
BY LedgerInvariant, PTL DEF LedgerInv

\* NoRowSlipsIn: what a charge read of the ledger is still all there is from its
\* handle when it is inserted, for any number of handles and requests; only a
\* second handle can take an account over its cap.
THEOREM ChargesOfOneHandleAreAtomic == Spec => []NoRowSlipsIn
BY LedgerInvariant, PTL DEF LedgerInv

-----------------------------------------------------------------------------
(* The ring beside the ledger                                                *)

RingEntry == [run : Runs \cup {Nobody}, amount : Nat]

RingShape ==
    /\ ring \in Seq(RingEntry)
    /\ aged \in Nat /\ faults \in Nat
    /\ handle \in [Handles -> [health : {"unverified", "ok", "failing"},
                               tainted : BOOLEAN, readOnly : BOOLEAN]]
    /\ actual \in [Runs -> Nat]

\* Before the first fault there is a handle, and every handle can write.
SoundUntilFault ==
    faults = 0 => /\ storage = "up" /\ store # NoHandle
                  /\ \A h \in Handles : ~handle[h].readOnly

Unbooked ==
    {"idle", "estimating", "noting", "admitted", "degrading", "simulated", "charging", "cleared"}

InRing(r) == \E i \in DOMAIN ring : ring[i].run = r

\* The measured cost of r is the one correction on the ledger, and its last row.
Corrected(r) ==
    \E j \in DOMAIN log :
        /\ log[j].run = r /\ log[j].kind = "reconciled" /\ log[j].amount = actual[r]
        /\ \A i \in DOMAIN log : log[i].run = r => i = j \/ (i < j /\ log[i].kind = "charge")

\* What the ledger and the ring hold of a run, by where the run is.
Standing(r) ==
    /\ pc[r] \in Unbooked => \A i \in DOMAIN log : log[i].run # r
    /\ pc[r] \in {"charged", "live", "voiding"} =>
           \A i \in DOMAIN log : log[i].run = r => log[i].kind = "charge"
    /\ pc[r] = "measured" => ~HasRow(r, "void")
    /\ InRing(r) => /\ pc[r] \in {"live", "measured", "settled"}
                    /\ HasRow(r, "charge") /\ ~HasRow(r, "void")
    /\ faults = 0 /\ pc[r] = "measured" => Corrected(r)
    /\ faults = 0 /\ pc[r] = "settled" /\ InRing(r) =>
           \/ RowsOf(r, {"charge"}) = {}
           \/ /\ Corrected(r)
              /\ \A i \in DOMAIN ring : ring[i].run = r => ring[i].amount = actual[r]

RingInv == RingShape /\ SoundUntilFault /\ \A r \in Runs : Standing(r)

\* The rows of r, and its entries in the ring, are no other than they were.
RowsKept(r) ==
    /\ \A i \in DOMAIN log : i \in DOMAIN log' /\ log'[i] = log[i]
    /\ \A i \in DOMAIN log' : i \in DOMAIN log \/ log'[i].run # r
EntriesKept(r) ==
    \A i \in DOMAIN ring' : ring'[i].run = r => \E k \in DOMAIN ring : ring[k] = ring'[i]

\* What an event pushes is all the ring has that it did not have.
LEMMA PushedEntries ==
    ASSUME ring \in Seq(RingEntry), NEW q \in Runs \cup {Nobody}, NEW amt \in Nat,
           ring' = Pushed(q, amt)
    PROVE  /\ ring' \in Seq(RingEntry)
           /\ \A i \in DOMAIN ring' : \/ ring'[i] = [run |-> q, amount |-> amt]
                                      \/ \E k \in DOMAIN ring : ring[k] = ring'[i]
<1> DEFINE e == [run |-> q, amount |-> amt]
           grown == Append(ring, e)
           from == Max({1, Len(grown) - RingCap + 1})
<1>1. e \in RingEntry
    BY DEF RingEntry
<1>2. /\ grown \in Seq(RingEntry) /\ Len(grown) = Len(ring) + 1 /\ Len(ring) \in Nat
      /\ \A k \in 1 .. Len(ring) : grown[k] = ring[k]
      /\ grown[Len(ring) + 1] = e
    BY <1>1, AppendProperties, LenProperties
<1>3. from \in 1 .. Len(grown)
    <2>1. 1 \in {1, Len(grown) - RingCap + 1}
        OBVIOUS
    <2>2. \E x \in {1, Len(grown) - RingCap + 1} : \A y \in {1, Len(grown) - RingCap + 1} : x >= y
        BY <1>2, RingAssumption
    <2>3. from \in {1, Len(grown) - RingCap + 1} /\ from >= 1
        BY <2>1, <2>2 DEF Max
    <2> QED
        BY <1>2, <2>3, RingAssumption
<1> HIDE DEF from
<1>4. ring' = SubSeq(grown, from, Len(grown))
    BY DEF Pushed, from
<1>5. /\ ring' \in Seq(RingEntry) /\ Len(ring') = Len(grown) - from + 1
      /\ \A i \in 1 .. Len(ring') : ring'[i] = grown[from + i - 1]
    <2> DEFINE last == Len(grown)
    <2>1. from \in Int /\ last \in Int /\ from <= last /\ last - from + 1 \in Nat
        BY <1>2, <1>3
    <2>2. \A i \in from .. last : grown[i] \in RingEntry
        BY <1>2, <1>3, ElementOfSeq
    <2> HIDE DEF last, grown
    <2>3. /\ SubSeq(grown, from, last) \in Seq(RingEntry)
          /\ Len(SubSeq(grown, from, last)) = last - from + 1
          /\ \A i \in 1 .. last - from + 1 : SubSeq(grown, from, last)[i] = grown[from + i - 1]
        BY <2>1, <2>2, SubSeqProperties
    <2> QED
        BY <1>4, <2>3 DEF last
<1> HIDE DEF grown
<1>6. ASSUME NEW i \in DOMAIN ring'
      PROVE  ring'[i] = e \/ \E k \in DOMAIN ring : ring[k] = ring'[i]
    <2>1. i \in 1 .. Len(ring')
        BY <1>5, LenProperties
    <2> DEFINE last == Len(grown)
    <2>2. last = Len(ring) + 1 /\ Len(ring) \in Nat /\ from \in 1 .. last
          /\ i \in 1 .. (last - from + 1)
        BY <1>2, <1>3, <1>5, <2>1
    <2> HIDE DEF last
    <2>3. from + i - 1 \in 1 .. (Len(ring) + 1)
        <3>1. ASSUME NEW a \in Nat, NEW b \in Int, NEW c \in Int,
                     1 <= b, 1 <= c, c <= a + 1 - b + 1
              PROVE  b + c - 1 \in Int /\ 1 <= b + c - 1 /\ b + c - 1 <= a + 1
            BY <3>1
        <3>2. from \in Int /\ i \in Int /\ 1 <= from /\ 1 <= i /\ i <= Len(ring) + 1 - from + 1
            BY <2>2
        <3> QED
            BY <2>2, <3>1, <3>2
    <2>4. ring'[i] = grown[from + i - 1]
        BY <1>5, <2>1
    <2> QED
        BY <1>2, <2>3, <2>4
<1> QED
    BY <1>5, <1>6

\* What is kept of the ring was there.
LEMMA KeptEntries ==
    ASSUME ring \in Seq(RingEntry), NEW K \in SUBSET DOMAIN ring, ring' \in Kept(ring, K)
    PROVE  /\ ring' \in Seq(RingEntry)
           /\ \A i \in DOMAIN ring' : \E k \in K : ring'[i] = ring[k]
<1> DEFINE n == Cardinality(K)
<1>1. n \in Nat
    <2>1. IsFiniteSet(DOMAIN ring)
        BY LenProperties, FS_Interval
    <2> QED
        BY <2>1, FS_Subset, FS_CardinalityType
<1> HIDE DEF n
<1>2. PICK f \in [1 .. n -> K] : ring' = [i \in 1 .. n |-> ring[f[i]]]
    BY DEF Kept, n
<1>3. \A i \in 1 .. n : f[i] \in K /\ ring[f[i]] \in RingEntry
    BY ElementOfSeq, LenProperties
<1> QED
    BY <1>1, <1>2, <1>3

\* A step that writes nothing of a run, and leaves it where it is.
LEMMA StandingElsewhere ==
    ASSUME Shape, Shape', NEW r \in Runs, Standing(r), RingShape,
           pc'[r] = pc[r], actual'[r] = actual[r], faults' = 0 => faults = 0,
           aged' \in Nat, aged' >= aged, RowsKept(r), EntriesKept(r)
    PROVE  Standing(r)'
<1>1. DOMAIN log = 1 .. Len(log) /\ DOMAIN log' = 1 .. Len(log')
    BY DEF Shape
<1>2. Len(log) \in Nat /\ Len(log') \in Nat
    BY DEF Shape
<1>3. \A k : HasRow(r, k)' <=> HasRow(r, k)
    BY DEF HasRow, RowsKept
<1>4. InRing(r)' => InRing(r)
    BY DEF InRing, EntriesKept
<1>5. Corrected(r) => Corrected(r)'
    BY DEF Corrected, RowsKept
<1>6. RowsOf(r, {"charge"}) = {} => RowsOf(r, {"charge"})' = {}
    BY <1>1, <1>2 DEF RowsOf, InWindow, RowsKept, RingShape
<1>7. (pc[r] \in Unbooked => \A i \in DOMAIN log : log[i].run # r)'
    BY DEF Standing, RowsKept
<1>8. (pc[r] \in {"charged", "live", "voiding"} =>
           \A i \in DOMAIN log : log[i].run = r => log[i].kind = "charge")'
    BY DEF Standing, RowsKept
<1>9. (faults = 0 /\ pc[r] = "settled" /\ InRing(r) =>
           \/ RowsOf(r, {"charge"}) = {}
           \/ /\ Corrected(r)
              /\ \A i \in DOMAIN ring : ring[i].run = r => ring[i].amount = actual[r])'
    BY <1>4, <1>5, <1>6 DEF Standing, EntriesKept
<1> QED
    BY <1>3, <1>4, <1>5, <1>7, <1>8, <1>9 DEF Standing

\* A step of a run that is not on the ledger yet.
LEMMA StandingUnbooked ==
    ASSUME NEW r \in Runs, Standing(r), pc[r] \in Unbooked, pc'[r] \in Unbooked,
           log' = log, EntriesKept(r)
    PROVE  Standing(r)'
BY DEF Standing, Unbooked, InRing, EntriesKept

\* A step of a run that is not on the ledger, and of no other.
LEMMA UnbookedStep ==
    ASSUME LedgerInv, LedgerInv', RingInv, NEW q \in Requests, NEW to \in Unbooked,
           pc' = [pc EXCEPT ![q] = to], pc[q] \in Unbooked, UNCHANGED <<log, aged, actual>>,
           faults' = 0 => faults = 0, \A r \in Runs : EntriesKept(r)
    PROVE  \A r \in Runs : Standing(r)'
<1> SUFFICES ASSUME NEW r \in Runs PROVE Standing(r)'
    OBVIOUS
<1>1. Shape /\ Shape' /\ RingShape /\ Standing(r)
    BY DEF LedgerInv, RingInv
<1>2. CASE r = q
    BY <1>1, <1>2, StandingUnbooked DEF Shape
<1>3. CASE r # q
    <2>1. pc'[r] = pc[r] /\ actual'[r] = actual[r] /\ aged' \in Nat /\ aged' >= aged
        BY <1>1, <1>3 DEF Shape, RingShape
    <2>2. RowsKept(r)
        BY DEF RowsKept
    <2> QED
        BY <1>1, <2>1, <2>2, StandingElsewhere
<1> QED
    BY <1>2, <1>3

\* A write leaves every handle as able to write as it was.
LEMMA HandlesAfterWrite ==
    ASSUME RingShape, NEW h \in Handles, NEW metered \in BOOLEAN,
           handle' = AfterWrite(h, metered)
    PROVE  /\ handle' \in [Handles -> [health : {"unverified", "ok", "failing"},
                                       tainted : BOOLEAN, readOnly : BOOLEAN]]
           /\ \A x \in Handles : handle'[x].readOnly = handle[x].readOnly
<1>1. CASE Lands(h)
    BY <1>1 DEF AfterWrite, RingShape
<1>2. CASE ~Lands(h)
    <2> DEFINE lost == handle[h].tainted \/ metered
    <2>1. handle' = [handle EXCEPT ![h].health = "failing", ![h].tainted = lost]
        BY <1>2 DEF AfterWrite
    <2>2. lost \in BOOLEAN
        OBVIOUS
    <2> HIDE DEF lost
    <2>3. handle[h] \in [health : {"unverified", "ok", "failing"},
                         tainted : BOOLEAN, readOnly : BOOLEAN]
        BY DEF RingShape
    <2> DEFINE after == [handle[h] EXCEPT !.health = "failing", !.tainted = lost]
    <2>4. /\ after \in [health : {"unverified", "ok", "failing"},
                        tainted : BOOLEAN, readOnly : BOOLEAN]
          /\ after.readOnly = handle[h].readOnly
        BY <2>2, <2>3
    <2>5. handle' = [handle EXCEPT ![h] = after]
        BY <2>1 DEF RingShape
    <2> HIDE DEF after
    <2> QED
        BY <2>4, <2>5 DEF RingShape
<1> QED
    BY <1>1, <1>2

\* Writing the charge of a run whose check went well.
LEMMA InsertStep ==
    ASSUME LedgerInv, LedgerInv', RingInv, NEW r \in Runs, InsertCharge(r)
    PROVE  RingInv'
<1> DEFINE h == held[r]
           row == Row("charge", r, Est[r], h)
<1>1. /\ Shape /\ Shape' /\ RingShape /\ \A q \in Runs : Standing(q)
      /\ pc[r] = "cleared" /\ h \in Handles
    BY DEF LedgerInv, RingInv, InsertCharge, ChargerHoldsHandle
<1>2. /\ Append1(h, row, TRUE)
      /\ pc' = [pc EXCEPT ![r] = IF Lands(h) THEN "charged" ELSE "simulated"]
      /\ UNCHANGED <<aged, storage, faults, store, ring, actual>>
    BY DEF InsertCharge, Goto, weather
<1>3. row \in RowType /\ row.run = r /\ row.kind = "charge"
    BY <1>1, EstAssumption DEF Row, RowType
<1> HIDE DEF row
<1>4. /\ Len(log') >= Len(log) /\ Len(log) \in Nat /\ Len(log') \in Nat
      /\ DOMAIN log = 1 .. Len(log) /\ DOMAIN log' = 1 .. Len(log')
      /\ \A i \in 1 .. Len(log) : log'[i] = log[i]
      /\ \A i \in (Len(log) + 1) .. Len(log') : log'[i] = row
      /\ ~Lands(h) => log' = log
    BY <1>1, <1>2, <1>3, WriteAppends, LenProperties DEF Shape, Append1
<1>5. RingShape' /\ SoundUntilFault'
    BY <1>1, <1>2, HandlesAfterWrite DEF RingInv, RingShape, SoundUntilFault, Append1
<1>6. ASSUME NEW q \in Runs, q # r
      PROVE  Standing(q)'
    <2>1. pc'[q] = pc[q] /\ actual'[q] = actual[q] /\ aged' \in Nat /\ aged' >= aged
        BY <1>1, <1>2, <1>6 DEF Shape, RingShape, Requests
    <2>2. RowsKept(q)
        BY <1>3, <1>4, <1>6 DEF RowsKept
    <2>3. EntriesKept(q)
        BY <1>2 DEF EntriesKept
    <2> QED
        BY <1>1, <1>2, <2>1, <2>2, <2>3, StandingElsewhere
<1>7. Standing(r)'
    <2>1. \A i \in DOMAIN log : log[i].run # r
        BY <1>1 DEF Standing, Unbooked
    <2>2. ~InRing(r)'
        BY <1>1, <1>2 DEF Standing, InRing
    <2>3. CASE Lands(h)
        <3>1. pc'[r] = "charged"
            BY <1>1, <1>2, <2>3 DEF Shape, Requests
        <3>2. \A i \in DOMAIN log' : log'[i].run = r => log'[i].kind = "charge"
            BY <1>3, <1>4, <2>1
        <3> QED
            BY <2>2, <3>1, <3>2 DEF Standing, Unbooked
    <2>4. CASE ~Lands(h)
        <3>1. pc'[r] = "simulated" /\ log' = log
            BY <1>1, <1>2, <1>4, <2>4 DEF Shape, Requests
        <3> QED
            BY <2>1, <2>2, <3>1 DEF Standing
    <2> QED
        BY <2>3, <2>4
<1> QED
    BY <1>5, <1>6, <1>7 DEF RingInv

\* Estimating, checking and turning away: nothing is on the ledger yet.
LEMMA EstimateStep ==
    ASSUME LedgerInv, LedgerInv', RingInv, NEW q \in Requests,
           \/ Submit(q) \/ TurnAway(q)
           \/ q \in Runs /\ (Admit(q) \/ FetchStore(q) \/ CheckRails(q))
    PROVE  RingInv'
<1>1. /\ pc[q] \in {"idle", "estimating", "admitted", "charging"}
      /\ \E to \in Unbooked : pc' = [pc EXCEPT ![q] = to]
    <2>1. CASE Submit(q)
        BY <2>1 DEF Submit, Goto, Unbooked
    <2>2. CASE TurnAway(q)
        BY <2>2 DEF TurnAway, Goto, Unbooked
    <2>3. CASE q \in Runs /\ Admit(q)
        BY <2>3 DEF Admit, Goto, Unbooked
    <2>4. CASE q \in Runs /\ FetchStore(q)
        BY <2>4 DEF FetchStore, Goto, Unbooked
    <2>5. CASE q \in Runs /\ CheckRails(q)
        BY <2>5 DEF CheckRails, Goto, Unbooked
    <2> QED
        BY <2>1, <2>2, <2>3, <2>4, <2>5
<1>2. /\ UNCHANGED <<log, aged, storage, handle, store, ring, actual>>
      /\ faults' = faults \/ faults' = faults + 1
    <2>1. CASE Submit(q)
        BY <2>1 DEF Submit, Reconnect, table
    <2>2. CASE ~Submit(q)
        BY <2>2 DEF TurnAway, Admit, FetchStore, CheckRails, table, weather, locals
    <2> QED
        BY <2>1, <2>2
<1>3. RingShape /\ faults \in Nat
    BY DEF RingInv, RingShape
<1>4. faults' \in Nat /\ (faults' = 0 => faults = 0)
    BY <1>2, <1>3
<1>5. RingShape' /\ SoundUntilFault'
    BY <1>2, <1>3, <1>4 DEF RingInv, RingShape, SoundUntilFault
<1>6. \A r \in Runs : EntriesKept(r)
    BY <1>2 DEF EntriesKept
<1>7. \A r \in Runs : Standing(r)'
    <2>1. PICK to \in Unbooked : pc' = [pc EXCEPT ![q] = to]
        BY <1>1
    <2>2. pc[q] \in Unbooked
        BY <1>1 DEF Unbooked
    <2> QED
        BY <1>2, <1>4, <1>6, <2>1, <2>2, UnbookedStep
<1> QED
    BY <1>5, <1>7 DEF RingInv

\* An event of neither meter is pushed on the ring.
LEMMA NoteStep ==
    ASSUME LedgerInv, LedgerInv', RingInv, NEW q \in Requests, NoteEvent(q)
    PROVE  RingInv'
<1>1. RingShape /\ Shape
    BY DEF RingInv, LedgerInv
<1>2. /\ pc[q] \in {"noting", "degrading"}
      /\ pc' = [pc EXCEPT ![q] = IF pc[q] = "noting" THEN "idle" ELSE "simulated"]
      /\ ring' = Pushed(Nobody, 0)
      /\ UNCHANGED <<log, aged, storage, faults, store, actual>>
    BY DEF NoteEvent, Goto, table, weather, locals
<1>3. /\ ring' \in Seq(RingEntry)
      /\ \A i \in DOMAIN ring' : \/ ring'[i] = [run |-> Nobody, amount |-> 0]
                                 \/ \E k \in DOMAIN ring : ring[k] = ring'[i]
    <2>1. ring \in Seq(RingEntry) /\ Nobody \in Runs \cup {Nobody} /\ 0 \in Nat
        BY <1>1 DEF RingShape
    <2> QED
        BY <1>2, <2>1, PushedEntries
<1>4. /\ handle' \in [Handles -> [health : {"unverified", "ok", "failing"},
                                  tainted : BOOLEAN, readOnly : BOOLEAN]]
      /\ \A x \in Handles : handle'[x].readOnly = handle[x].readOnly
    <2>1. CASE store = NoHandle
        BY <1>1, <2>1 DEF NoteEvent, WriteUncounted, RingShape
    <2>2. CASE store # NoHandle
        <3>1. store \in Handles /\ handle' = AfterWrite(store, FALSE)
            BY <1>1, <2>2 DEF NoteEvent, WriteUncounted, Shape
        <3> QED
            BY <1>1, <3>1, HandlesAfterWrite
    <2> QED
        BY <2>1, <2>2
<1>5. RingShape' /\ SoundUntilFault'
    BY <1>1, <1>2, <1>3, <1>4 DEF RingInv, RingShape, SoundUntilFault
<1>6. \A r \in Runs : EntriesKept(r)
    BY <1>3, RunsAssumption DEF EntriesKept
<1>7. \A r \in Runs : Standing(r)'
    <2>1. /\ pc[q] \in Unbooked
          /\ (IF pc[q] = "noting" THEN "idle" ELSE "simulated") \in Unbooked
        BY <1>2 DEF Unbooked
    <2> QED
        BY <1>2, <1>6, <2>1, UnbookedStep
<1> QED
    BY <1>5, <1>7 DEF RingInv

\* A step of run r leaves the others standing.
LEMMA OthersStand ==
    ASSUME LedgerInv, LedgerInv', RingInv, NEW r \in Runs, NEW to,
           pc' = [pc EXCEPT ![r] = to], faults' = faults, aged' = aged,
           \A q \in Runs \ {r} : actual'[q] = actual[q] /\ RowsKept(q) /\ EntriesKept(q)
    PROVE  \A q \in Runs \ {r} : Standing(q)'
<1> SUFFICES ASSUME NEW q \in Runs, q # r PROVE Standing(q)'
    OBVIOUS
<1>1. Shape /\ Shape' /\ RingShape /\ Standing(q)
    BY DEF LedgerInv, RingInv
<1>2. pc'[q] = pc[q] /\ aged' \in Nat /\ aged' >= aged
    BY <1>1 DEF Shape, RingShape
<1> QED
    BY <1>1, <1>2, StandingElsewhere

\* The ring takes the charge of a run that has its row.
LEMMA RingChargeStep ==
    ASSUME LedgerInv, LedgerInv', RingInv, NEW r \in Runs, RingCharge(r)
    PROVE  RingInv'
<1>1. Shape /\ RingShape /\ Standing(r) /\ LiveRunsAreCharged
    BY DEF RingInv, LedgerInv
<1>2. /\ pc[r] = "charged" /\ pc' = [pc EXCEPT ![r] = "live"] /\ ring' = Pushed(r, Est[r])
      /\ UNCHANGED <<log, aged, storage, faults, handle, store, actual>>
    BY DEF RingCharge, Goto, table, weather, locals
<1>3. /\ ring' \in Seq(RingEntry)
      /\ \A i \in DOMAIN ring' : \/ ring'[i] = [run |-> r, amount |-> Est[r]]
                                 \/ \E k \in DOMAIN ring : ring[k] = ring'[i]
    BY <1>1, <1>2, EstAssumption, PushedEntries DEF RingShape
<1>4. RingShape' /\ SoundUntilFault'
    BY <1>1, <1>2, <1>3 DEF RingInv, RingShape, SoundUntilFault
<1>5. \A q \in Runs \ {r} : Standing(q)'
    <2>1. \A q \in Runs \ {r} : actual'[q] = actual[q] /\ RowsKept(q) /\ EntriesKept(q)
        BY <1>2, <1>3 DEF RowsKept, EntriesKept
    <2> QED
        BY <1>2, <2>1, OthersStand
<1>6. Standing(r)'
    <2>1. pc'[r] = "live"
        BY <1>1, <1>2 DEF Shape, Requests
    <2>2. \A i \in DOMAIN log : log[i].run = r => log[i].kind = "charge"
        BY <1>1, <1>2 DEF Standing
    <2>3. HasRow(r, "charge") /\ ~HasRow(r, "void")
        BY <1>1, <1>2, <2>2 DEF LiveRunsAreCharged, HasRow
    <2> QED
        BY <1>2, <2>1, <2>2, <2>3 DEF Standing, Unbooked, HasRow
<1> QED
    BY <1>4, <1>5, <1>6 DEF RingInv

\* What a write for r does to the ledger, the handles and the other runs' rows.
LEMMA WriteForRun ==
    ASSUME LedgerInv, RingInv, NEW r \in Runs, NEW h \in Handles, NEW metered \in BOOLEAN,
           NEW row \in RowType, row.run = r, Append1(h, row, metered)
    PROVE  /\ Len(log) \in Nat /\ Len(log') \in Nat /\ Len(log') >= Len(log)
           /\ DOMAIN log = 1 .. Len(log) /\ DOMAIN log' = 1 .. Len(log')
           /\ \A i \in 1 .. Len(log) : log'[i] = log[i]
           /\ \A i \in (Len(log) + 1) .. Len(log') : log'[i] = row
           /\ \A q \in Runs \ {r} : RowsKept(q)
           /\ HasRow(r, "charge") => HasRow(r, "charge")'
<1>1. Shape /\ RingShape /\ log \in Seq(RowType)
    BY DEF LedgerInv, RingInv, Shape
<1>2. log' \in Seq(RowType)
    BY <1>1, WriteAppends
<1>3. /\ Len(log') >= Len(log)
      /\ \A i \in 1 .. Len(log) : log'[i] = log[i]
      /\ \A i \in (Len(log) + 1) .. Len(log') : log'[i] = row
    BY <1>1, WriteAppends
<1>4. /\ Len(log) \in Nat /\ Len(log') \in Nat
      /\ DOMAIN log = 1 .. Len(log) /\ DOMAIN log' = 1 .. Len(log')
    BY <1>1, <1>2, LenProperties
<1>5. ASSUME NEW q \in Runs, q # r PROVE RowsKept(q)
    BY <1>3, <1>4, <1>5 DEF RowsKept
<1>6. HasRow(r, "charge") => HasRow(r, "charge")'
    BY <1>3, <1>4 DEF HasRow
<1> QED
    BY <1>3, <1>4, <1>5, <1>6

\* The measured cost is written, or there is no charge left to correct.
LEMMA ReconcileStep ==
    ASSUME LedgerInv, LedgerInv', RingInv, NEW r \in Runs, Reconcile(r)
    PROVE  RingInv'
<1>1. Shape /\ RingShape /\ SoundUntilFault /\ Standing(r) /\ pc[r] = "live"
    BY DEF RingInv, LedgerInv, Reconcile
<1>2. UNCHANGED <<aged, storage, faults, store, ring>>
    BY DEF Reconcile, weather
<1>3. \A i \in DOMAIN log : log[i].run = r => log[i].kind = "charge"
    BY <1>1 DEF Standing
<1>4. CASE store # NoHandle /\ MayReconcile(r)
    <2>1. PICK cost \in Measured : /\ Append1(store, Row("reconciled", r, cost, store), TRUE)
                                   /\ actual' = [actual EXCEPT ![r] = cost]
        BY <1>4 DEF Reconcile
    <2> DEFINE row == Row("reconciled", r, cost, store)
    <2>2. /\ store \in Handles /\ row \in RowType
          /\ row.run = r /\ row.kind = "reconciled" /\ row.amount = cost /\ cost \in Nat
        BY <1>1, <1>4, EstAssumption DEF Shape, Row, RowType
    <2>3. Append1(store, row, TRUE)
        BY <2>1
    <2> HIDE DEF row
    <2>4. /\ Len(log) \in Nat /\ Len(log') \in Nat /\ Len(log') >= Len(log)
          /\ DOMAIN log = 1 .. Len(log) /\ DOMAIN log' = 1 .. Len(log')
          /\ \A i \in 1 .. Len(log) : log'[i] = log[i]
          /\ \A i \in (Len(log) + 1) .. Len(log') : log'[i] = row
        <3>1. store \in Handles /\ row \in RowType /\ row.run = r
            BY <2>2
        <3>2. Len(log) \in Nat /\ Len(log') \in Nat /\ Len(log') >= Len(log)
            BY <2>3, <3>1, WriteForRun
        <3>3. DOMAIN log = 1 .. Len(log) /\ DOMAIN log' = 1 .. Len(log')
            BY <2>3, <3>1, WriteForRun
        <3>4. /\ \A i \in 1 .. Len(log) : log'[i] = log[i]
              /\ \A i \in (Len(log) + 1) .. Len(log') : log'[i] = row
            BY <2>3, <3>1, WriteForRun
        <3> QED
            BY <3>2, <3>3, <3>4
    <2>a. \A q \in Runs \ {r} : RowsKept(q)
        BY <2>2, <2>3, WriteForRun
    <2>b. HasRow(r, "charge") => HasRow(r, "charge")'
        BY <2>2, <2>3, WriteForRun
    <2>5. pc' = [pc EXCEPT ![r] = "measured"] /\ pc'[r] = "measured" /\ actual'[r] = cost
        BY <1>1, <1>4, <2>1 DEF Reconcile, Goto, Shape, RingShape, Requests
    <2>6. RingShape' /\ SoundUntilFault'
        <3>1. /\ handle' \in [Handles -> [health : {"unverified", "ok", "failing"},
                                          tainted : BOOLEAN, readOnly : BOOLEAN]]
              /\ \A x \in Handles : handle'[x].readOnly = handle[x].readOnly
            BY <1>1, <2>2, <2>3, HandlesAfterWrite DEF Append1
        <3>2. actual' \in [Runs -> Nat]
            BY <1>1, <2>1, <2>2 DEF RingShape
        <3> QED
            BY <1>1, <1>2, <3>1, <3>2 DEF RingShape, SoundUntilFault
    <2>7. \A q \in Runs \ {r} : Standing(q)'
        <3>1. \A q \in Runs \ {r} : actual'[q] = actual[q]
            BY <1>1, <2>1 DEF RingShape
        <3>2. \A q \in Runs \ {r} : EntriesKept(q)
            BY <1>2 DEF EntriesKept
        <3> QED
            BY <1>2, <2>a, <2>5, <3>1, <3>2, OthersStand
    <2>8. ~HasRow(r, "void")'
        BY <1>3, <2>2, <2>4 DEF HasRow
    <2>9. InRing(r)' => HasRow(r, "charge")'
        BY <1>1, <1>2, <2>b DEF Standing, InRing
    <2>10. (faults = 0 => Corrected(r))'
        <3> SUFFICES ASSUME faults = 0 PROVE Corrected(r)'
            BY <1>2
        <3>1. Len(log') = Len(log) + 1
            <4>1. Lands(store)
                BY <1>1, <2>2 DEF SoundUntilFault, Lands
            <4> QED
                BY <1>1, <2>2, <2>3, <4>1, WriteAppends DEF Shape
        <3> DEFINE j == Len(log')
        <3>2. j \in DOMAIN log' /\ log'[j] = row
            BY <2>4, <3>1
        <3>3. \A i \in DOMAIN log' : log'[i].run = r => i = j \/ (i < j /\ log'[i].kind = "charge")
            BY <1>3, <2>4, <3>1
        <3> QED
            BY <2>2, <2>5, <3>2, <3>3 DEF Corrected
    <2>11. Standing(r)'
        BY <2>5, <2>8, <2>9, <2>10 DEF Standing, Unbooked
    <2> QED
        BY <2>6, <2>7, <2>11 DEF RingInv
<1>5. CASE ~(store # NoHandle /\ MayReconcile(r))
    <2>1. /\ pc' = [pc EXCEPT ![r] = "settled"] /\ UNCHANGED <<log, handle, actual>>
          /\ pc'[r] = "settled"
        BY <1>1, <1>5 DEF Reconcile, Goto, Shape, Requests
    <2>2. RingShape' /\ SoundUntilFault'
        BY <1>1, <1>2, <2>1 DEF RingShape, SoundUntilFault
    <2>3. \A q \in Runs \ {r} : Standing(q)'
        <3>1. \A q \in Runs \ {r} : actual'[q] = actual[q] /\ RowsKept(q) /\ EntriesKept(q)
            BY <1>2, <2>1 DEF EntriesKept, RowsKept
        <3> QED
            BY <1>2, <2>1, <3>1, OthersStand
    <2>4. Standing(r)'
        <3>1. faults = 0 => RowsOf(r, {"charge"}) = {}
            <4>1. RowsOf(r, {"reconciled", "void"}) = {}
                <5>1. InWindow \subseteq DOMAIN log
                    BY <1>1 DEF InWindow, Shape, RingShape
                <5> QED
                    BY <1>3, <5>1 DEF RowsOf
            <4> QED
                BY <1>1, <1>5, <4>1 DEF SoundUntilFault, MayReconcile
        <3>2. RowsOf(r, {"charge"})' = RowsOf(r, {"charge"})
            BY <1>2, <2>1 DEF RowsOf, InWindow
        <3> QED
            BY <1>1, <1>2, <2>1, <3>1, <3>2 DEF Standing, Unbooked, InRing, HasRow
    <2> QED
        BY <2>2, <2>3, <2>4 DEF RingInv
<1> QED
    BY <1>4, <1>5

\* The ring's entry of a measured run takes the measured cost.
LEMMA RingReconcileStep ==
    ASSUME LedgerInv, LedgerInv', RingInv, NEW r \in Runs, RingReconcile(r)
    PROVE  RingInv'
<1>1. Shape /\ RingShape /\ Standing(r) /\ pc[r] = "measured"
    BY DEF RingInv, LedgerInv, RingReconcile
<1>2. /\ pc' = [pc EXCEPT ![r] = "settled"] /\ pc'[r] = "settled"
      /\ UNCHANGED <<log, aged, storage, faults, handle, store, actual>>
    BY <1>1 DEF RingReconcile, Goto, table, weather, locals, Shape, Requests
<1>3. /\ DOMAIN ring' = DOMAIN ring
      /\ \A i \in DOMAIN ring : /\ ring[i].run # r => ring'[i] = ring[i]
                                /\ ring[i].run = r => ring'[i] = [run |-> r, amount |-> actual[r]]
    <2>1. \A i \in DOMAIN ring : ring[i] \in RingEntry
        BY <1>1, ElementOfSeq, LenProperties DEF RingShape
    <2> QED
        BY <2>1 DEF RingReconcile, RingEntry
<1>4. ring' \in Seq(RingEntry)
    <2>1. DOMAIN ring = 1 .. Len(ring) /\ Len(ring) \in Nat
        BY <1>1, LenProperties DEF RingShape
    <2>2. ASSUME NEW i \in 1 .. Len(ring) PROVE ring'[i] \in RingEntry
        <3>1. ring[i] \in RingEntry
            BY <1>1, ElementOfSeq DEF RingShape
        <3>2. actual[r] \in Nat
            BY <1>1 DEF RingShape
        <3> QED
            BY <1>3, <2>1, <3>1, <3>2 DEF RingEntry
    <2>3. ring' = [i \in 1 .. Len(ring) |-> ring'[i]]
        BY <2>1 DEF RingReconcile
    <2> QED
        BY <2>1, <2>2, <2>3
<1>5. RingShape' /\ SoundUntilFault'
    BY <1>1, <1>2, <1>4 DEF RingInv, RingShape, SoundUntilFault
<1>6. \A q \in Runs \ {r} : Standing(q)'
    <2>1. \A q \in Runs \ {r} : actual'[q] = actual[q] /\ RowsKept(q) /\ EntriesKept(q)
        BY <1>2, <1>3 DEF EntriesKept, RowsKept
    <2> QED
        BY <1>2, <2>1, OthersStand
<1>7. Standing(r)'
    <2>1. InRing(r)' => InRing(r)
        BY <1>3 DEF InRing
    <2>2. \A i \in DOMAIN ring' : ring'[i].run = r => ring'[i].amount = actual[r]
        BY <1>3
    <2>3. Corrected(r)' <=> Corrected(r)
        BY <1>2 DEF Corrected
    <2> QED
        BY <1>1, <1>2, <2>1, <2>2, <2>3 DEF Standing, Unbooked, HasRow
<1> QED
    BY <1>5, <1>6, <1>7 DEF RingInv

\* The ring's entry of a run that never started is dropped ...
LEMMA RingDiscardStep ==
    ASSUME LedgerInv, LedgerInv', RingInv, NEW r \in Runs, RingDiscard(r)
    PROVE  RingInv'
<1>1. Shape /\ RingShape /\ Standing(r) /\ pc[r] = "live"
    BY DEF RingInv, LedgerInv, RingDiscard
<1>2. /\ pc' = [pc EXCEPT ![r] = "voiding"] /\ pc'[r] = "voiding"
      /\ UNCHANGED <<log, aged, storage, faults, handle, store, actual>>
    BY <1>1 DEF RingDiscard, Goto, table, weather, locals, Shape, Requests
<1>3. /\ ring' \in Seq(RingEntry)
      /\ \A i \in DOMAIN ring' : \E k \in {m \in DOMAIN ring : ring[m].run # r} : ring'[i] = ring[k]
    <2>1. ring \in Seq(RingEntry) /\ {m \in DOMAIN ring : ring[m].run # r} \in SUBSET DOMAIN ring
        BY <1>1 DEF RingShape
    <2>2. ring' \in Kept(ring, {m \in DOMAIN ring : ring[m].run # r})
        BY DEF RingDiscard
    <2> QED
        BY <2>1, <2>2, KeptEntries
<1>4. RingShape' /\ SoundUntilFault'
    BY <1>1, <1>2, <1>3 DEF RingInv, RingShape, SoundUntilFault
<1>5. \A q \in Runs \ {r} : Standing(q)'
    <2>1. \A q \in Runs \ {r} : actual'[q] = actual[q] /\ RowsKept(q) /\ EntriesKept(q)
        BY <1>2, <1>3 DEF EntriesKept, RowsKept
    <2> QED
        BY <1>2, <2>1, OthersStand
<1>6. Standing(r)'
    <2>1. ~InRing(r)'
        BY <1>3 DEF InRing
    <2>2. \A i \in DOMAIN log : log[i].run = r => log[i].kind = "charge"
        BY <1>1 DEF Standing
    <2> QED
        BY <1>2, <2>1, <2>2 DEF Standing, Unbooked
<1> QED
    BY <1>4, <1>5, <1>6 DEF RingInv

\* ... before its charge is cancelled on the ledger.
LEMMA VoidStep ==
    ASSUME LedgerInv, LedgerInv', RingInv, NEW r \in Runs, VoidCharge(r)
    PROVE  RingInv'
<1>1. Shape /\ RingShape /\ SoundUntilFault /\ Standing(r) /\ pc[r] = "voiding"
    BY DEF RingInv, LedgerInv, VoidCharge
<1>2. /\ pc' = [pc EXCEPT ![r] = "settled"] /\ pc'[r] = "settled"
      /\ UNCHANGED <<aged, storage, faults, store, ring, actual>>
    BY <1>1 DEF VoidCharge, Goto, weather, locals, Shape, Requests
<1>3. Standing(r)'
    BY <1>1, <1>2 DEF Standing, Unbooked, InRing
<1>4. \A q \in Runs \ {r} : EntriesKept(q)
    BY <1>2 DEF EntriesKept
<1>5. CASE store = NoHandle
    <2>1. UNCHANGED <<log, handle>>
        BY <1>5 DEF VoidCharge
    <2>2. RingShape' /\ SoundUntilFault'
        BY <1>1, <1>2, <2>1 DEF RingShape, SoundUntilFault
    <2>3. \A q \in Runs \ {r} : actual'[q] = actual[q] /\ RowsKept(q)
        BY <1>2, <2>1 DEF RowsKept
    <2>4. \A q \in Runs \ {r} : Standing(q)'
        BY <1>2, <1>4, <2>3, OthersStand
    <2> QED
        BY <1>3, <2>2, <2>4 DEF RingInv
<1>6. CASE store # NoHandle
    <2> DEFINE row == Row("void", r, 0, store)
    <2>1. Append1(store, row, FALSE)
        BY <1>6 DEF VoidCharge
    <2>2. store \in Handles /\ row \in RowType /\ row.run = r
        BY <1>1, <1>6 DEF Shape, Row, RowType
    <2> HIDE DEF row
    <2>3. \A q \in Runs \ {r} : RowsKept(q)
        BY <2>1, <2>2, WriteForRun
    <2>4. RingShape' /\ SoundUntilFault'
        BY <1>1, <1>2, <2>1, <2>2, HandlesAfterWrite DEF RingShape, SoundUntilFault, Append1
    <2>5. \A q \in Runs \ {r} : actual'[q] = actual[q]
        BY <1>2
    <2>6. \A q \in Runs \ {r} : Standing(q)'
        BY <1>2, <1>4, <2>3, <2>5, OthersStand
    <2> QED
        BY <1>3, <2>4, <2>6 DEF RingInv
<1> QED
    BY <1>5, <1>6

\* What happens around the requests: healing, the storage, the passing of time.
LEMMA AroundStep ==
    ASSUME LedgerInv, LedgerInv', RingInv,
           Heal \/ StorageBreaks \/ StorageRepaired \/ RowAges \/ UNCHANGED vars
    PROVE  RingInv'
<1>1. Shape /\ Shape' /\ RingShape /\ SoundUntilFault /\ aged \in Nat /\ faults \in Nat
    BY DEF RingInv, RingShape, LedgerInv
<1>2. UNCHANGED <<log, pc, ring, actual>>
    BY DEF Heal, ReopenSwaps, ReopenFails, ReopenReports, CooldownEnds, StorageBreaks,
        StorageRepaired, RowAges, vars, table, locals
<1>3. /\ aged' = aged \/ aged' = aged + 1
      /\ faults' = faults \/ faults' = faults + 1
    BY DEF Heal, ReopenSwaps, ReopenFails, ReopenReports, CooldownEnds, StorageBreaks,
        StorageRepaired, RowAges, vars, table, weather
<1>4. aged' \in Nat /\ aged' >= aged /\ faults' \in Nat /\ (faults' = 0 => faults = 0)
    BY <1>1, <1>3
<1>5. RingShape' /\ SoundUntilFault'
    <2>1. CASE ReopenSwaps
        <3>1. PICK h \in Handles : /\ handle' = [handle EXCEPT ![h] = FreshHandle(storage = "down")]
                                   /\ store' = h
            BY <2>1 DEF ReopenSwaps
        <3>2. UNCHANGED <<storage, faults>>
            BY <2>1 DEF ReopenSwaps, weather
        <3>3. /\ FreshHandle(storage = "down") \in
                     [health : {"unverified", "ok", "failing"}, tainted : BOOLEAN, readOnly : BOOLEAN]
              /\ FreshHandle(storage = "down").readOnly = (storage = "down")
            BY DEF FreshHandle
        <3>4. RingShape'
            BY <1>1, <1>2, <1>4, <3>1, <3>3 DEF RingShape
        <3>5. SoundUntilFault'
            <4> SUFFICES ASSUME faults = 0
                         PROVE  /\ storage = "up" /\ store' # NoHandle
                                /\ \A x \in Handles : ~handle'[x].readOnly
                BY <3>2 DEF SoundUntilFault
            <4>1. storage = "up" /\ store' # NoHandle
                BY <1>1, <3>1, RunsAssumption DEF SoundUntilFault
            <4>2. \A x \in Handles : handle'[x] = IF x = h THEN FreshHandle(storage = "down")
                                                  ELSE handle[x]
                BY <1>1, <3>1 DEF RingShape
            <4>3. ~FreshHandle(storage = "down").readOnly
                BY <3>3, <4>1
            <4> QED
                BY <1>1, <4>1, <4>2, <4>3 DEF SoundUntilFault
        <3> QED
            BY <3>4, <3>5
    <2>2. CASE ~ReopenSwaps
        <3>1. handle' = handle /\ store' = store
            BY <2>2 DEF Heal, ReopenFails, ReopenReports, CooldownEnds, StorageBreaks,
                StorageRepaired, RowAges, vars
        <3>2. storage' = storage \/ storage' = "up" \/ (storage' = "down" /\ faults' = faults + 1)
            BY <2>2 DEF Heal, ReopenFails, ReopenReports, CooldownEnds, StorageBreaks,
                StorageRepaired, RowAges, vars, weather
        <3>3. RingShape'
            BY <1>1, <1>2, <1>4, <3>1 DEF RingShape
        <3>4. faults' = 0 => storage' = "up"
            BY <1>1, <1>4, <3>2 DEF SoundUntilFault
        <3> QED
            BY <1>1, <1>4, <3>1, <3>3, <3>4 DEF SoundUntilFault
    <2> QED
        BY <2>1, <2>2
<1>6. ASSUME NEW r \in Runs PROVE Standing(r)'
    <2>1. RowsKept(r) /\ EntriesKept(r) /\ pc'[r] = pc[r] /\ actual'[r] = actual[r]
        BY <1>2 DEF RowsKept, EntriesKept
    <2>2. Standing(r)
        BY DEF RingInv
    <2> QED
        BY <1>1, <1>4, <2>1, <2>2, StandingElsewhere
<1> QED
    BY <1>5, <1>6 DEF RingInv

\* A new process has an empty ring, and no run of it is on the ledger.
LEMMA RestartStep ==
    ASSUME LedgerInv, LedgerInv', RingInv, Restart
    PROVE  RingInv'
<1>1. Shape /\ Shape' /\ RingShape /\ SoundUntilFault
    BY DEF RingInv, LedgerInv
<1>2. /\ ring' = <<>> /\ UNCHANGED <<log, aged, storage, faults, actual>>
      /\ pc' = [q \in Requests |->
                  IF q \in Runs /\ pc[q] \notin {"idle", "estimating", "noting", "admitted", "charging"}
                  THEN "settled" ELSE "idle"]
    BY DEF Restart, table
<1>3. PICK h \in Handles : /\ handle' = [handle EXCEPT ![h] = FreshHandle(storage = "down")]
                           /\ store' = h \/ (storage = "down" /\ store' = NoHandle)
    BY DEF Restart
<1>4. /\ FreshHandle(storage = "down") \in
             [health : {"unverified", "ok", "failing"}, tainted : BOOLEAN, readOnly : BOOLEAN]
      /\ FreshHandle(storage = "down").readOnly = (storage = "down")
    BY DEF FreshHandle
<1>5. RingShape'
    <2>1. ring' \in Seq(RingEntry)
        BY <1>2, EmptySeq
    <2> QED
        BY <1>1, <1>2, <1>3, <1>4, <2>1 DEF RingShape
<1>6. SoundUntilFault'
    <2> SUFFICES ASSUME faults = 0
                 PROVE  /\ storage = "up" /\ store' # NoHandle
                        /\ \A x \in Handles : ~handle'[x].readOnly
        BY <1>2 DEF SoundUntilFault
    <2>1. storage = "up" /\ store' # NoHandle
        BY <1>1, <1>3, RunsAssumption DEF SoundUntilFault
    <2>2. \A x \in Handles : handle'[x] = IF x = h THEN FreshHandle(storage = "down")
                                          ELSE handle[x]
        BY <1>1, <1>3 DEF RingShape
    <2>3. ~FreshHandle(storage = "down").readOnly
        BY <1>4, <2>1
    <2> QED
        BY <1>1, <2>1, <2>2, <2>3 DEF SoundUntilFault
<1>7. ASSUME NEW r \in Runs PROVE Standing(r)'
    <2>1. ~InRing(r)'
        BY <1>2 DEF InRing
    <2>2. CASE pc'[r] = "settled"
        BY <2>1, <2>2 DEF Standing, Unbooked
    <2>3. CASE pc'[r] = "idle" /\ pc[r] \in Unbooked
        <3>1. \A i \in DOMAIN log' : log'[i].run # r
            BY <1>2, <2>3 DEF RingInv, Standing
        <3> QED
            BY <2>1, <2>3, <3>1 DEF Standing
    <2> QED
        BY <1>2, <2>2, <2>3 DEF Unbooked, Requests
<1> QED
    BY <1>5, <1>6, <1>7 DEF RingInv

\* RingInv is inductive: how far the ring is behind the ledger, run by run.
THEOREM RingInvariant == Spec => []RingInv
<1>1. Init => RingInv
    <2> SUFFICES ASSUME Init PROVE RingInv
        OBVIOUS
    <2>1. /\ log = <<>> /\ ring = <<>> /\ aged = 0 /\ storage = "up" /\ faults = 0
          /\ store \in Handles /\ handle = [x \in Handles |-> FreshHandle(FALSE)]
          /\ pc = [q \in Requests |-> "idle"] /\ actual = [r \in Runs |-> 0]
        BY DEF Init
    <2>2. RingShape
        <3>1. ring \in Seq(RingEntry)
            BY <2>1, EmptySeq
        <3> QED
            BY <2>1, <3>1 DEF RingShape, FreshHandle
    <2>3. SoundUntilFault
        BY <2>1, RunsAssumption DEF SoundUntilFault, FreshHandle
    <2>4. \A r \in Runs : Standing(r)
        BY <2>1 DEF Standing, InRing, Requests
    <2> QED
        BY <2>2, <2>3, <2>4 DEF RingInv
<1>2. LedgerInv /\ LedgerInv' /\ RingInv /\ [Next]_vars => RingInv'
    <2> SUFFICES ASSUME LedgerInv, LedgerInv', RingInv, [Next]_vars PROVE RingInv'
        OBVIOUS
    <2>1. ASSUME NEW q \in Requests, Request(q) PROVE RingInv'
        BY <2>1, EstimateStep, NoteStep DEF Request
    <2>2. ASSUME NEW r \in Runs, Run(r) PROVE RingInv'
        <3>1. CASE Admit(r) \/ FetchStore(r) \/ CheckRails(r)
            BY <3>1, EstimateStep DEF Requests
        <3>2. CASE InsertCharge(r) \/ RingCharge(r)
            BY <3>2, InsertStep, RingChargeStep
        <3>3. CASE Reconcile(r) \/ RingReconcile(r)
            BY <3>3, ReconcileStep, RingReconcileStep
        <3>4. CASE RingDiscard(r) \/ VoidCharge(r)
            BY <3>4, RingDiscardStep, VoidStep
        <3> QED
            BY <2>2, <3>1, <3>2, <3>3, <3>4 DEF Run
    <2> QED
        BY <2>1, <2>2, AroundStep, RestartStep DEF Next
<1> QED
    BY <1>1, <1>2, LedgerInvariant, PTL DEF Spec

\* RingFollowsLedger: under every interleaving, fault and restart an entry of
\* the ring has its charge row and no void row; and a settled run counts the
\* same on both meters as long as no write is lost.
THEOREM RingFollows == Spec => []RingFollowsLedger
<1>1. LedgerInv /\ RingInv => RingFollowsLedger
    <2> SUFFICES ASSUME LedgerInv, RingInv PROVE RingFollowsLedger
        OBVIOUS
    <2>1. Shape /\ RingShape /\ \A r \in Runs : Standing(r)
        BY DEF LedgerInv, RingInv
    <2>2. RingIsBooked
        BY <2>1 DEF RingIsBooked, Standing, InRing
    <2>3. ASSUME faults = 0, NEW i \in DOMAIN ring, ring[i].run \in Runs,
                 pc[ring[i].run] = "settled", RowsOf(ring[i].run, {"charge"}) # {}
          PROVE  ring[i].amount = RunSpend(ring[i].run)
        <3> DEFINE r == ring[i].run
                   corrections == RowsOf(r, {"reconciled", "void"})
        <3>1. InRing(r) /\ Standing(r)
            BY <2>1, <2>3 DEF InRing
        <3>2. Corrected(r) /\ ring[i].amount = actual[r]
            BY <2>3, <3>1 DEF Standing
        <3>3. PICK j \in DOMAIN log :
                 /\ log[j].run = r /\ log[j].kind = "reconciled" /\ log[j].amount = actual[r]
                 /\ \A k \in DOMAIN log : log[k].run = r => k = j \/ (k < j /\ log[k].kind = "charge")
            BY <3>2 DEF Corrected
        <3>4. DOMAIN log = 1 .. Len(log) /\ Len(log) \in Nat /\ aged \in Nat
            BY <2>1, LenProperties DEF Shape, RingShape
        <3>5. InWindow \subseteq DOMAIN log
            BY <3>4 DEF InWindow
        <3>6. PICK c \in InWindow : log[c].run = r /\ log[c].kind = "charge"
            BY <2>3 DEF RowsOf
        <3>7. j \in InWindow
            BY <3>3, <3>4, <3>5, <3>6 DEF InWindow
        <3>8. corrections = {j}
            BY <3>3, <3>5, <3>7 DEF RowsOf
        <3>9. Max({j}) = j
            BY <3>4 DEF Max
        <3>10. RunSpend(r) = log[Max(corrections)].amount
            BY <2>3, <3>8 DEF RunSpend
        <3> QED
            BY <3>2, <3>3, <3>8, <3>9, <3>10
    <2>4. faults = 0 => RailsAgree
        BY <2>3 DEF RailsAgree
    <2> QED
        BY <2>2, <2>4 DEF RingFollowsLedger
<1> QED
    BY <1>1, LedgerInvariant, RingInvariant, PTL
=============================================================================
