--------------------------- MODULE AccountHistory ---------------------------
(***************************************************************************)
(* A finished run's place in a signed-in account's history, while people   *)
(* sign in and delete accounts (account_history.py, account_deletion.py,   *)
(* the sign-in callback of google_signin.py, the persist step of           *)
(* query_run_orchestration.py).                                            *)
(*                                                                         *)
(* Runs finish on worker threads.  A sign-in may turn the anonymous        *)
(* session that started them into an account while they run; a deletion    *)
(* may take the account away while they run, or while the sign-in that     *)
(* carries runs into it is still under way.  Each step below is one call   *)
(* of a store or of a locked registry.                                     *)
(***************************************************************************)
EXTENDS Integers, FiniteSets

CONSTANTS
    Runs,
    Anonymous,      \* account ids of anonymous sessions, one session each
    SignIns,        \* sign-in callbacks; each one names the session it issues
    Deletions,      \* calls of delete_account
    Accounts,       \* the random ids upsert_google_account may draw
    Subjects,       \* Google identities
    Nobody,         \* None
    KeepCount,      \* settings.history_keep_count
    MaxRecorders    \* bound: pipelines and cancels that record a run

ASSUME IdsAssumption ==
    /\ Anonymous \cap Accounts = {} /\ Anonymous \cap SignIns = {}
    /\ Nobody \notin Anonymous \cup Accounts \cup SignIns
ASSUME KeepAssumption == KeepCount \in Nat \ {0}
ASSUME BoundsAssumption == MaxRecorders \in Nat

VARIABLES
    accountOf,      \* the accounts table: the account id of each Google subject
    drawn,          \* ids ever given to an account
    history,        \* the history table: the account a run is listed under
    metrics,        \* account_id of the run's row in the run-history store
    sessions,       \* live sessions
    signedOut,      \* _signed_out_ids: sessions somebody revoked
    deleting,       \* _deleting: how many deletions of an account are under way
    deleted,        \* _deleted_accounts
    carried,        \* _carried: the account an anonymous id's runs go to
    \* the runs
    runOf,          \* QueryRun.account_id
    endedAt,        \* the order in which runs became terminal; 0 while not
    worker,         \* the run's thread, and under "cancel" the cancelling request
    owner,          \* local of record_finished_run
    \* sign-in callbacks
    at, from, into, previous, todo,
    \* deletions
    dpc, victim

durable == <<accountOf, drawn, history, metrics>>
registry == <<sessions, signedOut, deleting, deleted, carried>>
running == <<runOf, endedAt>>
recorders == <<worker, owner>>
callbacks == <<at, from, into, previous, todo>>
deletions == <<dpc, victim>>
vars == <<durable, registry, running, recorders, callbacks, deletions>>

Sessions == Anonymous \cup SignIns
Ids == Anonymous \cup Accounts
Recorders == {"pipeline", "cancel"}

------------------------------------------------------------------------------
\* account_for: the account's row exists.
Exists(id) == \E s \in Subjects : accountOf[s] = id

\* The account id a session acts for.
Holder(s) == IF s \in Anonymous THEN s ELSE into[s]

\* account_is_going
IsGoing(id) == id \in Accounts /\ (deleting[id] > 0 \/ id \in deleted)

Terminal(r) == endedAt[r] > 0

NextEnd == Cardinality({ r \in Runs : Terminal(r) }) + 1

\* The rows of an account are trimmed to the newest KeepCount after a write.
Listed(h, id, r) ==
    h[r] # id \/ Cardinality({ q \in Runs : h[q] = id /\ endedAt[q] > endedAt[r] }) < KeepCount

Trim(h, id) == [r \in Runs |-> IF Listed(h, id, r) THEN h[r] ELSE Nobody]

\* SessionStore.record_history, one transaction: only while the account has its
\* row, and never over a row another account owns.
RecordHistory(r, id) ==
    LET h == IF Exists(id) /\ history[r] = Nobody THEN [history EXCEPT ![r] = id] ELSE history
    IN history' = Trim(h, id)

------------------------------------------------------------------------------
Init ==
    /\ accountOf = [s \in Subjects |-> Nobody] /\ drawn = {}
    /\ history = [r \in Runs |-> Nobody] /\ metrics = [r \in Runs |-> Nobody]
    /\ sessions = Anonymous /\ signedOut = {}
    /\ deleting = [g \in Accounts |-> 0] /\ deleted = {}
    /\ carried = [a \in Ids |-> Nobody]
    /\ runOf = [r \in Runs |-> Nobody] /\ endedAt = [r \in Runs |-> 0]
    /\ worker = [r \in Runs |-> [c \in Recorders |-> "none"]]
    /\ owner = [r \in Runs |-> [c \in Recorders |-> Nobody]]
    /\ at = [p \in SignIns |-> "idle"]
    /\ from = [p \in SignIns |-> Nobody] /\ into = [p \in SignIns |-> Nobody]
    /\ previous = [p \in SignIns |-> Nobody] /\ todo = [p \in SignIns |-> {}]
    /\ dpc = [d \in Deletions |-> "idle"] /\ victim = [d \in Deletions |-> Nobody]

------------------------------------------------------------------------------
(* Runs and the two recorders of a finished run.                           *)

Step(r, c, label) == worker' = [worker EXCEPT ![r][c] = label]

MayRecord ==
    Cardinality({ x \in Runs \X Recorders : worker[x[1]][x[2]] # "none" }) < MaxRecorders

\* The create request resolved its session and its spend key.
AskForRun(r, s) ==
    /\ runOf[r] = Nobody /\ MayRecord
    /\ s \in sessions /\ ~IsGoing(Holder(s))
    /\ runOf' = [runOf EXCEPT ![r] = Holder(s)]
    /\ Step(r, "pipeline", "asked")
    /\ UNCHANGED <<durable, registry, endedAt, owner, callbacks, deletions>>

\* get_active_for_account
Active(q) == worker[q]["pipeline"] = "running" /\ ~Terminal(q)

\* It creates the run and starts its thread, whatever happened to the session,
\* unless the account has an active run.
StartRun(r) ==
    /\ worker[r]["pipeline"] = "asked"
    /\ IF \E q \in Runs : runOf[q] = runOf[r] /\ Active(q)
       THEN Step(r, "pipeline", "none") /\ runOf' = [runOf EXCEPT ![r] = Nobody]
       ELSE Step(r, "pipeline", "running") /\ UNCHANGED runOf
    /\ UNCHANGED <<durable, registry, endedAt, owner, callbacks, deletions>>

\* The pipeline ends the run, or finds that a cancel did, and goes on to persist it.
FinishRun(r) ==
    /\ worker[r]["pipeline"] = "running"
    /\ endedAt' = IF Terminal(r) THEN endedAt ELSE [endedAt EXCEPT ![r] = NextEnd]
    /\ Step(r, "pipeline", "metrics")
    /\ UNCHANGED <<durable, registry, runOf, owner, callbacks, deletions>>

\* cancel_query_run ends the run and records it at once.
CancelRun(r, s) ==
    /\ worker[r]["pipeline"] = "running" /\ ~Terminal(r)
    /\ s \in sessions /\ Holder(s) = runOf[r]
    /\ MayRecord
    /\ endedAt' = [endedAt EXCEPT ![r] = NextEnd]
    /\ Step(r, "cancel", "owner")
    /\ UNCHANGED <<durable, registry, runOf, owner, callbacks, deletions>>

\* The run's row in the run-history store.
WriteMetrics(r) ==
    /\ worker[r]["pipeline"] = "metrics"
    /\ metrics' = [metrics EXCEPT ![r] = runOf[r]]
    /\ Step(r, "pipeline", "mark")
    /\ UNCHANGED <<accountOf, drawn, history, registry, running, owner, callbacks, deletions>>

\* run_history_store.forget_account
Anonymised(id) == [r \in Runs |-> IF metrics[r] = id THEN Nobody ELSE metrics[r]]

\* Mutant: the mark is not looked at after the row was written.
SkipMark(r) ==
    /\ worker[r]["pipeline"] = "mark"
    /\ Step(r, "pipeline", "owner")
    /\ UNCHANGED <<durable, registry, running, owner, callbacks, deletions>>

\* A row written after the account was deleted loses the account.
CheckMark(r) ==
    /\ worker[r]["pipeline"] = "mark"
    /\ metrics' = IF runOf[r] \in deleted THEN Anonymised(runOf[r]) ELSE metrics
    /\ Step(r, "pipeline", "owner")
    /\ UNCHANGED <<accountOf, drawn, history, registry, running, owner, callbacks, deletions>>

\* _owner, the accounts table.
FindOwner(r, c) ==
    /\ worker[r][c] = "owner"
    /\ IF Exists(runOf[r])
       THEN owner' = [owner EXCEPT ![r][c] = runOf[r]] /\ Step(r, c, "write")
       ELSE UNCHANGED owner /\ Step(r, c, "link")
    /\ UNCHANGED <<durable, registry, running, callbacks, deletions>>

\* Mutant: a run that ends later than the sign-in does not look for the link.
FollowNoLink(r, c) ==
    /\ worker[r][c] = "link"
    /\ Step(r, c, "done")
    /\ UNCHANGED <<durable, registry, running, owner, callbacks, deletions>>

\* _owner, the carry-over link.
FollowLink(r, c) ==
    /\ worker[r][c] = "link"
    /\ IF carried[runOf[r]] = Nobody
       THEN Step(r, c, "done") /\ UNCHANGED owner
       ELSE owner' = [owner EXCEPT ![r][c] = carried[runOf[r]]] /\ Step(r, c, "write")
    /\ UNCHANGED <<durable, registry, running, callbacks, deletions>>

WriteHistory(r, c) ==
    /\ worker[r][c] = "write"
    /\ RecordHistory(r, owner[r][c])
    /\ Step(r, c, "done") /\ owner' = [owner EXCEPT ![r][c] = Nobody]
    /\ UNCHANGED <<accountOf, drawn, metrics, registry, running, callbacks, deletions>>

------------------------------------------------------------------------------
(* The sign-in callback.                                                   *)

Goto(p, label) == at' = [at EXCEPT ![p] = label]

\* The browser came back from Google with its session, and the account is
\* recorded (upsert_google_account): a new one draws a new random id.
StartSignIn(p, session, subject) ==
    /\ at[p] = "idle" /\ session \in sessions \ {p}
    /\ from' = [from EXCEPT ![p] = session]
    /\ \E g \in Accounts :
        /\ IF accountOf[subject] = Nobody THEN g \notin drawn ELSE g = accountOf[subject]
        /\ accountOf' = [accountOf EXCEPT ![subject] = g]
        /\ drawn' = drawn \cup {g}
        /\ into' = [into EXCEPT ![p] = g]
    /\ Goto(p, "previous")
    /\ UNCHANGED <<history, metrics, registry, running, recorders, previous, todo,
                   deletions>>

\* The account of the session being replaced, if it still resolves.
ReadPrevious(p) ==
    /\ at[p] = "previous"
    /\ previous' = [previous EXCEPT ![p] = IF from[p] \in sessions THEN Holder(from[p])
                                           ELSE Nobody]
    /\ Goto(p, "rotate")
    /\ UNCHANGED <<durable, registry, running, recorders, from, into, todo, deletions>>

\* issue_signed_in_session: refused for a session revoked meanwhile.
Rotate(p) ==
    /\ at[p] = "rotate"
    /\ IF from[p] \in signedOut
       THEN Goto(p, "failed") /\ UNCHANGED <<sessions, signedOut>>
       ELSE /\ sessions' = (sessions \ {from[p]}) \cup {p}
            /\ signedOut' = signedOut \cup {from[p]}
            /\ Goto(p, IF previous[p] \in {Nobody, into[p]} THEN "confirm" ELSE "anonymous?")
    /\ UNCHANGED <<durable, deleting, deleted, carried, running, recorders, from, into,
                   previous, todo, deletions>>

\* carry_over, first check: the old account has no row in the accounts table.
CheckAnonymous(p) ==
    /\ at[p] = "anonymous?"
    /\ Goto(p, IF Exists(previous[p]) THEN "confirm" ELSE "going?")
    /\ UNCHANGED <<durable, registry, running, recorders, from, into, previous, todo,
                   deletions>>

\* Mutant: no row in the table is taken for anonymous.
SkipGoing(p) ==
    /\ at[p] = "going?"
    /\ Goto(p, "link")
    /\ UNCHANGED <<durable, registry, running, recorders, from, into, previous, todo,
                   deletions>>

\* Second check: no row because it is being deleted is not anonymous.
CheckGoing(p) ==
    /\ at[p] = "going?"
    /\ Goto(p, IF IsGoing(previous[p]) THEN "confirm" ELSE "link")
    /\ UNCHANGED <<durable, registry, running, recorders, from, into, previous, todo,
                   deletions>>

\* Runs that end from now on find the link.
Link(p) ==
    /\ at[p] = "link"
    /\ carried' = [carried EXCEPT ![previous[p]] = into[p]]
    /\ Goto(p, "collect")
    /\ UNCHANGED <<durable, sessions, signedOut, deleting, deleted, running, recorders,
                   from, into, previous, todo, deletions>>

\* The rest of terminal_runs_for_account's runs, one write at a time.
CarryOn(p, rest) ==
    /\ todo' = [todo EXCEPT ![p] = rest]
    /\ Goto(p, IF rest = {} THEN "confirm" ELSE "carry")

\* terminal_runs_for_account
Collect(p) ==
    /\ at[p] = "collect"
    /\ CarryOn(p, { r \in Runs : runOf[r] = previous[p] /\ Terminal(r) })
    /\ UNCHANGED <<durable, registry, running, recorders, from, into, previous, deletions>>

CarryRun(p, r) ==
    /\ at[p] = "carry" /\ r \in todo[p]
    /\ RecordHistory(r, into[p])
    /\ CarryOn(p, todo[p] \ {r})
    /\ UNCHANGED <<accountOf, drawn, metrics, registry, running, recorders, from, into,
                   previous, deletions>>

\* The account may have been deleted while this sign-in ran: its session goes.
Confirm(p) ==
    /\ at[p] = "confirm"
    /\ IF Exists(into[p])
       THEN Goto(p, "done") /\ UNCHANGED <<sessions, signedOut>>
       ELSE /\ Goto(p, "forget")
            /\ sessions' = sessions \ {p} /\ signedOut' = signedOut \cup {p}
    /\ previous' = [previous EXCEPT ![p] = Nobody]
    /\ UNCHANGED <<durable, deleting, deleted, carried, running, recorders, from, into,
                   todo, deletions>>

\* account_history.forget_account: the links from and to the account.
Unlinked(id) == [a \in Ids |-> IF id \in {a, carried[a]} THEN Nobody ELSE carried[a]]

ForgetAfterSignIn(p) ==
    /\ at[p] = "forget"
    /\ carried' = Unlinked(into[p])
    /\ Goto(p, "failed") /\ into' = [into EXCEPT ![p] = Nobody]
    /\ UNCHANGED <<durable, sessions, signedOut, deleting, deleted, running, recorders,
                   from, previous, todo, deletions>>

------------------------------------------------------------------------------
(* delete_account                                                          *)

GotoD(d, label) == dpc' = [dpc EXCEPT ![d] = label]

\* The route checked the session and the account's row; the deletion is marked.
BeginDeletion(d, s) ==
    /\ dpc[d] = "idle"
    /\ s \in sessions \cap SignIns /\ Exists(Holder(s))
    /\ victim' = [victim EXCEPT ![d] = Holder(s)]
    /\ deleting' = [deleting EXCEPT ![Holder(s)] = @ + 1]
    /\ GotoD(d, "rows")
    /\ UNCHANGED <<durable, sessions, signedOut, deleted, carried, running, recorders,
                   callbacks>>

\* SessionStore.delete_account: the row and the history in one transaction; a
\* store that cannot do it changes nothing.
DeleteRows(d) ==
    /\ dpc[d] = "rows"
    /\ \/ /\ accountOf' = [s \in Subjects |-> IF accountOf[s] = victim[d] THEN Nobody
                                              ELSE accountOf[s]]
          /\ history' = [r \in Runs |-> IF history[r] = victim[d] THEN Nobody ELSE history[r]]
          /\ GotoD(d, "revoke")
       \/ GotoD(d, "end") /\ UNCHANGED <<accountOf, history>>
    /\ UNCHANGED <<drawn, metrics, registry, running, recorders, callbacks, victim>>

\* revoke_account: the deleted mark, and every live session of the account.
RevokeAccount(d) ==
    /\ dpc[d] = "revoke"
    /\ deleted' = deleted \cup {victim[d]}
    /\ sessions' = { s \in sessions : Holder(s) # victim[d] }
    /\ GotoD(d, "links")
    /\ UNCHANGED <<durable, signedOut, deleting, carried, running, recorders, callbacks,
                   victim>>

ForgetLinks(d) ==
    /\ dpc[d] = "links"
    /\ carried' = Unlinked(victim[d])
    /\ GotoD(d, "metrics")
    /\ UNCHANGED <<durable, sessions, signedOut, deleting, deleted, running, recorders,
                   callbacks, victim>>

ForgetMetrics(d) ==
    /\ dpc[d] = "metrics"
    /\ metrics' = Anonymised(victim[d])
    /\ GotoD(d, "end")
    /\ UNCHANGED <<accountOf, drawn, history, registry, running, recorders, callbacks, victim>>

EndDeletion(d) ==
    /\ dpc[d] = "end"
    /\ deleting' = [deleting EXCEPT ![victim[d]] = @ - 1]
    /\ GotoD(d, "done")
    /\ UNCHANGED <<durable, sessions, signedOut, deleted, carried, running, recorders,
                   callbacks, victim>>

------------------------------------------------------------------------------
RunStep(r) ==
    \/ \E s \in Sessions : AskForRun(r, s) \/ CancelRun(r, s)
    \/ StartRun(r) \/ FinishRun(r) \/ WriteMetrics(r) \/ CheckMark(r)
    \/ \E c \in Recorders : FindOwner(r, c) \/ FollowLink(r, c) \/ WriteHistory(r, c)

SignInStep(p) ==
    \/ \E s \in Sessions, who \in Subjects : StartSignIn(p, s, who)
    \/ ReadPrevious(p) \/ Rotate(p) \/ CheckAnonymous(p) \/ CheckGoing(p) \/ Link(p)
    \/ Collect(p) \/ Confirm(p) \/ ForgetAfterSignIn(p)
    \/ \E r \in Runs : CarryRun(p, r)

DeletionStep(d) ==
    \/ \E s \in Sessions : BeginDeletion(d, s)
    \/ DeleteRows(d) \/ RevokeAccount(d) \/ ForgetLinks(d) \/ ForgetMetrics(d) \/ EndDeletion(d)

Next ==
    \/ \E r \in Runs : RunStep(r)
    \/ \E p \in SignIns : SignInStep(p)
    \/ \E d \in Deletions : DeletionStep(d)

Spec == Init /\ [][Next]_vars

------------------------------------------------------------------------------
(* What must hold.                                                         *)

TypeOK ==
    /\ accountOf \in [Subjects -> Accounts \cup {Nobody}] /\ drawn \subseteq Accounts
    /\ history \in [Runs -> Accounts \cup {Nobody}]
    /\ metrics \in [Runs -> Ids \cup {Nobody}]
    /\ sessions \subseteq Sessions /\ signedOut \subseteq Sessions
    /\ deleting \in [Accounts -> Nat] /\ deleted \subseteq Accounts
    /\ carried \in [Ids -> Accounts \cup {Nobody}]
    /\ runOf \in [Runs -> Ids \cup {Nobody}]
    /\ endedAt \in [Runs -> 0 .. Cardinality(Runs)]
    /\ worker \in [Runs -> [Recorders -> {"none", "asked", "running", "metrics", "mark",
                                          "owner", "link", "write", "done"}]]
    /\ owner \in [Runs -> [Recorders -> Accounts \cup {Nobody}]]
    /\ at \in [SignIns -> {"idle", "previous", "rotate", "anonymous?", "going?",
                           "link", "collect", "carry", "confirm", "forget", "done", "failed"}]
    /\ from \in [SignIns -> Sessions \cup {Nobody}]
    /\ into \in [SignIns -> Accounts \cup {Nobody}]
    /\ previous \in [SignIns -> Ids \cup {Nobody}]
    /\ todo \in [SignIns -> SUBSET Runs]
    /\ dpc \in [Deletions -> {"idle", "rows", "revoke", "links", "metrics", "end", "done"}]
    /\ victim \in [Deletions -> Accounts \cup {Nobody}]

\* A deleted account's questions are gone for good: a run or a sign-in that was
\* already under way never lists anything under it again.
DeletedHistoryStaysGone ==
    \A r \in Runs : history[r] # Nobody => Exists(history[r])

\* The account is deleted, and every deletion of it is past its last write.
Deleted(g) ==
    g \in deleted /\ \A d \in Deletions : victim[d] = g => dpc[d] \in {"end", "done"}

\* No metrics row names a deleted account, whichever of the run's write and the
\* deletion came first, but for the moment before the writer looks at the mark.
DeletedAccountLeavesNoMetrics ==
    \A r \in Runs :
        metrics[r] \in Accounts /\ Deleted(metrics[r])
            => worker[r]["pipeline"] = "mark"

\* No carry-over link leads to a deleted account once the deletion and the
\* sign-ins that were under way are over.
NoLinkToTheDeleted ==
    \A a \in Ids : carried[a] \in Accounts /\ Deleted(carried[a]) =>
        \E p \in SignIns :
            into[p] = carried[a] /\ at[p] \in {"collect", "carry", "confirm", "forget"}

\* Nobody stays signed in to a deleted account.
NoSessionOfTheDeleted ==
    \A p \in SignIns : at[p] = "done" /\ p \in sessions => ~Deleted(into[p])

\* A deletion is final, whatever raced it: no run is listed under the deleted
\* account, no metrics row names it, no carry-over link leads to it and nobody
\* is signed in to it.
DeletionLeavesNothing ==
    /\ DeletedHistoryStaysGone
    /\ DeletedAccountLeavesNoMetrics
    /\ NoLinkToTheDeleted
    /\ NoSessionOfTheDeleted

\* A run is listed under its own account, or, when an anonymous session started
\* it, under the one account that session became: never under the account of
\* somebody who signed in over another signed-in session.
RunsStayWithTheirPerson ==
    \A r \in Runs : history[r] # Nobody /\ history[r] # runOf[r] =>
        /\ runOf[r] \in Anonymous
        /\ \A p \in SignIns : from[p] = runOf[r] /\ p \in signedOut \cup sessions
               => into[p] = history[r]

\* A run and the sign-in that carries it race, and the run is listed all the
\* same: once both are over, it is in the account's history, or the newest
\* KeepCount of the account are.
FinishedRunIsListed ==
    \A r \in Runs, p \in SignIns :
        /\ worker[r]["pipeline"] = "done" /\ worker[r]["cancel"] \in {"none", "done"}
        /\ at[p] = "done" /\ Exists(into[p])
        /\ runOf[r] \in {into[p]} \cup ({from[p]} \cap Anonymous)
        => \/ history[r] = into[p]
           \/ Cardinality({ q \in Runs : history[q] = into[p] /\ endedAt[q] > endedAt[r] })
                >= KeepCount

\* Both: a run is listed with its own person and with nobody else, whichever of
\* its end, the sign-in that carries it and the purge comes last.
EveryRunIsListedRight == RunsStayWithTheirPerson /\ FinishedRunIsListed
=============================================================================
