------------------------------ MODULE Sessions ------------------------------
(***************************************************************************)
(* Browser sessions: the in-process registry (auth.py), its durable rows   *)
(* (session_store.py), the requests that use them, sign-in, sign-out, sign *)
(* out everywhere (google_signin.py), account deletion as far as sessions  *)
(* go (account_deletion.py), and the operator's command that ends the      *)
(* sessions of an account from another process (end_sessions.py).          *)
(*                                                                         *)
(* A session has two halves.  The registry's lock covers the cached half   *)
(* and, for a write or a revocation, the row too; a lookup holds the lock  *)
(* only at its ends and reads the store in between.  One account is enough *)
(* here: nothing of one account depends on another.                        *)
(***************************************************************************)
EXTENDS Integers, FiniteSets

CONSTANTS
    Sessions,           \* session ids that may be drawn
    Threads,            \* request threads
    NoSession,
    SignedInIdle,       \* signed_in_idle_limit
    SessionTTL,         \* SESSION_TTL
    SignedInMaxAge,     \* SIGNED_IN_MAX_AGE
    AnonymousMaxAge,    \* ANONYMOUS_MAX_AGE
    Scenarios           \* bounds: what an instance lets happen, see Scenario

(* What happens in one behaviour is bounded by a scenario: the sessions of the *)
(* account browsers hold at the start, the ids that may be drawn, the kinds of *)
(* session a new browser is given, what is asked for (by browsers, and by the  *)
(* operator), the last moment, and how often the store stops answering and the *)
(* process restarts.                                                           *)
Requests == {"request", "sign_out", "everywhere", "delete", "sign_in"}
Scenario == [held : SUBSET Sessions, drawn : SUBSET Sessions,
             kinds : SUBSET {"anonymous", "sign_in_only"},
             asked : SUBSET (Requests \cup {"operator"}),
             end : Nat, faults : Nat, restarts : Nat]

ASSUME NameAssumption == NoSession \notin Sessions
ASSUME ScenarioAssumption == Scenarios \subseteq Scenario
ASSUME LimitsAssumption ==
    /\ SignedInIdle \in Nat /\ SessionTTL \in Nat \ {0} /\ SignedInIdle <= SessionTTL
    /\ SignedInMaxAge \in Nat /\ AnonymousMaxAge \in Nat /\ SignedInMaxAge <= AnonymousMaxAge
    /\ SessionTTL <= AnonymousMaxAge

VARIABLES
    \* the world
    scenario, clock, storeUp, faults, restarts,
    kind, born,         \* of every session id drawn: fixed at its creation
    \* the registry, in memory
    cached,             \* _sessions: [used, written, as] or NotCached
    endedIds,           \* _ended_ids: when each was ended, or Never
    signedOutIds,       \* _signed_out_ids
    endedUsed,          \* _ended_last_used
    memoryCutoff,       \* _valid_after
    deleting,           \* _deleting
    deletedUntil,       \* _deleted_accounts
    \* the sessions database
    rows,               \* last_used_at of each session's row
    account,            \* the account's row: "absent", "recorded" or, for good, "gone"
    cutoff,             \* its sessions_valid_after
    \* the request threads: program counter and locals
    pc, op, sid, own, copy, seen, read, recovered, acting,
    \* end_sessions.py
    operator, operatorCutoff,
    \* what was promised (history variables)
    promised,           \* status of each session, as SessionLife has it
    swept,              \* sessions the operator was told are ended
    late,               \* requests that arrived after that
    lastUse             \* when each session was last used

world == <<scenario, clock, storeUp, faults, restarts>>
identity == <<kind, born>>
memory == <<cached, endedIds, signedOutIds, endedUsed, memoryCutoff, deleting, deletedUntil>>
database == <<rows, account, cutoff>>
locals == <<op, sid, own, copy, seen, read, recovered, acting>>
outside == <<operator, operatorCutoff>>
promises == <<promised, swept, late, lastUse>>
vars == <<world, identity, memory, database, pc, locals, outside, promises>>

Never == -1
NotCached == [used |-> Never, written |-> Never, as |-> "none"]
Latest(a, b) == IF a > b THEN a ELSE b

------------------------------------------------------------------------------
(* What the registry and the store know of a session.                      *)

InCache(s) == cached[s] # NotCached

\* The limits of a session of this kind; one of an unknown kind gets the short ones.
IdleLimit(k) == IF k = "signed_in" THEN SignedInIdle ELSE SessionTTL
MaxAge(k) == IF k = "signed_in" THEN SignedInMaxAge ELSE AnonymousMaxAge

\* What a cached session is taken for.
HeldKind(s) == IF cached[s].as = "unknown" THEN "signed_in" ELSE cached[s].as

\* Mutant: only the idle limit ends a session.
IdleTooLong(k, used, s) == clock - used > IdleLimit(k)

\* _Session.is_expired
ExpiredAt(k, used, s) == clock - used > IdleLimit(k) \/ clock - born[s] > MaxAge(k)

Expired(s) == ExpiredAt(HeldKind(s), cached[s].used, s)

\* A session of the account created at or before the cutoff.
Before(s, c) == kind[s] = "signed_in" /\ born[s] <= c

\* end_deletion
DeletionsLeft == deleting - 1

WasDeleted == deletedUntil > clock
IsGoing == deleting > 0 \/ WasDeleted

\* account_was_deleted and _before_cutoff_locked
RefusedByMemory(s) == kind[s] = "signed_in" /\ (WasDeleted \/ born[s] <= memoryCutoff)

\* _drop_ended_locked and _purge_expired_locked: what is left after the
\* sessions of S were dropped because they ended by themselves.
DroppedFromCache(S) == [s \in Sessions |-> IF s \in S THEN NotCached ELSE cached[s]]
EndedAfterDrop(S) ==
    [s \in Sessions |-> IF s \in S /\ cached[s].as \notin {"unknown", "sign_in_only"}
                        THEN clock ELSE endedIds[s]]
LastUsesAfterDrop(S) ==
    [s \in Sessions |-> IF s \in S /\ HeldKind(s) = "signed_in" THEN cached[s].used
                        ELSE endedUsed[s]]
\* A thread's object is no longer the cached one once that was dropped.
Disowned(S) == [t \in Threads |-> own[t] /\ sid[t] \notin S]

\* _record_ended_locked for the sessions of S, dropped because somebody ended them.
EndedOnPurpose(S) ==
    [s \in Sessions |-> IF s \in S /\ InCache(s) /\ kind[s] # "sign_in_only"
                        THEN clock ELSE endedIds[s]]

Goto(t, label) == pc' = [pc EXCEPT ![t] = label]
Locals(t, session, operation, as) ==
    /\ sid' = [sid EXCEPT ![t] = session]
    /\ op' = [op EXCEPT ![t] = operation]
    /\ copy' = [copy EXCEPT ![t] = Never]
    /\ seen' = [seen EXCEPT ![t] = as]
    /\ read' = [read EXCEPT ![t] = Never]
    /\ recovered' = [recovered EXCEPT ![t] = FALSE]

\* The request is answered, whatever the answer; the sessions of S were dropped.
Done(t, S) ==
    /\ Goto(t, "idle")
    /\ Locals(t, NoSession, "none", "none")
    /\ own' = [Disowned(S) EXCEPT ![t] = FALSE]
    /\ acting' = [acting EXCEPT ![t] = NoSession]
    /\ late' = [late EXCEPT ![t] = FALSE]

\* lookup found no session: the request is refused, except that a sign-in
\* callback may still be recovered.
Refuse(t, S) ==
    IF op[t] = "sign_in"
    THEN /\ Goto(t, "recover")
         /\ recovered' = [recovered EXCEPT ![t] = TRUE]
         /\ own' = [Disowned(S) EXCEPT ![t] = FALSE]
         /\ UNCHANGED <<op, sid, copy, seen, read, acting, late>>
    ELSE Done(t, S)

\* lookup found it: a request uses it, a sign-in callback only notes that it is there.
Found(t) ==
    /\ Goto(t, IF op[t] = "sign_in" THEN "upsert" ELSE "use")
    /\ Locals(t, sid[t], op[t], "none")
    /\ UNCHANGED <<acting, late>>

------------------------------------------------------------------------------
Init ==
    /\ scenario \in Scenarios
    /\ clock = 0 /\ storeUp = TRUE /\ faults = 0 /\ restarts = 0
    /\ LET Held == scenario.held IN
        /\ kind = [s \in Sessions |-> IF s \in Held THEN "signed_in" ELSE "none"]
        /\ born = [s \in Sessions |-> IF s \in Held THEN 0 ELSE Never]
        /\ cached = [s \in Sessions |->
              IF s \in Held THEN [used |-> 0, written |-> 0, as |-> "signed_in"] ELSE NotCached]
        /\ rows = [s \in Sessions |-> IF s \in Held THEN 0 ELSE Never]
        /\ account = IF Held = {} THEN "absent" ELSE "recorded"
        /\ promised = [s \in Sessions |-> IF s \in Held THEN "live" ELSE "unborn"]
        /\ lastUse = [s \in Sessions |-> IF s \in Held THEN 0 ELSE Never]
    /\ endedIds = [s \in Sessions |-> Never] /\ signedOutIds = [s \in Sessions |-> Never]
    /\ endedUsed = [s \in Sessions |-> Never]
    /\ memoryCutoff = Never /\ deleting = 0 /\ deletedUntil = Never
    /\ cutoff = Never
    /\ pc = [t \in Threads |-> "idle"] /\ op = [t \in Threads |-> "none"]
    /\ sid = [t \in Threads |-> NoSession] /\ own = [t \in Threads |-> FALSE]
    /\ copy = [t \in Threads |-> Never] /\ seen = [t \in Threads |-> "none"]
    /\ read = [t \in Threads |-> Never] /\ recovered = [t \in Threads |-> FALSE]
    /\ acting = [t \in Threads |-> NoSession]
    /\ operator = "idle" /\ operatorCutoff = Never
    /\ swept = {} /\ late = [t \in Threads |-> FALSE]

------------------------------------------------------------------------------
(* A new session.                                                          *)

\* _purge_expired_locked
Lapsed == { s \in Sessions : InCache(s) /\ Expired(s) }
LastUsesAfterPurge ==
    [s \in Sessions |-> LET used == LastUsesAfterDrop(Lapsed)[s]
                        IN IF clock - used > SessionTTL THEN Never ELSE used]
PurgeLapsed == endedIds' = EndedAfterDrop(Lapsed) /\ endedUsed' = LastUsesAfterPurge

\* SessionRepository.create, up to its write: the session is cached.
Create(t, s, k) ==
    /\ kind[s] = "none" /\ s \in scenario.drawn
    /\ kind' = [kind EXCEPT ![s] = k] /\ born' = [born EXCEPT ![s] = clock]
    /\ cached' = [DroppedFromCache(Lapsed) EXCEPT
                    ![s] = [used |-> clock, written |-> Never, as |-> k]]
    /\ PurgeLapsed
    /\ own' = [Disowned(Lapsed) EXCEPT ![t] = TRUE]
    /\ promised' = [promised EXCEPT ![s] = "live"]
    /\ lastUse' = [lastUse EXCEPT ![s] = clock]

\* A browser without a session is given one (_mint, or the sign-in page's).
Mint(t, s, k) ==
    /\ pc[t] = "idle" /\ k \in scenario.kinds
    /\ Create(t, s, k)
    /\ Locals(t, s, "mint", "none") /\ Goto(t, "persist")
    /\ UNCHANGED <<world, signedOutIds, memoryCutoff, deleting, deletedUntil, database, acting,
                   outside, swept, late>>

------------------------------------------------------------------------------
(* SessionRepository.lookup.                                               *)

\* A request arrives with a session's cookie.  One lock hold: expired sessions
\* are purged; is it cached, or did this process end it?
Arrive(t, s, operation) ==
    LET held == InCache(s) /\ ~Expired(s)
        ended == ~held /\ EndedAfterDrop(Lapsed)[s] # Never
    IN
    /\ pc[t] = "idle" /\ kind[s] # "none" /\ operation \in scenario.asked
    /\ operation = "sign_in" \/ ~ended      \* refused at once
    /\ PurgeLapsed /\ cached' = DroppedFromCache(Lapsed)
    /\ own' = [Disowned(Lapsed) EXCEPT ![t] = held]
    /\ Locals(t, s, operation, IF held THEN cached[s].as ELSE "none")
    /\ late' = [late EXCEPT ![t] = s \in swept]
    /\ Goto(t, IF held THEN "check" ELSE IF ended THEN "recover" ELSE "fetch")
    /\ UNCHANGED <<world, identity, signedOutIds, memoryCutoff, deleting, deletedUntil, database,
                   acting, outside, promised, swept, lastUse>>

NeedsNoStore(k) == k \in {"anonymous", "sign_in_only"}

\* Mutant: the cached half is believed.
BelieveCached(t) ==
    /\ pc[t] = "check"
    /\ Found(t)
    /\ UNCHANGED <<world, identity, memory, database, own, outside, promised, swept, lastUse>>

\* _check_cached: an anonymous session needs no store.  A signed-in one is
\* checked against the account's durable cutoff at every request.
CheckCached(t) ==
    LET s == sid[t] IN
    /\ pc[t] = "check"
    /\ \/ /\ NeedsNoStore(seen[t]) \/ (storeUp /\ ~Before(s, cutoff))
          /\ Found(t)
       \/ /\ ~NeedsNoStore(seen[t]) /\ storeUp /\ Before(s, cutoff)
          /\ read' = [read EXCEPT ![t] = cutoff]
          /\ Goto(t, "outdated")
          /\ UNCHANGED <<op, sid, copy, seen, recovered, acting, late>>
       \/ /\ ~NeedsNoStore(seen[t]) /\ ~storeUp
          /\ Goto(t, "unread")
          /\ UNCHANGED <<op, sid, copy, seen, read, recovered, acting, late>>
    /\ UNCHANGED <<world, identity, memory, database, own, outside, promised, swept, lastUse>>

\* The cutoff could not be read: an ended session is dropped, and any is refused.
AnswerUnchecked(t) ==
    LET s == sid[t]
        drops == IF own[t] /\ cached[s].as # "unknown" /\ Expired(s) THEN {s} ELSE {}
    IN
    /\ pc[t] = "unread"
    /\ cached' = DroppedFromCache(drops)
    /\ endedIds' = EndedAfterDrop(drops)
    /\ endedUsed' = LastUsesAfterDrop(drops)
    /\ Refuse(t, drops)
    /\ UNCHANGED <<world, identity, signedOutIds, memoryCutoff, deleting, deletedUntil, database,
                   outside, promised, swept, lastUse>>

\* end_sessions_of: memory refuses the account's sessions up to a cutoff.
\* Cutoffs past their use (TTL) are forgotten first.
Outdated(c) == { s \in Sessions : InCache(s) /\ Before(s, c) }
EndSessionsOf(c) ==
    /\ memoryCutoff' = IF memoryCutoff # Never /\ memoryCutoff + SessionTTL <= clock
                       THEN c ELSE Latest(memoryCutoff, c)
    /\ cached' = DroppedFromCache(Outdated(c))
    /\ endedIds' = EndedOnPurpose(Outdated(c))

\* The cached session is older than the account's cutoff: it ends here too.
AnswerOutdated(t) ==
    /\ pc[t] = "outdated"
    /\ EndSessionsOf(read[t])
    /\ Refuse(t, Outdated(read[t]))
    /\ UNCHANGED <<world, identity, signedOutIds, endedUsed, deleting, deletedUntil, database,
                   outside, promised, swept, lastUse>>

\* _restore_lookup reads the row, with the longest limits.
Fetch(t) ==
    LET s == sid[t] IN
    /\ pc[t] = "fetch"
    /\ IF storeUp /\ rows[s] # Never /\ clock - rows[s] <= SessionTTL
                   /\ clock - born[s] <= AnonymousMaxAge
       THEN /\ copy' = [copy EXCEPT ![t] = rows[s]]
            /\ Goto(t, "kind")
            /\ UNCHANGED <<op, sid, own, seen, read, recovered, acting, late>>
       ELSE Refuse(t, {})
    /\ UNCHANGED <<world, identity, memory, database, outside, promised, swept, lastUse>>

\* is_anonymous: the account of the row is in no accounts table.
KindRead(s) ==
    IF ~storeUp THEN "unknown"
    ELSE IF kind[s] = "signed_in" /\ account = "recorded" THEN "signed_in" ELSE "anonymous"

LookUpKind(t) ==
    LET s == sid[t]
        k == KindRead(s)
    IN
    /\ pc[t] = "kind"
    /\ IF (k = "signed_in" /\ ExpiredAt(k, copy[t], s)) \/ RefusedByMemory(s)
       THEN Refuse(t, {})
       ELSE /\ seen' = [seen EXCEPT ![t] = k]
            /\ Goto(t, IF k = "anonymous" THEN "insert" ELSE "cutoff")
            /\ UNCHANGED <<op, sid, own, copy, read, recovered, acting, late>>
    /\ UNCHANGED <<world, identity, memory, database, outside, promised, swept, lastUse>>

\* Only an anonymous session is restored without the account's durable cutoff.
ReadCutoff(t) ==
    /\ pc[t] = "cutoff"
    /\ IF ~storeUp \/ Before(sid[t], cutoff)
       THEN Refuse(t, {})
       ELSE Goto(t, "insert") /\ UNCHANGED <<locals, late>>
    /\ UNCHANGED <<world, identity, memory, database, outside, promised, swept, lastUse>>

\* Mutant: memory is not asked again once the row was read.
NotAskedAgain(s) == FALSE

\* What was ended in memory while the row was being read is not put back.
EndedMeanwhile(s) ==
    RefusedByMemory(s) \/ endedIds[s] # Never \/ signedOutIds[s] # Never

\* The last lock hold of _restore_lookup: the session is cached, unless it
\* ended; a lookup that came first has cached it already.
Insert(t) ==
    LET s == sid[t]
        k == IF seen[t] = "unknown" THEN "signed_in" ELSE seen[t]
    IN
    /\ pc[t] = "insert"
    /\ IF EndedMeanwhile(s) \/ ExpiredAt(k, copy[t], s)
       THEN Refuse(t, {}) /\ UNCHANGED cached
       ELSE /\ cached' = IF InCache(s) THEN cached
                         ELSE [cached EXCEPT ![s] = [used |-> copy[t], written |-> copy[t],
                                                     as |-> seen[t]]]
            /\ own' = [own EXCEPT ![t] = TRUE]
            /\ Found(t)
    /\ UNCHANGED <<world, identity, endedIds, signedOutIds, endedUsed, memoryCutoff, deleting,
                   deletedUntil, database, outside, promised, swept, lastUse>>

------------------------------------------------------------------------------
(* SessionRepository.use, and the write that follows it.                   *)

\* What the operation does next; a plain request is answered.
Continue(t) ==
    IF op[t] \in {"request", "mint"} THEN Done(t, {})
    ELSE /\ Goto(t, CASE op[t] = "sign_out" -> "revoke"
                      [] op[t] = "everywhere" -> "first pass"
                      [] op[t] = "delete" -> "begin deletion"
                      [] op[t] = "sign_in" -> "confirm")
         /\ UNCHANGED <<locals, late>>

\* Only the object in the cache is used, and only if it has not expired since.
Use(t) ==
    LET s == sid[t] IN
    /\ pc[t] = "use"
    /\ \/ /\ own[t] /\ ~Expired(s)
          /\ cached' = [cached EXCEPT ![s].used = clock]
          /\ lastUse' = [lastUse EXCEPT ![s] = clock]
          /\ acting' = [acting EXCEPT ![t] = s] /\ copy' = [copy EXCEPT ![t] = clock]
          /\ Goto(t, "persist")
          /\ UNCHANGED <<endedIds, endedUsed, op, sid, own, seen, read, recovered, late>>
       \/ /\ own[t] /\ Expired(s)
          /\ cached' = DroppedFromCache({s})
          /\ endedIds' = EndedAfterDrop({s}) /\ endedUsed' = LastUsesAfterDrop({s})
          /\ Done(t, {s})
          /\ UNCHANGED lastUse
       \/ /\ ~own[t]
          /\ Done(t, {})
          /\ UNCHANGED <<cached, endedIds, endedUsed, lastUse>>
    /\ UNCHANGED <<world, identity, signedOutIds, memoryCutoff, deleting, deletedUntil, database,
                   outside, promised, swept>>

\* _persist: only the live object is written, never a sign-in-only one.
MayWrite(t) == own[t] /\ kind[sid[t]] # "sign_in_only"

\* SessionStore.save: no row older than the account's cutoff is written back.
Saved(s, used) == IF storeUp /\ ~(account = "recorded" /\ Before(s, cutoff))
                  THEN [rows EXCEPT ![s] = used] ELSE rows

\* One lock hold over the check and the write.  A write that does not land is
\* counted as one, so that a failing store is not asked at every request.
Persist(t) ==
    LET s == sid[t]
        used == Latest(cached[s].used, copy[t])
    IN
    /\ pc[t] = "persist"
    /\ IF MayWrite(t)
       THEN rows' = Saved(s, used) /\ cached' = [cached EXCEPT ![s].written = used]
       ELSE UNCHANGED <<rows, cached>>
    /\ Continue(t)
    /\ UNCHANGED <<world, identity, endedIds, signedOutIds, endedUsed, memoryCutoff, deleting,
                   deletedUntil, account, cutoff, outside, promised, swept, lastUse>>

\* _persist_touch: a plain touch writes only now and then; rotating the CSRF
\* token always does.
SkipPersist(t) ==
    /\ pc[t] = "persist"
    /\ own[t] /\ cached[sid[t]].written = cached[sid[t]].used
    /\ Continue(t)
    /\ UNCHANGED <<world, identity, memory, database, outside, promised, swept, lastUse>>

------------------------------------------------------------------------------
(* Endings asked for by the visitor.                                       *)

\* The sessions of S are over for the visitor; for good once no row is left.
Promise(S) ==
    promised' = [s \in Sessions |->
        IF s \notin S \/ promised[s] \in {"unborn", "ended"} THEN promised[s]
        ELSE IF rows'[s] = Never THEN "ended" ELSE "ended_here"]

\* revoke: one lock hold over both halves.
Revoked(s) ==
    /\ cached' = DroppedFromCache({s})
    /\ endedIds' = EndedOnPurpose({s})
    /\ signedOutIds' = IF InCache(s) /\ kind[s] = "sign_in_only" THEN signedOutIds
                       ELSE [signedOutIds EXCEPT ![s] = clock]
    /\ rows' = IF storeUp THEN [rows EXCEPT ![s] = Never] ELSE rows
    /\ Promise({s})

SignOut(t) ==
    /\ pc[t] = "revoke"
    /\ Revoked(sid[t])
    /\ Done(t, {sid[t]})
    /\ UNCHANGED <<world, identity, endedUsed, memoryCutoff, deleting, deletedUntil, account, cutoff,
                   outside, swept, lastUse>>

\* end_sessions_before, one transaction: the cutoff only rises, and the rows
\* created at or before it go.
EndRows(c) ==
    /\ cutoff' = Latest(cutoff, c)
    /\ rows' = [s \in Sessions |-> IF Before(s, c) THEN Never ELSE rows[s]]

\* sign_out_everywhere: the rows first; without them nothing is promised.
FirstPass(t) ==
    /\ pc[t] = "first pass"
    /\ IF storeUp /\ account = "recorded" /\ kind[sid[t]] = "signed_in"
       THEN /\ EndRows(clock)
            /\ read' = [read EXCEPT ![t] = clock]
            /\ Goto(t, "memory")
            /\ UNCHANGED <<op, sid, own, copy, seen, recovered, acting, late>>
       ELSE Done(t, {}) /\ UNCHANGED <<rows, cutoff>>
    /\ UNCHANGED <<world, identity, memory, account, outside, promised, swept, lastUse>>

\* Then the cached half, and from here on every one of them is over.
EndInMemory(t) ==
    LET S == Outdated(read[t]) IN
    /\ pc[t] = "memory"
    /\ EndSessionsOf(read[t])
    /\ own' = Disowned(S)
    /\ UNCHANGED database /\ Promise({ s \in Sessions : Before(s, read[t]) })
    /\ Goto(t, "second pass")
    /\ UNCHANGED <<world, identity, signedOutIds, endedUsed, deleting, deletedUntil, op,
                   sid, copy, seen, read, recovered, acting, outside, swept, late, lastUse>>

\* The rows once more; it may fail, the answer is the same.
SecondPass(t) ==
    /\ pc[t] = "second pass"
    /\ IF storeUp /\ account = "recorded" THEN EndRows(read[t]) ELSE UNCHANGED <<rows, cutoff>>
    /\ Done(t, {})
    /\ UNCHANGED <<world, identity, memory, account, outside, promised, swept, lastUse>>

------------------------------------------------------------------------------
(* Account deletion, as far as sessions go.                                *)

AccountSessions == { s \in Sessions : kind[s] = "signed_in" }

BeginDeletion(t) ==
    /\ pc[t] = "begin deletion"
    /\ IF account = "recorded" /\ kind[sid[t]] = "signed_in"
       THEN /\ deleting' = deleting + 1 /\ Goto(t, "delete rows")
            /\ UNCHANGED <<locals, late>>
       ELSE Done(t, {}) /\ UNCHANGED deleting
    /\ UNCHANGED <<world, identity, cached, endedIds, signedOutIds, endedUsed, memoryCutoff,
                   deletedUntil, database, outside, promised, swept, lastUse>>

\* SessionStore.delete_account: the account and its sessions in one transaction.
\* A second deletion finds no row and goes on all the same.
DeleteRows(t) ==
    /\ pc[t] = "delete rows"
    /\ IF storeUp
       THEN /\ account' = "gone" /\ cutoff' = Never
            /\ rows' = [s \in Sessions |-> IF s \in AccountSessions THEN Never ELSE rows[s]]
            /\ Goto(t, "revoke account")
            /\ UNCHANGED <<deleting, locals, late>>
       ELSE Done(t, {}) /\ deleting' = DeletionsLeft /\ UNCHANGED database
    /\ UNCHANGED <<world, identity, cached, endedIds, signedOutIds, endedUsed, memoryCutoff,
                   deletedUntil, outside, promised, swept, lastUse>>

\* revoke_account: from here on no session of the account is cached or written.
RevokeAccount(t) ==
    LET S == { s \in AccountSessions : InCache(s) } IN
    /\ pc[t] = "revoke account"
    /\ deletedUntil' = clock + SessionTTL
    /\ cached' = DroppedFromCache(S) /\ endedIds' = EndedOnPurpose(S) /\ own' = Disowned(S)
    /\ Goto(t, "delete again")
    /\ UNCHANGED <<world, identity, signedOutIds, endedUsed, memoryCutoff, deleting, database, op,
                   sid, copy, seen, read, recovered, acting, outside, promises>>

\* delete_sessions_of: a row written back before the refusal goes now.  A session
\* made meanwhile is the business of the sign-in that made it (Confirm).
DeleteAgain(t) ==
    /\ pc[t] = "delete again"
    /\ rows' = IF storeUp THEN [s \in Sessions |-> IF s \in AccountSessions THEN Never ELSE rows[s]]
               ELSE rows
    /\ Promise({ s \in AccountSessions : ~InCache(s) })
    /\ deleting' = DeletionsLeft
    /\ Done(t, {})
    /\ UNCHANGED <<world, identity, cached, endedIds, signedOutIds, endedUsed, memoryCutoff,
                   deletedUntil, account, cutoff, outside, swept, lastUse>>

------------------------------------------------------------------------------
(* The sign-in callback: google_sign_in_callback.                          *)

\* max_age_account: the session ended at its 12 hours, and nothing else ended it.
Recoverable(s) ==
    LET used == Latest(rows[s], endedUsed[s]) IN
    /\ storeUp /\ rows[s] # Never /\ kind[s] = "signed_in" /\ account = "recorded"
    /\ ~Before(s, cutoff) /\ ~Before(s, memoryCutoff) /\ signedOutIds[s] = Never /\ ~IsGoing
    /\ clock > born[s] + SignedInMaxAge
    /\ born[s] + SignedInMaxAge <= used + SignedInIdle

Recover(t) ==
    /\ pc[t] = "recover"
    /\ IF Recoverable(sid[t])
       THEN Goto(t, "upsert") /\ UNCHANGED <<locals, late>>
       ELSE Done(t, {})
    /\ UNCHANGED <<world, identity, memory, database, outside, promised, swept, lastUse>>

\* upsert_google_account; for a recovered session the check and the write are
\* one lock hold, and the check is made once more before the session is issued.
\* (After a deletion the account's next life has another id: not modelled here.)
Upsert(t) ==
    /\ pc[t] = "upsert"
    /\ IF storeUp /\ account # "gone" /\ (recovered[t] => Recoverable(sid[t]))
       THEN /\ account' = "recorded"
            /\ Goto(t, IF recovered[t] THEN "recheck" ELSE "issue")
            /\ UNCHANGED <<locals, late>>
       ELSE Done(t, {}) /\ UNCHANGED account
    /\ UNCHANGED <<world, identity, memory, rows, cutoff, outside, promised, swept, lastUse>>

Recheck(t) ==
    /\ pc[t] = "recheck"
    /\ IF Recoverable(sid[t])
       THEN Goto(t, "issue") /\ UNCHANGED <<locals, late>>
       ELSE Done(t, {})
    /\ UNCHANGED <<world, identity, memory, database, outside, promised, swept, lastUse>>

\* The session this sign-in replaces was revoked, or was kept in memory only
\* and is gone.
PreviousSessionRevoked(t) ==
    \/ signedOutIds[sid[t]] # Never
    \/ ~recovered[t] /\ kind[sid[t]] = "sign_in_only" /\ ~InCache(sid[t])

\* issue_signed_in_session, its lock hold: the old session is revoked.
Issue(t) ==
    /\ pc[t] = "issue"
    /\ IF PreviousSessionRevoked(t)
       THEN Done(t, {sid[t]}) /\ UNCHANGED <<cached, endedIds, signedOutIds, rows, promised>>
       ELSE /\ Revoked(sid[t])
            /\ own' = Disowned({sid[t]})
            /\ Goto(t, "create")
            /\ UNCHANGED <<op, sid, copy, seen, read, recovered, acting, late>>
    /\ UNCHANGED <<world, identity, endedUsed, memoryCutoff, deleting, deletedUntil, account, cutoff,
                   outside, swept, lastUse>>

\* Then the new one is made and written.
CreateSignedIn(t, s) ==
    /\ pc[t] = "create"
    /\ Create(t, s, "signed_in")
    /\ Goto(t, "persist")
    /\ sid' = [sid EXCEPT ![t] = s]
    /\ UNCHANGED <<world, signedOutIds, memoryCutoff, deleting, deletedUntil, database, op, copy,
                   seen, read, recovered, acting, outside, swept, late>>

\* The account may have been deleted while this sign-in ran: its session goes.
Confirm(t) ==
    /\ pc[t] = "confirm"
    /\ IF storeUp /\ account = "recorded"
       THEN Done(t, {}) /\ UNCHANGED <<cached, endedIds, signedOutIds, rows, promised>>
       ELSE Revoked(sid[t]) /\ Done(t, {sid[t]})
    /\ UNCHANGED <<world, identity, endedUsed, memoryCutoff, deleting, deletedUntil, account, cutoff,
                   outside, swept, lastUse>>

------------------------------------------------------------------------------
(* The operator's command, another process on the same database.           *)

\* _end: the cutoff and the rows, one transaction.
OperatorEnds ==
    /\ "operator" \in scenario.asked /\ operator = "idle" /\ account = "recorded"
    /\ EndRows(clock)
    /\ operatorCutoff' = clock /\ operator' = "read back"
    /\ UNCHANGED <<world, identity, memory, account, pc, locals, promises>>

\* _read_back: rows put back meanwhile go, and then it says "run it again".
OperatorReadsBack ==
    LET S == { s \in Sessions : Before(s, operatorCutoff) }
        clean == \A s \in S : rows[s] = Never
    IN
    /\ operator = "read back"
    /\ rows' = [s \in Sessions |-> IF s \in S THEN Never ELSE rows[s]]
    /\ swept' = IF clean /\ (account = "recorded" => cutoff >= operatorCutoff)
                THEN swept \cup S ELSE swept
    /\ operator' = "idle" /\ operatorCutoff' = Never
    /\ UNCHANGED <<world, identity, memory, account, cutoff, pc, locals, promised, late, lastUse>>

------------------------------------------------------------------------------
(* The environment.                                                        *)

\* Bound: the clock moves in steps of many minutes, and the reads of one restore
\* are not spread over such a step.  (One stalled for the whole of SESSION_TTL
\* would find the memory of a deletion already given up.)
Tick ==
    /\ clock < scenario.end
    /\ \A t \in Threads : pc[t] \notin {"kind", "cutoff", "insert"}
    /\ clock' = clock + 1
    /\ UNCHANGED <<scenario, storeUp, faults, restarts, identity, memory, database, pc, locals, outside,
                   promises>>

StoreFails ==
    /\ storeUp /\ faults < scenario.faults
    /\ storeUp' = FALSE /\ faults' = faults + 1
    /\ UNCHANGED <<scenario, clock, restarts, identity, memory, database, pc, locals, outside, promises>>

StoreAnswers ==
    /\ ~storeUp
    /\ storeUp' = TRUE
    /\ UNCHANGED <<scenario, clock, faults, restarts, identity, memory, database, pc, locals, outside,
                   promises>>

\* _gc_tick, purge_expired: both halves; what was ended here is forgotten at an
\* age past which no row can be restored.
Kept(ended) == IF clock - ended > AnonymousMaxAge THEN Never ELSE ended

RowsAfterPurge ==
    [s \in Sessions |->
        IF clock - rows[s] > SessionTTL \/ clock - born[s] > AnonymousMaxAge
        THEN Never ELSE rows[s]]

CollectGarbage ==
    /\ cached' = DroppedFromCache(Lapsed) /\ endedUsed' = LastUsesAfterPurge
    /\ own' = Disowned(Lapsed)
    /\ endedIds' = [s \in Sessions |-> Kept(EndedAfterDrop(Lapsed)[s])]
    /\ signedOutIds' = [s \in Sessions |-> Kept(signedOutIds[s])]
    /\ rows' = IF storeUp THEN RowsAfterPurge ELSE rows
    /\ UNCHANGED <<world, identity, memoryCutoff, deleting, deletedUntil, account, cutoff, pc, op,
                   sid, copy, seen, read, recovered, acting, outside, promises>>

\* A crash or a restart: what only memory knew is lost.
Restart ==
    /\ restarts < scenario.restarts
    /\ restarts' = restarts + 1
    /\ cached' = [s \in Sessions |-> NotCached]
    /\ endedIds' = [s \in Sessions |-> Never] /\ signedOutIds' = [s \in Sessions |-> Never]
    /\ endedUsed' = [s \in Sessions |-> Never]
    /\ memoryCutoff' = Never /\ deleting' = 0 /\ deletedUntil' = Never
    /\ pc' = [t \in Threads |-> "idle"] /\ op' = [t \in Threads |-> "none"]
    /\ sid' = [t \in Threads |-> NoSession] /\ own' = [t \in Threads |-> FALSE]
    /\ copy' = [t \in Threads |-> Never] /\ seen' = [t \in Threads |-> "none"]
    /\ read' = [t \in Threads |-> Never] /\ recovered' = [t \in Threads |-> FALSE]
    /\ acting' = [t \in Threads |-> NoSession] /\ late' = [t \in Threads |-> FALSE]
    /\ promised' = [s \in Sessions |-> IF promised[s] = "ended_here" THEN "live" ELSE promised[s]]
    /\ UNCHANGED <<scenario, clock, storeUp, faults, identity, database, outside, swept, lastUse>>

------------------------------------------------------------------------------
LookUp(t) ==
    \/ CheckCached(t) \/ AnswerUnchecked(t) \/ AnswerOutdated(t)
    \/ Fetch(t) \/ LookUpKind(t) \/ ReadCutoff(t) \/ Insert(t)

Work(t) == Use(t) \/ Persist(t) \/ SkipPersist(t)

SignOutSteps(t) == SignOut(t) \/ FirstPass(t) \/ EndInMemory(t) \/ SecondPass(t)

Deletion(t) == BeginDeletion(t) \/ DeleteRows(t) \/ RevokeAccount(t) \/ DeleteAgain(t)

SignIn(t) ==
    \/ Recover(t) \/ Upsert(t) \/ Recheck(t) \/ Issue(t) \/ Confirm(t)
    \/ \E s \in Sessions : CreateSignedIn(t, s)

Next ==
    \/ \E t \in Threads :
        \/ \E s \in Sessions, k \in scenario.kinds : Mint(t, s, k)
        \/ \E s \in Sessions, o \in Requests : Arrive(t, s, o)
        \/ LookUp(t) \/ Work(t) \/ SignOutSteps(t) \/ Deletion(t) \/ SignIn(t)
    \/ OperatorEnds \/ OperatorReadsBack
    \/ Tick \/ StoreFails \/ StoreAnswers \/ CollectGarbage \/ Restart

Spec == Init /\ [][Next]_vars

------------------------------------------------------------------------------
SessionKind == {"none", "anonymous", "signed_in", "sign_in_only"}
Moment == -1 .. scenario.end

TypeOK ==
    /\ scenario \in Scenarios /\ clock \in 0 .. scenario.end /\ storeUp \in BOOLEAN
    /\ faults \in 0 .. scenario.faults /\ restarts \in 0 .. scenario.restarts
    /\ kind \in [Sessions -> SessionKind] /\ born \in [Sessions -> Moment]
    /\ cached \in [Sessions -> [used : Moment, written : Moment, as : SessionKind \cup {"unknown"}]]
    /\ endedIds \in [Sessions -> Moment] /\ signedOutIds \in [Sessions -> Moment]
    /\ endedUsed \in [Sessions -> Moment]
    /\ memoryCutoff \in Moment /\ deleting \in 0 .. Cardinality(Threads)
    /\ deletedUntil \in -1 .. scenario.end + SessionTTL
    /\ rows \in [Sessions -> Moment] /\ account \in {"absent", "recorded", "gone"}
    /\ cutoff \in Moment
    /\ sid \in [Threads -> Sessions \cup {NoSession}] /\ own \in [Threads -> BOOLEAN]
    /\ op \in [Threads -> Requests \cup {"none", "mint"}]
    /\ copy \in [Threads -> Moment] /\ read \in [Threads -> Moment]
    /\ seen \in [Threads -> SessionKind \cup {"unknown"}] /\ recovered \in [Threads -> BOOLEAN]
    /\ acting \in [Threads -> Sessions \cup {NoSession}]
    /\ operator \in {"idle", "read back"} /\ operatorCutoff \in Moment
    /\ promised \in [Sessions -> {"unborn", "live", "ended", "ended_here"}]
    /\ swept \subseteq Sessions /\ late \in [Threads -> BOOLEAN]
    /\ lastUse \in [Sessions -> Moment]

Life == INSTANCE SessionLife WITH status <- promised

\* A session the visitor ended is never acted for again, by no request, in no
\* interleaving of lookups, restores from disk, late writes, sign-ins and
\* deletions, and after a restart too unless its row could not be removed
\* (SessionRepository.lookup, use, revoke, end_sessions_of, revoke_account).
EndedSessionNeverActs == Life!Spec

\* Once end_sessions.py answered 0, a request that arrives afterwards does not act
\* for the account with an ended session, although the app's own memory still
\* holds it (_check_cached reads the durable cutoff, _restore_lookup too); and no
\* write in flight puts the row of an ended session back for a later process to
\* restore (_persist's re-check, save's cutoff condition, the second delete of an
\* account deletion).
EndedElsewhereStaysEnded ==
    /\ \A t \in Threads : late[t] /\ acting[t] # NoSession => account # "recorded"
    /\ \A s \in Sessions :
           promised[s] = "ended" \/ (s \in swept /\ account = "recorded") => rows[s] = Never

\* A session past its idle limit or its maximum age is never used again: not
\* from the cache, not from a row that lags behind, not across a restart
\* (is_expired in use, fetch_checked's limits, _restore_lookup).
ExpiredSessionNeverActs ==
    [][\A t \in Threads :
        LET s == acting'[t] IN
        acting[t] = NoSession /\ s # NoSession /\ (kind[s] = "signed_in" => account = "recorded")
            => /\ clock - lastUse[s] <= IdleLimit(kind[s])
               /\ clock - born[s] <= MaxAge(kind[s])]_vars

\* Both: what ends a session from outside of the app's memory, the operator's
\* command or the time, holds for every request after it.
SessionEndedOutsideNeverActs == [](EndedElsewhereStaysEnded) /\ ExpiredSessionNeverActs
=============================================================================
