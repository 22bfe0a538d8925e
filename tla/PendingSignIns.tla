--------------------------- MODULE PendingSignIns ---------------------------
(***************************************************************************)
(* Signing in with Google (google_signin.py), as a handshake: a session    *)
(* starts a sign-in, the browser comes back from Google with the URL of    *)
(* some start, and the callback turns the session into a signed-in one.    *)
(* Requests of one browser overlap, a URL is loaded twice or in another    *)
(* browser, a start is replaced, grows old or is pushed out, and the       *)
(* session ends while Google is asked.  How sessions end is in Sessions.   *)
(***************************************************************************)
EXTENDS Integers, Sequences, FiniteSets

CONSTANTS
    Browsers, People, MaxThreads,
    TTL,                \* SIGN_IN_STATE_TTL
    MaxPending,         \* MAX_PENDING_SIGN_INS
    MaxClock, MaxStarts, MaxSessions

(* The process serves finitely many browsers, and the table has room for one.  *)
HandshakeAssumption == IsFiniteSet(Browsers) /\ TTL \in Nat /\ MaxPending \in Nat \ {0}

VARIABLES
    clock,
    sessions,           \* of every session: [state, who], in the order they were made
    cookie,             \* the session each browser holds
    starts,             \* every start: [by, purpose, expected, at], its place is its `state`
    entries,            \* PendingSignIns._entries: starts, whose order is the dict's
    request,            \* of every thread: what it is in the middle of
    completed,          \* sign-ins that went through
    spent               \* starts that were taken, replaced or dropped by a sign-out

pendingVars == <<clock, sessions, cookie, starts, entries, request, completed, spent>>

Slots == 1 .. MaxThreads
Nobody == "nobody"
None == 0
Idle == [pc |-> "idle", browser |-> Nobody, by |-> None, url |-> None, who |-> Nobody,
         purpose |-> "sign_in", recovered |-> FALSE, at |-> 0]

By(n) == starts[n].by
TooOld(n, now) == now - starts[n].at > TTL
Without(es, s) == {n \in es : By(n) # s}

\* _purge_locked
Purged(es, now) == {n \in es : ~TooOld(n, now)}

Own(es, s) == {n \in es : By(n) = s}
Oldest(es) == CHOOSE n \in es : \A m \in es : n <= m
\* Threads are alike: a request takes the first that is idle.
Free(t) == \A u \in 1 .. t : request[u].pc = "idle" <=> u = t
Finish(t) == request' = [request EXCEPT ![t] = Idle]
-----------------------------------------------------------------------------
(* Starting.                                                                *)

\* _start: the session is live, for a deletion it is signed in.
Start(t, b, purpose) ==
    LET s == cookie[b] IN
    /\ Free(t) /\ Len(starts) < MaxStarts /\ sessions[s].state = "live"
    /\ purpose = "delete_account" => sessions[s].who # Nobody
    /\ request' = [request EXCEPT ![t] = [Idle EXCEPT !.pc = "begin", !.browser = b, !.by = s,
                        !.purpose = purpose,
                        !.who = IF purpose = "sign_in" THEN Nobody ELSE sessions[s].who]]
    /\ UNCHANGED <<clock, sessions, cookie, starts, entries, completed, spent>>

\* Mutant: a full dict takes one more.
PlacedOverTheCap(es, s, n) ==
    LET kept == Without(Purged(es, clock), s)
    IN  {n} \cup IF Cardinality(kept) > MaxPending THEN kept \ {Oldest(kept)} ELSE kept

\* begin's dict: the expired and its own go, then the oldest while it is full.
Placed(es, s, n) ==
    LET kept == Without(Purged(es, clock), s)
    IN  {n} \cup IF Cardinality(kept) >= MaxPending THEN kept \ {Oldest(kept)} ELSE kept

Begin(t) ==
    LET s == request[t].by
        n == Len(starts) + 1
    IN  /\ request[t].pc = "begin" /\ Len(starts) < MaxStarts
        /\ starts' = Append(starts, [by |-> s, purpose |-> request[t].purpose, at |-> clock,
                                     expected |-> request[t].who])
        /\ entries' = Placed(entries, s, n)
        /\ spent' = spent \cup Own(entries, s)
        /\ Finish(t)
        /\ UNCHANGED <<clock, sessions, cookie, completed>>
-----------------------------------------------------------------------------
(* Coming back: google_sign_in_callback.                                    *)

\* Mutant: what is taken is not asked how old it is.
TakenAtAnyAge(s) == Own(entries, s)

\* take: only the first call finds it, and only while it is fresh.
Taken(s) == {n \in Own(entries, s) : ~TooOld(n, clock)}

\* A browser loads the URL Google answered a start with, or cancelled it with.  The start
\* is taken before anything is compared.
CallBack(t, b, url, cancelled) ==
    LET s == cookie[b] IN
    /\ Free(t)
    /\ entries' = Purged(Without(entries, s), clock)
    /\ spent' = spent \cup Own(entries, s)
    /\ request' = IF Taken(s) = {url} /\ ~cancelled
                  THEN [request EXCEPT ![t] = [Idle EXCEPT !.pc = "look_up", !.browser = b,
                                                    !.by = s, !.url = url, !.at = clock]]
                  ELSE request
    /\ UNCHANGED <<clock, sessions, cookie, starts, completed>>

\* The session is live, or ended by the 12 hours of a signed-in one and by nothing else.
LookUp(t) ==
    LET s == request[t].by IN
    /\ request[t].pc = "look_up"
    /\ IF sessions[s].state \in {"live", "aged"}
       THEN request' = [request EXCEPT ![t].pc = "exchange",
                            ![t].recovered = sessions[s].state = "aged"]
       ELSE Finish(t)
    /\ UNCHANGED <<clock, sessions, cookie, starts, entries, completed, spent>>

\* exchange_code: refused, out of time, not verified; or the person Google names, who is
\* recorded, for a recovered session if it still is one.
Exchange(t, who) ==
    /\ request[t].pc = "exchange"
    /\ IF who = Nobody \/ (request[t].recovered /\ sessions[request[t].by].state # "aged")
       THEN Finish(t)
       ELSE request' = [request EXCEPT ![t].pc = "issue", ![t].who = who]
    /\ UNCHANGED <<clock, sessions, cookie, starts, entries, completed, spent>>

\* Mutant: a session that was signed out meanwhile is replaced as well.
RevokedIsIssued(s) == FALSE

\* PreviousSessionRevoked
Refused(s) == sessions[s].state = "revoked"

\* issue_signed_in_session, and the page the browser is sent to.
Issue(t) ==
    LET q == request[t]
        same == q.who = starts[q.url].expected
        page == IF starts[q.url].purpose = "sign_in" THEN "/ui"
                ELSE IF same THEN "delete" ELSE "switched"
    IN  /\ q.pc = "issue" /\ Len(sessions) < MaxSessions
        /\ IF Refused(q.by) THEN UNCHANGED <<sessions, cookie, completed>>
           ELSE /\ sessions' = Append([sessions EXCEPT ![q.by].state = "revoked"],
                                      [state |-> "live", who |-> q.who])
                /\ cookie' = [cookie EXCEPT ![q.browser] = Len(sessions')]
                /\ completed' = Append(completed,
                        [url |-> q.url, by |-> q.by, who |-> q.who, at |-> q.at, page |-> page,
                         was |-> sessions[q.by].state])
        /\ Finish(t)
        /\ UNCHANGED <<clock, starts, entries, spent>>
-----------------------------------------------------------------------------
(* Sessions end.                                                            *)

\* sign_out: the started sign-in first, then the session.
SignOut(t, b) ==
    LET s == cookie[b] IN
    /\ Free(t) /\ sessions[s].state = "live"
    /\ request' = [request EXCEPT ![t] = [Idle EXCEPT !.pc = "revoke", !.browser = b, !.by = s]]
    /\ entries' = Without(entries, s) /\ spent' = spent \cup Own(entries, s)
    /\ UNCHANGED <<clock, sessions, cookie, starts, completed>>

Revoke(t) ==
    /\ request[t].pc = "revoke"
    /\ sessions' = [sessions EXCEPT ![request[t].by].state = "revoked"]
    /\ Finish(t)
    /\ UNCHANGED <<clock, cookie, starts, entries, completed, spent>>

\* sign_out_everywhere: the account's sessions first, then the started sign-in.
SignOutEverywhere(t, b) ==
    LET s == cookie[b] IN
    /\ Free(t) /\ sessions[s].state = "live" /\ sessions[s].who # Nobody
    /\ request' = [request EXCEPT ![t] = [Idle EXCEPT !.pc = "discard", !.browser = b, !.by = s]]
    /\ sessions' = [k \in DOMAIN sessions |->
            IF sessions[k].who = sessions[s].who /\ sessions[k].state = "live"
            THEN [sessions[k] EXCEPT !.state = "ended"] ELSE sessions[k]]
    /\ UNCHANGED <<clock, cookie, starts, entries, completed, spent>>

Discard(t) ==
    LET s == request[t].by IN
    /\ request[t].pc = "discard" /\ Finish(t)
    /\ entries' = Without(entries, s) /\ spent' = spent \cup Own(entries, s)
    /\ UNCHANGED <<clock, sessions, cookie, starts, completed>>

\* The page finds no session behind its cookie and is given an anonymous one.
NewSession(b) ==
    /\ sessions[cookie[b]].state # "live" /\ Len(sessions) < MaxSessions
    /\ sessions' = Append(sessions, [state |-> "live", who |-> Nobody])
    /\ cookie' = [cookie EXCEPT ![b] = Len(sessions')]
    /\ UNCHANGED <<clock, starts, entries, request, completed, spent>>

\* A session ends on its own: a signed-in one by its 12 hours, any by lying idle.
Lapse ==
    /\ \E s \in DOMAIN sessions, end \in {"aged", "ended"} :
           /\ sessions[s].state = "live" /\ (end = "aged" => sessions[s].who # Nobody)
           /\ sessions' = [sessions EXCEPT ![s].state = end]
    /\ UNCHANGED <<clock, cookie, starts, entries, request, completed, spent>>

Tick ==
    /\ clock < MaxClock /\ clock' = clock + 1
    /\ UNCHANGED <<sessions, cookie, starts, entries, request, completed, spent>>
-----------------------------------------------------------------------------
PendingInit ==
    /\ clock = 0 /\ starts = <<>> /\ entries = {} /\ completed = <<>> /\ spent = {}
    /\ cookie \in [Browsers -> 1 .. Cardinality(Browsers)]
    /\ \A b, c \in Browsers : cookie[b] = cookie[c] => b = c
    /\ sessions \in [1 .. Cardinality(Browsers) -> [state : {"live"}, who : {Nobody} \cup People]]
    /\ request = [t \in Slots |-> Idle]

PendingNext ==
    \/ \E t \in Slots, b \in Browsers :
        \/ \E purpose \in {"sign_in", "delete_account"} : Start(t, b, purpose)
        \/ \E url \in DOMAIN starts, cancelled \in BOOLEAN : CallBack(t, b, url, cancelled)
        \/ SignOut(t, b) \/ SignOutEverywhere(t, b)
    \/ \E t \in Slots :
        \/ Begin(t) \/ LookUp(t) \/ Issue(t) \/ Revoke(t) \/ Discard(t)
        \/ \E who \in {Nobody} \cup People : Exchange(t, who)
    \/ \E b \in Browsers : NewSession(b)
    \/ Lapse \/ Tick

PendingSpec == PendingInit /\ [][PendingNext]_pendingVars
-----------------------------------------------------------------------------
(* Properties.                                                              *)

\* A start is good for one sign-in of the session that made it, in time; a session is
\* replaced once, and never after it was signed out; and the page that deletes an account
\* opens only for the account whose deletion was asked for.
SignInIsItsOwn ==
    /\ \A i, j \in DOMAIN completed :
           i # j => completed[i].url # completed[j].url /\ completed[i].by # completed[j].by
    /\ \A i \in DOMAIN completed :
           LET c == completed[i] IN
           /\ c.by = By(c.url) /\ ~TooOld(c.url, c.at) /\ c.was # "revoked"
           /\ c.page = "delete" =>
                starts[c.url].purpose = "delete_account" /\ sessions[c.by].who = c.who

\* A start stands until its session uses, replaces or drops it or its time is over; only
\* the later starts of MaxPending other sessions can push it out.
StartIsKept ==
    /\ Cardinality(entries) <= MaxPending
    /\ \A n \in DOMAIN starts :
           \/ n \in entries \cup spent \/ TooOld(n, clock)
           \/ Cardinality({By(m) : m \in (n + 1) .. Len(starts)}) >= MaxPending

\* A started sign-in completes once, in time, for the session and the deletion it was
\* started for, and is lost to nothing but its session, its time and a full table.
StartedSignInIsItsOwn == SignInIsItsOwn /\ StartIsKept
=============================================================================
