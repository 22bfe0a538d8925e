---------------------------- MODULE PostureWatch ----------------------------
(***************************************************************************)
(* The watchdog over the switch that lets visitors spend money             *)
(* (live_posture_check.py and its workflow): it compares production with   *)
(* the declared windows and opens or closes an alert.  Production changes  *)
(* by a deploy or by a secret that overrides it, the declaration by a      *)
(* merge; the watchdog reads one endpoint after another, and each read may *)
(* fail.                                                                   *)
(***************************************************************************)
EXTENDS DeclaredWindows

CONSTANTS
    NumHosts,           \* how many host names production is probed at
    Declarations,       \* what may be declared: sequences of entries
    Adrs,               \* the decision records that authorise a standing window
    Starts,             \* the moments a check is looked at from
    Earlier,            \* what may stand on the issues by then: sets of comments
    MaxMoves            \* how often the world moves while it runs

\* A re-affirmation is made on an issue, by the clock.
WatchAssumption ==
    /\ NumHosts \in Nat \ {0} /\ Cadence \in Nat /\ Starts \subseteq Int
    /\ \A ws \in Declarations : AreEntries(ws)
    /\ \A cs \in Earlier : \A c \in cs : c.at \in Int /\ c.issue # NoIssue

VARIABLES
    clock,
    authorised,         \* the records that still authorise one
    main,               \* the branch that is deployed and checked out
    prod,               \* production: [live, judge]
    secret,             \* the secret that overrides the flag, "none" if unset
    comments,           \* re-affirmations on the issues
    watch,              \* the watchdog's run
    alert,              \* the alert issue is open
    moves

watchVars == <<clock, authorised, main, prod, secret, comments, watch, alert, moves>>
production == <<prod, secret>>
world == <<clock, authorised, main, production, comments, moves>>

Hosts == 1 .. NumHosts
NoWatch == [pc |-> "idle", now |-> 0, trusted |-> FALSE, windows |-> <<>>,
            ready |-> [h \in Hosts |-> "unread"], judge |-> [h \in Hosts |-> "unread"],
            notes |-> <<>>, decision |-> "none", complete |-> FALSE,
            crashed |-> FALSE, seen |-> {}]

\* parse_reaffirmations over what the issue's URL returns, two cadences back.
Reaffirmations(issue, now) ==
    {c \in comments : c.issue = issue /\ c.at >= now - 2 * Cadence /\ c.at <= now /\ c.by # "app"}

AttendedSince(w, entries) ==
    LET own == {c.at : c \in {c \in entries : c.window = w.opened /\ c.by = "owner"}}
    IN  CHOOSE t \in own \cup {w.opened} : \A u \in own \cup {w.opened} : u <= t

IsAttended(w, now, entries) == now - AttendedSince(w, entries) < Cadence
-----------------------------------------------------------------------------
(* The verdict (evaluate_posture).                                          *)

\* The window a report speaks of: the longest cover, then the one opened first.
Governing(ws, active) ==
    CHOOSE i \in active : \A j \in active \ {i} :
        \/ Outlasts(ws[i], ws[j])
        \/ /\ ~Outlasts(ws[j], ws[i])
           /\ ws[i].opened < ws[j].opened \/ (ws[i].opened = ws[j].opened /\ i < j)

\* Mutant: a window is sanctioned if the one the report speaks of is attended.
SomeUnattendedGoverning(ws, active, now, entriesOf) ==
    LET i == Governing(ws, active) IN ~IsAttended(ws[i], now, entriesOf[i])

SomeUnattended(ws, active, now, entriesOf) ==
    \E i \in active : ~IsAttended(ws[i], now, entriesOf[i])

Unreadable == <<>>
Says(decision, complete) == [decision |-> decision, complete |-> complete]

\* Something is live: what covers it, whether its word can be checked, who attends it, and
\* whether the judge is in it, in that order.
LivePosture(judge, notes, ws, now, complete) ==
    LET active == Active(ws, now)
        g == Governing(ws, active)
        known == {h \in Hosts : judge[h] # "down"}
        entriesOf == [i \in active |->
            IF ws[i].issue = NoIssue \/ notes[ws[i].issue] = Unreadable THEN {}
            ELSE notes[ws[i].issue][1]]
    IN  IF active = {} THEN
            Says(IF \E i \in DOMAIN ws : ws[i].expires # None /\ ws[i].expires <= now
                 THEN "live_past_declared_window" ELSE "live_undeclared", complete)
        ELSE IF ws[g].issue # NoIssue /\ notes[ws[g].issue] = Unreadable THEN Says("unknown", FALSE)
        ELSE IF known = {} THEN Says("unknown", FALSE)
        ELSE IF SomeUnattended(ws, active, now, entriesOf)
        THEN Says("live_reaffirmation_lapsed", complete)
        ELSE IF (\E h \in known : judge[h] = "on") /\ ~\E i \in active : ws[i].judge
        THEN Says("live_judge_undeclared", complete)
        ELSE Says(IF Standing(ws[g]) THEN "live_within_standing_declaration"
                  ELSE "live_within_declared_window", complete)

EvaluatePosture(ready, judge, notes, trusted, ws, now) ==
    LET answered == {h \in Hosts : ready[h] # "down"}
        complete == answered = Hosts /\ \A h \in Hosts : judge[h] # "down"
    IN  IF answered = {} THEN Says("unknown", FALSE)
        ELSE IF (\E h \in answered : ready[h] = "odd") \/ ~trusted THEN Says("unknown", complete)
        ELSE IF \A h \in answered : ready[h] = "off" THEN Says("off_as_declared", complete)
        ELSE LivePosture(judge, notes, ws, now, complete)

ShouldAlert(decision) ==
    decision \in {"live_undeclared", "live_past_declared_window", "live_reaffirmation_lapsed",
                  "live_judge_undeclared", "unknown"}
-----------------------------------------------------------------------------
(* Production, and the people who attend it.                                *)

Moves(p) == /\ prod' = p
            /\ watch' = [watch EXCEPT !.seen = IF watch.pc = "idle" THEN {} ELSE @ \cup {p}]

\* A change of the declaration or of the flag that the gate lets through.
Merge ==
    /\ \E ws \in Declarations, live \in {"on", "off"} :
           /\ main' = [windows |-> ws, live |-> live, peer |-> "off"]
           /\ Gate(main', authorised, clock)
    /\ UNCHANGED <<clock, authorised, production, comments, watch>>

Revoke ==
    /\ \E a \in authorised : authorised' = authorised \ {a}
    /\ UNCHANGED <<clock, main, production, comments, watch>>

Deploy ==
    /\ Moves([prod EXCEPT !.live = IF secret = "none" THEN main.live = "on" ELSE secret = "on"])
    /\ UNCHANGED <<clock, authorised, main, secret, comments>>

SetSecret ==
    /\ \/ \E s \in {"on", "off"} : secret' = s /\ Moves([prod EXCEPT !.live = (s = "on")])
       \/ secret' = secret /\ Moves([prod EXCEPT !.judge = ~@])
    /\ UNCHANGED <<clock, authorised, main, comments>>

Comment(w, at, by) == [issue |-> w.issue, at |-> at, window |-> w.opened, by |-> by]
Reaffirm ==
    /\ \E i \in DOMAIN main.windows, by \in {"owner", "other", "app"} :
           /\ main.windows[i].issue # NoIssue
           /\ comments' = comments \cup {Comment(main.windows[i], clock, by)}
    /\ UNCHANGED <<clock, authorised, main, production, watch>>

Tick ==
    /\ clock' = clock + 1
    /\ UNCHANGED <<authorised, main, production, comments, watch>>

World ==
    /\ moves < MaxMoves /\ watch.pc \in {"ready", "judge", "issues"}
    /\ moves' = moves + 1 /\ UNCHANGED alert
    /\ Merge \/ Revoke \/ Deploy \/ SetSecret \/ Reaffirm \/ Tick
-----------------------------------------------------------------------------
(* The watchdog: one job at a time, its checkout of main, and one read after *)
(* the other.                                                               *)

StartWatch ==
    /\ watch.pc = "idle"
    /\ watch' = [NoWatch EXCEPT !.pc = "ready", !.now = clock, !.seen = {prod},
                    !.windows = main.windows, !.trusted = Trusted(main.windows, authorised)]
    /\ UNCHANGED <<world, alert>>

\* The hosts are read in their order.
NextHost(readings, h) ==
    readings[h] = "unread" /\ \A k \in 1 .. (h - 1) : readings[k] # "unread"
AfterHost(h, here, next) == IF h = NumHosts THEN next ELSE here

ReadReady(h) ==
    /\ watch.pc = "ready" /\ NextHost(watch.ready, h)
    /\ \E state \in {IF prod.live THEN "on" ELSE "off", "down", "odd"} :
           watch' = [watch EXCEPT !.ready[h] = state, !.pc = AfterHost(h, "ready", "judge")]
    /\ UNCHANGED <<world, alert>>

ReadJudge(h) ==
    /\ watch.pc = "judge" /\ NextHost(watch.judge, h)
    /\ \E state \in {IF prod.judge THEN "on" ELSE "off", "down"} :
           watch' = [watch EXCEPT !.judge[h] = state, !.pc = AfterHost(h, "judge", "issues")]
    /\ UNCHANGED <<world, alert>>

\* The issues of the windows that cover now, asked only while something is live.
Asked ==
    IF watch.trusted /\ \E h \in Hosts : watch.ready[h] \notin {"down", "off"}
    THEN {watch.windows[i].issue : i \in Active(watch.windows, watch.now)} \ {NoIssue}
    ELSE {}

ReadIssues ==
    /\ watch.pc = "issues"
    /\ \E readable \in SUBSET Asked :
         LET notes == [k \in Asked |-> IF k \in readable THEN <<Reaffirmations(k, watch.now)>>
                                       ELSE Unreadable]
             verdict == EvaluatePosture(watch.ready, watch.judge, notes, watch.trusted,
                                        watch.windows, watch.now)
         IN  watch' = [watch EXCEPT !.pc = "verdict", !.notes = notes,
                            !.decision = verdict.decision, !.complete = verdict.complete]
    /\ UNCHANGED <<world, alert>>

\* A crash is reported as "unknown", over whatever was read.
WatchCrashes ==
    /\ watch.pc \in {"ready", "judge", "issues"}
    /\ watch' = [watch EXCEPT !.pc = "verdict", !.decision = "unknown", !.complete = TRUE,
                                  !.crashed = TRUE]
    /\ UNCHANGED <<world, alert>>

\* The workflow's issue: opened by an alerting verdict, closed by a complete one that is not.
AlertAfter(decision, complete) ==
    IF ShouldAlert(decision) THEN TRUE ELSE alert /\ ~complete

Report ==
    /\ watch.pc = "verdict"
    /\ alert' = AlertAfter(watch.decision, watch.complete)
    /\ watch' = [watch EXCEPT !.pc = "reported"]
    /\ UNCHANGED world

\* The issue tracker does not answer: nothing is opened or closed this time.
ReportFails ==
    /\ watch.pc = "verdict" /\ watch' = [watch EXCEPT !.pc = "over"]
    /\ UNCHANGED <<world, alert>>
-----------------------------------------------------------------------------
WatchInit ==
    /\ clock \in Starts /\ authorised = Adrs
    /\ \E ws \in Declarations, live \in {"on", "off"} :
           main = [windows |-> ws, live |-> live, peer |-> "off"]
    /\ prod \in [live : BOOLEAN, judge : BOOLEAN] /\ secret = "none"
    /\ comments \in Earlier /\ watch = NoWatch /\ alert \in BOOLEAN
    /\ moves = 0

WatchNext ==
    \/ World
    \/ StartWatch \/ ReadIssues \/ WatchCrashes \/ Report \/ ReportFails
    \/ \E h \in Hosts : ReadReady(h) \/ ReadJudge(h)

WatchSpec == WatchInit /\ [][WatchNext]_watchVars
-----------------------------------------------------------------------------
(* Properties.                                                              *)

\* What it takes to spend with somebody's word: every window that covers the moment is
\* attended by its owner, and one of them names the judge if it is on.
Sanctioned(judge) ==
    LET covering == Active(watch.windows, watch.now)
        Attended(w) == \/ watch.now - w.opened < Cadence
                       \/ \E c \in comments :
                            /\ c.issue = w.issue /\ c.window = w.opened /\ c.by = "owner"
                            /\ c.at <= watch.now /\ watch.now - c.at < Cadence
    IN  /\ watch.trusted /\ covering # {}
        /\ \A i \in covering : Attended(watch.windows[i])
        /\ judge => \E i \in covering : watch.windows[i].judge

\* A production that was live from a check's start to its end, and not sanctioned by the
\* declaration checked out, has its alert open when the check has reported: whichever
\* endpoint was down, whatever was declared, re-affirmed or deployed in between.
AlertIsOwed ==
    watch.pc = "reported" /\ (\A p \in watch.seen : p.live)
        /\ ~Sanctioned(\A p \in watch.seen : p.judge) => alert

\* A check that could read everything raises no alarm over a production that was off all
\* the time, or sanctioned whatever its judge did, and closes the alert that stood.
NoFalseAlarm ==
    LET steadyOff == \A p \in watch.seen : ~p.live
        steadyOn == \A p \in watch.seen : p.live
        early == \A c \in comments : c.at < watch.now
        readAll == /\ \A h \in Hosts : watch.ready[h] \in {"on", "off"}
                   /\ \A h \in Hosts : watch.judge[h] \in {"on", "off"}
                   /\ \A k \in DOMAIN watch.notes : watch.notes[k] # Unreadable
    IN  watch.pc = "reported" /\ readAll /\ ~watch.crashed
            /\ \/ steadyOff /\ watch.trusted
               \/ steadyOn /\ early /\ Sanctioned(\E p \in watch.seen : p.judge)
        => ~ShouldAlert(watch.decision) /\ ~alert
=============================================================================
