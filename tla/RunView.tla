------------------------------- MODULE RunView --------------------------------
(***************************************************************************)
(* The run a page shows (app.js).  A run scope begins with every run that  *)
(* is created, gone back to or restored; polls overlap, a stop races them, *)
(* and each answer may arrive after its scope was left.                    *)
(***************************************************************************)
EXTENDS Naturals, Sequences, FiniteSets

CONSTANTS
    Runs,       \* the account's runs
    Showable,   \* those of them that end with an answer worth a result page
    MaxScopes,  \* bound on run scopes
    MaxPolls,   \* bound on polls that await an answer
    MaxStops    \* bound on clicks on "Stop"

NoRun == "none"
ViewAssumption == Showable \subseteq Runs /\ NoRun \notin Runs

VARIABLES
    server,     \* each run: absent, active or ended
    scope,      \* state.runScope
    currentRun, \* state.currentRunId
    running,    \* state.isRunning
    polling,    \* the poll timer
    view,       \* the view that is shown
    lastResult, \* state.lastResult
    drawn,      \* the run whose snapshot the live view shows
    restoring,  \* the runs being restored whose token is still the current one
    creating,   \* a create awaits its answer
    card,       \* the error card offers the account's active run
    calls,      \* requests that await an answer
    stops,      \* clicks on "Stop"
    trail       \* the session trail: each finished scope with its run

vars == <<server, scope, currentRun, running, polling, view, lastResult, drawn, restoring,
          creating, card, calls, stops, trail>>

NoScope == [id |-> 0, run |-> NoRun, handled |-> FALSE, closed |-> FALSE]
ActiveRuns == {r \in Runs : server[r] = "active"}
Ended(r) == server[r] = "ended"

Init ==
    /\ server = [r \in Runs |-> "absent"]
    /\ scope = NoScope /\ currentRun = NoRun /\ running = FALSE /\ polling = FALSE
    /\ view = "composer" /\ lastResult = NoRun /\ drawn = NoRun /\ restoring = {}
    /\ creating = FALSE /\ card = FALSE /\ calls = {} /\ stops = 0 /\ trail = <<>>
----------------------------------------------------------------------------
(* What several handlers do.                                                *)

ForgetLast == lastResult' = NoRun /\ drawn' = NoRun

\* beginRunScope: nothing of the last run stays on the page.
BeginScope(r, finished) ==
    /\ scope.id < MaxScopes
    /\ scope' = [id |-> scope.id + 1, run |-> r, handled |-> finished, closed |-> FALSE]
    /\ currentRun' = r
    /\ restoring' = {}

\* setView: opening another view makes a restore's answer stale.
Show(v) ==
    /\ view' = v
    /\ restoring' = IF v = view THEN restoring ELSE {}

\* A run is watched: it is drawn from nothing and polled at once.
Watch(r) ==
    /\ BeginScope(r, FALSE) /\ ForgetLast
    /\ running' = TRUE /\ polling' = TRUE /\ view' = "live"

\* finishRun's guard: once per scope, and only the one on screen.
MayFinish(id) == id = scope.id /\ ~scope.handled

\* finishRun
Finish(id) ==
    IF MayFinish(id)
    THEN /\ scope' = [scope EXCEPT !.handled = TRUE]
         /\ polling' = FALSE /\ running' = FALSE
         /\ trail' = Append(trail, [scope |-> id, run |-> scope.run])
         /\ IF scope.run \in Showable
            THEN lastResult' = scope.run /\ Show("result")
            ELSE UNCHANGED <<lastResult, view, restoring>>
    ELSE UNCHANGED <<scope, polling, running, trail, lastResult, view, restoring>>

\* What an answer to a question about run r may say of its end.
Says(c) == IF Ended(c.run) THEN IF c.ended THEN {TRUE} ELSE BOOLEAN ELSE {FALSE}
Asks(kind, r, id) == [kind |-> kind, run |-> r, scope |-> id, ended |-> Ended(r)]
Answered(c) == calls' = calls \ {c}
----------------------------------------------------------------------------
(* The account's runs.                                                      *)

\* One run of the account ends, or another tab starts one.
RunEnds(r) ==
    /\ server[r] = "active"
    /\ server' = [server EXCEPT ![r] = "ended"]
    /\ UNCHANGED <<scope, currentRun, running, polling, view, lastResult, drawn, restoring,
                   creating, card, calls, stops, trail>>
OtherTabStarts(r) ==
    /\ server[r] = "absent" /\ ActiveRuns = {}
    /\ server' = [server EXCEPT ![r] = "active"]
    /\ UNCHANGED <<scope, currentRun, running, polling, view, lastResult, drawn, restoring,
                   creating, card, calls, stops, trail>>
----------------------------------------------------------------------------
(* Starting, watching and stopping.                                         *)

SendCreate ==
    /\ ~creating /\ ~running /\ view = "composer"
    /\ creating' = TRUE /\ card' = FALSE
    /\ UNCHANGED <<server, scope, currentRun, running, polling, view, lastResult, drawn,
                   restoring, calls, stops, trail>>

Created(r) ==
    /\ creating /\ server[r] = "absent" /\ ActiveRuns = {}
    /\ server' = [server EXCEPT ![r] = "active"]
    /\ creating' = FALSE
    /\ Watch(r)
    /\ UNCHANGED <<card, calls, stops, trail>>

\* The account has an active run, or the create failed otherwise; the run it
\* may have made is then another's to this page.
CreateRefused ==
    /\ creating
    /\ creating' = FALSE /\ card' = (ActiveRuns # {})
    /\ UNCHANGED <<server, scope, currentRun, running, polling, view, lastResult, drawn,
                   restoring, calls, stops, trail>>

\* startPolling's tick: polls overlap.
Poll ==
    /\ polling /\ currentRun # NoRun
    /\ Cardinality({c \in calls : c.kind = "poll"}) < MaxPolls
    /\ calls' = calls \cup {Asks("poll", scope.run, scope.id)}
    /\ UNCHANGED <<server, scope, currentRun, running, polling, view, lastResult, drawn,
                   restoring, creating, card, stops, trail>>

\* Mutant: a poll of a scope that was left is drawn.
DrawsAny(c) == ~scope.closed /\ ~scope.handled

\* pollRun's check after its await.
Draws(c) == c.scope = scope.id /\ ~scope.closed /\ ~scope.handled

PollReturns(c) ==
    /\ c \in calls /\ c.kind = "poll"
    /\ \E ended \in Says(c) :
        IF Draws(c)
        THEN /\ drawn' = c.run
             /\ IF ended THEN Finish(scope.id)
                ELSE UNCHANGED <<scope, polling, running, trail, lastResult, view, restoring>>
        ELSE UNCHANGED <<drawn, scope, polling, running, trail, lastResult, view, restoring>>
    /\ Answered(c)
    /\ UNCHANGED <<server, currentRun, creating, card, stops>>

\* cancelRun: no answer to an earlier poll counts until this one is answered.
Stop ==
    /\ currentRun # NoRun /\ scope.id # 0 /\ ~scope.closed /\ ~scope.handled
    /\ view = "live" /\ stops < MaxStops
    /\ scope' = [scope EXCEPT !.closed = TRUE]
    /\ calls' = calls \cup {Asks("stop", scope.run, scope.id)}
    /\ stops' = stops + 1
    /\ UNCHANGED <<server, currentRun, running, polling, view, lastResult, drawn, restoring,
                   creating, card, trail>>

\* The server stopped the run, or it had ended.
StopReturns(c) ==
    /\ c \in calls /\ c.kind = "stop"
    /\ server' = [server EXCEPT ![c.run] = "ended"]
    /\ IF c.scope = scope.id
       THEN drawn' = c.run /\ Finish(c.scope)
       ELSE UNCHANGED <<drawn, scope, polling, running, trail, lastResult, view, restoring>>
    /\ Answered(c)
    /\ UNCHANGED <<currentRun, creating, card, stops>>

\* Mutant: a stop that failed leaves the scope closed.
StaysClosed(c) == scope

Reopened(c) == IF c.scope = scope.id THEN [scope EXCEPT !.closed = FALSE] ELSE scope

\* An answer that is lost; the server may have stopped the run all the same.
CallFails(c) ==
    /\ c \in calls
    /\ scope' = IF c.kind = "stop" THEN Reopened(c) ELSE scope
    /\ server' \in {server} \cup
           (IF c.kind \in {"stop", "stopActive"} THEN {[server EXCEPT ![c.run] = "ended"]} ELSE {})
    /\ Answered(c)
    /\ UNCHANGED <<currentRun, running, polling, view, lastResult, drawn, restoring, creating,
                   card, stops, trail>>
----------------------------------------------------------------------------
(* Going elsewhere.                                                         *)

\* The card's "Go to run" and "Stop it & start new" ask which run is active.
AskActive(kind) ==
    /\ card /\ ActiveRuns # {}
    /\ \E r \in ActiveRuns : calls' = calls \cup {Asks(kind, r, 0)}
    /\ UNCHANGED <<server, scope, currentRun, running, polling, view, lastResult, drawn,
                   restoring, creating, card, stops, trail>>

\* goToActiveRun
GoToRun(c) ==
    /\ c \in calls /\ c.kind = "goto"
    /\ Watch(c.run)
    /\ card' = FALSE
    /\ Answered(c)
    /\ UNCHANGED <<server, creating, stops, trail>>

\* stopActiveRunAndCompose
StoppedOther(c) ==
    /\ c \in calls /\ c.kind = "stopActive"
    /\ server' = [server EXCEPT ![c.run] = "ended"]
    /\ polling' = FALSE /\ currentRun' = NoRun /\ running' = FALSE
    /\ Show("composer")
    /\ card' = FALSE
    /\ Answered(c)
    /\ UNCHANGED <<scope, lastResult, drawn, creating, stops, trail>>

\* restoreTrailRun
Restore(r) ==
    /\ ~running /\ ~creating
    /\ \E i \in DOMAIN trail : trail[i].run = r
    /\ polling' = FALSE
    /\ restoring' = {r}
    /\ UNCHANGED <<server, scope, currentRun, running, view, lastResult, drawn, creating, card,
                   calls, stops, trail>>

Restored(r) ==
    /\ r \in restoring
    /\ BeginScope(r, TRUE)
    /\ lastResult' = r /\ drawn' = NoRun /\ view' = "result" /\ card' = FALSE
    /\ UNCHANGED <<server, running, polling, creating, calls, stops, trail>>

\* The back button, and "New question".
Leave(v) ==
    /\ ~running /\ ~creating /\ v # view
    /\ v = "result" => lastResult # NoRun
    /\ Show(v) /\ card' = FALSE
    /\ UNCHANGED <<server, scope, currentRun, running, polling, lastResult, drawn, creating,
                   calls, stops, trail>>
----------------------------------------------------------------------------
ViewNext ==
    \/ \E r \in Runs : RunEnds(r) \/ OtherTabStarts(r) \/ Created(r) \/ Restore(r) \/ Restored(r)
    \/ SendCreate \/ CreateRefused \/ Poll \/ Stop
    \/ \E c \in calls :
        PollReturns(c) \/ StopReturns(c) \/ CallFails(c) \/ GoToRun(c) \/ StoppedOther(c)
    \/ \E kind \in {"goto", "stopActive"} : AskActive(kind)
    \/ \E v \in {"composer", "result"} : Leave(v)

\* Runs end, the timer ticks, and a poll or a stop does not fail for ever.
ViewFairness ==
    /\ WF_vars(\E r \in Runs : RunEnds(r))
    /\ WF_vars(Poll)
    /\ SF_vars(\E c \in calls : c.scope = scope.id /\ c.ended /\ PollReturns(c))
    /\ WF_vars(\E c \in calls : c.kind = "stop" /\ (StopReturns(c) \/ CallFails(c)))
    /\ WF_vars(\E c \in calls : c.kind = "poll" /\ (PollReturns(c) \/ CallFails(c)))

ViewSpec == Init /\ [][ViewNext]_vars /\ ViewFairness
----------------------------------------------------------------------------
\* The page shows one run at a time: what the live view draws and what the result
\* page holds are the scope's, a page that says it is running polls the run of an
\* unfinished scope, and no scope enters the trail twice, whichever answers come
\* late (runScope, terminalHandled, closed, restoreToken).
OneRunOnScreen ==
    /\ drawn \in {NoRun, scope.run}
    /\ view = "result" => lastResult # NoRun /\ lastResult = scope.run /\ scope.handled
    /\ running => polling /\ ~scope.handled /\ currentRun = scope.run
    /\ \A i, j \in DOMAIN trail : trail[i].scope = trail[j].scope => i = j

\* A page that watches a run comes to rest: it hears of the end, also when a stop
\* fails, is answered late or races a poll that says the same.
WatchedRunIsSettled == running ~> ~running
=============================================================================
