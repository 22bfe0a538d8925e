------------------------------ MODULE Composer -------------------------------
(***************************************************************************)
(* From the question to the run, in the page (app.js).  Asking the price,  *)
(* the safety warnings and the create are three requests of asynchronous   *)
(* functions; between any two of them the person edits the question, opens *)
(* another view or begins anew.                                            *)
(***************************************************************************)
EXTENDS Naturals, Sequences, FiniteSets

CONSTANTS
    Questions,  \* what the person may ask
    HighStakes, \* the questions the server warns of as high-stakes
    FollowUps,  \* the questions that carry an earlier run as their context
    Bare,       \* each of those without its context
    MaxDrops,   \* bound on estimateGeneration
    MaxQuotes,  \* bound on estimates asked for
    MaxRuns,    \* bound on runs created
    MaxTasks,   \* bound on calls that await an answer
    MaxTicks    \* bound on ticks of the acknowledgement

\* What is left of a question without its context is a question.
ComposerAssumption == FollowUps \subseteq Questions /\ Bare \in [FollowUps -> Questions]

VARIABLES
    form,       \* the question in the composer, with its context
    view,       \* the view that is shown
    generation, \* estimateGeneration
    submitting, \* state.submittingRun
    creating,   \* state.creatingRun
    inFlight,   \* state.createInFlight
    running,    \* state.isRunning
    estimate,   \* state.currentEstimate: the number of a quote, or none
    priced,     \* state.pricedRun
    required,   \* state.highStakesRequired
    ticked,     \* state.highStakesAck
    retry,      \* the error card offers proceedWithRun again
    restoring,  \* an earlier run is being fetched, and no view was opened since
    tasks,      \* calls of startRun and proceedWithRun that await an answer
    quotes,     \* server: the estimates it answered
    active,     \* server: the account has an active run
    started,    \* server: the runs created, oldest first
    ticks       \* ticks the person made

vars == <<form, view, generation, submitting, creating, inFlight, running, estimate, priced,
          required, ticked, retry, restoring, tasks, quotes, active, started, ticks>>
flags == <<generation, submitting, creating, inFlight>>
safety == <<required, ticked, ticks>>
server == <<quotes, active, started>>

NoForm == ""
NoQuote == 0
BareForm == IF form \in FollowUps THEN Bare[form] ELSE form

\* A call: what it awaits, the generation it read, the question it carries, who
\* began it, whether it may go on to the run by itself, and its estimate's band.
Call(at, content, from, auto, band) ==
    [at |-> at, gen |-> generation, content |-> content, from |-> from,
     auto |-> auto, band |-> band, quote |-> NoQuote]

Init ==
    /\ form = NoForm /\ view = "composer"
    /\ generation = 0 /\ submitting = FALSE /\ creating = FALSE /\ inFlight = FALSE
    /\ running = FALSE /\ estimate = NoQuote /\ priced = NoForm
    /\ required = FALSE /\ ticked = FALSE /\ ticks = 0
    /\ retry = FALSE /\ restoring = FALSE
    /\ tasks = {} /\ quotes = <<>> /\ active = FALSE /\ started = <<>>
----------------------------------------------------------------------------
(* The composer and its warning probe.                                      *)

Write(q) ==
    /\ view = "composer" /\ q # form
    /\ q \in FollowUps => form \in FollowUps
    /\ form \in FollowUps => q \in FollowUps
    /\ form' = q
    /\ UNCHANGED <<view, flags, running, retry, estimate, priced, safety, tasks, server>>

\* checkHighStakesWarning, setHighStakesRequired: the answer is about the
\* question as it stood when the latest probe was sent.
ProbeAnswers(q) ==
    /\ required # (q \in HighStakes)
    /\ required' = (q \in HighStakes)
    /\ ticked' = (ticked /\ required')
    /\ UNCHANGED <<form, view, flags, running, retry, estimate, priced, ticks, tasks, server>>

Tick ==
    /\ view = "composer" /\ required /\ ~ticked /\ ticks < MaxTicks
    /\ ticked' = TRUE /\ ticks' = ticks + 1
    /\ UNCHANGED <<form, view, flags, running, retry, estimate, priced, required, tasks, server>>
----------------------------------------------------------------------------
(* startRun and estimateRun.                                                *)

\* "See the estimate" (and the shortcut), or "Run now".
StartRun(auto) ==
    /\ view = "composer" /\ ~submitting /\ ~running
    /\ required => ticked
    /\ form # "" /\ Len(quotes) < MaxQuotes /\ Cardinality(tasks) < MaxTasks
    /\ submitting' = TRUE
    /\ tasks' = tasks \cup {Call("estimate", form, "start", auto, "none")}
    /\ retry' = FALSE
    /\ UNCHANGED <<form, view, generation, creating, inFlight, running, estimate, priced,
                   safety, server>>

\* Mutant: what is in the composer when the price arrives was priced.
PricedAsShown(t) == form

\* The snapshot estimateRun took before it asked.
PricedBy(t) == t.content

Bands == {"allow", "require_confirmation", "block"}
Current(t) == t.gen = generation
Without(t) == tasks \ {t}

\* proceedWithRun from its guards to its first request.
MayProceed(band) == ~creating /\ band # "block"

\* The end of startRun: its button comes back unless the question was dropped.
StartEnds(t) == submitting' = IF t.from = "start" /\ Current(t) THEN FALSE ELSE submitting

\* The end of proceedWithRun.
ProceedEnds(t) ==
    /\ creating' = IF Current(t) THEN FALSE ELSE creating
    /\ inFlight' = IF Current(t) THEN FALSE ELSE inFlight
    /\ StartEnds(t)

\* An estimate is answered and its question was not dropped: a cheap "Run now"
\* goes on to the run, any other opens the cost gate.
EstimateArrives(t) ==
    /\ t \in tasks /\ t.at \in {"estimate", "again"} /\ Current(t)
    /\ \E band \in Bands :
        /\ quotes' = Append(quotes, [content |-> t.content, band |-> band, used |-> FALSE])
        /\ estimate' = Len(quotes') /\ priced' = PricedBy(t)
        /\ IF t.auto /\ band = "allow"
           THEN /\ view' = view
                /\ IF MayProceed(band)
                   THEN /\ creating' = TRUE /\ UNCHANGED <<submitting, inFlight>>
                        /\ tasks' = Without(t) \cup
                               {Call("warnings", priced', "start", FALSE, band)}
                   ELSE /\ StartEnds(t) /\ tasks' = Without(t)
                        /\ UNCHANGED <<creating, inFlight>>
           ELSE /\ view' = "gate" /\ tasks' = Without(t)
                /\ IF t.at = "again" THEN ProceedEnds(t)
                                     ELSE StartEnds(t) /\ UNCHANGED <<creating, inFlight>>
    /\ UNCHANGED <<form, generation, running, retry, safety, active, started>>

\* An estimate of a dropped question, or none at all.
EstimateIsVoid(t) ==
    /\ t \in tasks /\ t.at \in {"estimate", "again"}
    /\ tasks' = Without(t)
    /\ IF t.at = "again" THEN ProceedEnds(t)
                         ELSE StartEnds(t) /\ UNCHANGED <<creating, inFlight>>
    /\ UNCHANGED <<form, view, generation, running, retry, estimate, priced, safety, server>>
----------------------------------------------------------------------------
(* proceedWithRun.                                                          *)

\* The gate's "Confirm & run", also behind a run that began meanwhile, or the
\* error card's "Try again".
Confirm ==
    /\ view = "gate" \/ retry
    /\ estimate # NoQuote /\ MayProceed(quotes[estimate].band) /\ Cardinality(tasks) < MaxTasks
    /\ creating' = TRUE /\ retry' = FALSE
    /\ tasks' = tasks \cup {Call("warnings", priced, "gate", FALSE, quotes[estimate].band)}
    /\ UNCHANGED <<form, view, generation, submitting, inFlight, running, estimate, priced,
                   safety, server>>

\* Mutant: the question may have been dropped while the warnings were asked for.
StillWantedOrNot(t) == TRUE

StillWanted(t) == Current(t)

Warned(t) == t.content \in HighStakes

\* holdForHighStakesAck
Hold(t) ==
    /\ t \in tasks /\ t.at = "warnings" /\ StillWanted(t)
    /\ Warned(t) /\ ~ticked
    /\ estimate' = NoQuote /\ priced' = NoForm /\ view' = "composer" /\ required' = TRUE
    /\ ProceedEnds(t)
    /\ tasks' = Without(t)
    /\ UNCHANGED <<form, generation, running, retry, ticked, ticks, server>>

\* Mutant: the tick stays for the next run.
TickAfterStays == ticked

TickAfterCreate == FALSE

\* The create is sent: with the current estimate's token when the band asks for
\* one, and the tick is cleared.
SendCreate(t) ==
    /\ t \in tasks /\ t.at = "warnings" /\ StillWanted(t)
    /\ Warned(t) => ticked
    /\ t.band = "require_confirmation" => estimate # NoQuote
    /\ ticked' = TickAfterCreate /\ inFlight' = TRUE
    /\ tasks' = Without(t) \cup
           {[t EXCEPT !.at = "create",
                      !.quote = IF t.band = "require_confirmation" THEN estimate ELSE NoQuote]}
    /\ UNCHANGED <<form, view, generation, submitting, creating, running, retry, estimate, priced,
                   required, ticks, server>>

\* The warnings were not answered, came for a dropped question, or the estimate
\* whose token is to be sent is gone.
ProceedIsVoid(t) ==
    /\ t \in tasks /\ t.at = "warnings"
    /\ tasks' = Without(t)
    /\ ProceedEnds(t)
    /\ retry' = (retry \/ Current(t))
    /\ UNCHANGED <<form, view, generation, running, estimate, priced, safety, server>>

Redeems(t) ==
    t.quote # NoQuote => quotes[t.quote].content = t.content /\ ~quotes[t.quote].used
SpentQuotes(t) == IF t.quote = NoQuote THEN quotes ELSE [quotes EXCEPT ![t.quote].used = TRUE]

\* The server creates the run; the page may not hear of it.
Create(t) ==
    /\ t \in tasks /\ t.at = "create" /\ ~active /\ Redeems(t)
    /\ Len(started) < MaxRuns
    /\ active' = TRUE /\ started' = Append(started, t.content) /\ quotes' = SpentQuotes(t)
    /\ \/ running' = TRUE /\ view' = "live"
       \/ UNCHANGED <<running, view>>
    /\ ProceedEnds(t)
    /\ tasks' = Without(t)
    /\ UNCHANGED <<form, generation, retry, estimate, priced, safety>>

\* The server refuses the run, or was not reached.
CreateFails(t) ==
    /\ t \in tasks /\ t.at = "create"
    /\ ProceedEnds(t)
    /\ tasks' = Without(t)
    /\ retry' = (retry \/ Current(t))
    /\ UNCHANGED <<form, view, generation, running, estimate, priced, safety, server>>

\* COST_CONFIRMATION_REQUIRED: what the composer now holds is priced again.
PriceAgain(t) ==
    /\ t \in tasks /\ t.at = "create" /\ Len(quotes) < MaxQuotes
    /\ estimate' = NoQuote
    /\ IF form = ""
       THEN /\ ProceedEnds(t) /\ tasks' = Without(t)
       ELSE /\ tasks' = Without(t) \cup
                   {[t EXCEPT !.at = "again", !.content = form, !.auto = FALSE]}
            /\ UNCHANGED <<submitting, creating, inFlight>>
    /\ UNCHANGED <<form, view, generation, running, retry, priced, safety, server>>
----------------------------------------------------------------------------
(* Leaving the question.                                                    *)

\* Mutant: a dropped estimate leaves its button busy.
SubmittingAfterDropStays == submitting

SubmittingAfterDrop == FALSE

\* dropInFlightEstimate
Drop ==
    /\ generation' = generation + 1
    /\ estimate' = NoQuote /\ priced' = NoForm
    /\ submitting' = SubmittingAfterDrop
    /\ creating' = (creating /\ inFlight)
    /\ UNCHANGED inFlight

Keeps == UNCHANGED <<flags, estimate, priced>>

\* goToNewQuestion, by way of goToComposer.
NewQuestion ==
    /\ ~running /\ ~inFlight /\ generation < MaxDrops
    /\ Drop
    /\ form' = IF view = "result" THEN NoForm ELSE BareForm
    /\ view' = "composer"
    /\ retry' = FALSE
    /\ UNCHANGED <<running, safety, tasks, server>>

\* clearFollowUpContext, from the composer's line or the error card.
DropContext ==
    /\ view = "composer" /\ form \in FollowUps
    /\ form' = BareForm
    /\ IF inFlight THEN Keeps ELSE generation < MaxDrops /\ Drop
    /\ UNCHANGED <<view, running, retry, safety, tasks, server>>

\* gateBackToComposer: the requests on their way go on.
GateBack ==
    /\ view = "gate"
    /\ view' = "composer"
    /\ UNCHANGED <<form, flags, running, retry, estimate, priced, safety, tasks, server>>

\* The browser's back button (applyViewHistoryEntry).
GoBack(to) ==
    /\ ~running /\ ~creating /\ to # view
    /\ to = "result" => Len(started) > 0
    /\ IF submitting THEN generation < MaxDrops /\ Drop ELSE Keeps
    /\ view' = to /\ retry' = FALSE
    /\ UNCHANGED <<form, running, safety, tasks, server>>

\* restoreTrailRun: an earlier run is opened from the trail, and shown unless
\* another view was opened before it came.
OpenEarlier ==
    /\ ~running /\ ~creating /\ Len(started) > 0
    /\ IF submitting THEN generation < MaxDrops /\ Drop ELSE Keeps
    /\ restoring' = TRUE
    /\ UNCHANGED <<form, view, running, retry, safety, tasks, server>>
EarlierArrives ==
    /\ restoring /\ view' = "result" /\ retry' = FALSE
    /\ UNCHANGED <<form, flags, running, estimate, priced, safety, tasks, server>>

\* reviewAndRun: the next question, which may follow up on the result.
NextQuestion(f) ==
    /\ view = "result" /\ ~running
    /\ IF form \in FollowUps /\ ~inFlight THEN generation < MaxDrops /\ Drop ELSE Keeps
    /\ form' = f /\ view' = "composer"
    /\ UNCHANGED <<running, retry, safety, tasks, server>>

\* The account's run ends, and the page that watches it hears of it (finishRun).
RunEnds ==
    /\ active /\ active' = FALSE
    /\ UNCHANGED <<form, view, flags, running, estimate, priced, retry, safety, tasks, quotes, started>>
PageHears ==
    /\ running /\ ~active
    /\ running' = FALSE /\ view' = "result" /\ form' = NoForm
    /\ UNCHANGED <<flags, estimate, priced, retry, safety, tasks, server>>
----------------------------------------------------------------------------
Action ==
    \/ \E q \in Questions : Write(q) \/ ProbeAnswers(q)
    \/ Tick
    \/ \E auto \in BOOLEAN : StartRun(auto)
    \/ Confirm
    \/ \E t \in tasks :
        \/ EstimateArrives(t) \/ EstimateIsVoid(t) \/ Hold(t) \/ SendCreate(t)
        \/ ProceedIsVoid(t) \/ Create(t) \/ CreateFails(t) \/ PriceAgain(t)
    \/ NewQuestion \/ DropContext \/ GateBack
    \/ \E to \in {"composer", "result"} : GoBack(to)
    \/ \E f \in Questions : NextQuestion(f)
    \/ EarlierArrives \/ RunEnds \/ PageHears

\* Opening another view makes an earlier run's answer stale (state.restoreToken).
ComposerNext ==
    \/ Action /\ restoring' = (restoring /\ view' = view)
    \/ OpenEarlier

ComposerSpec == Init /\ [][ComposerNext]_vars
----------------------------------------------------------------------------
Sent == {t \in tasks : t.at = "create"}

\* A run is created only from a question the server priced as it stands and did
\* not block, whatever was written, dropped or asked for while the price and the
\* warnings were on their way; and no create is sent for a dropped question.
RunIsTheOnePriced ==
    /\ \A i \in DOMAIN started : \E k \in DOMAIN quotes :
        quotes[k].content = started[i] /\ quotes[k].band # "block"
    /\ \A t \in Sent : t.gen = generation

\* Every high-stakes run took a tick of its own, made in this page: a tick is not
\* carried over to the next run (clearHighStakesTick).
EachRiskyRunTookItsTick ==
    Cardinality({i \in DOMAIN started : started[i] \in HighStakes}) <= ticks

\* One create is under way at a time, and once nothing is awaited no control stays
\* busy, whichever call ended last (the generation checks of every finally).
ControlsComeBack ==
    /\ Cardinality(Sent) <= 1 /\ (Sent # {} => creating /\ inFlight)
    /\ tasks = {} => ~submitting /\ ~creating /\ ~inFlight
=============================================================================
