----------------------------- MODULE MCServices -----------------------------
(***************************************************************************)
(* Small instances of what waits for an answer.  They share no state, so   *)
(* each behaviour exercises one of them and the others rest: a call to the *)
(* provider, the model catalogue under three callers, readiness over a     *)
(* catalogue of its own, and the page that watches a run.                  *)
(***************************************************************************)
EXTENDS ProviderCall, FiniteSets

CONSTANTS c1, c2, c3, r1

VARIABLES
    part,               \* what this behaviour exercises
    cache, refreshEvent, setEvents, pc, waitsFor, got, expiries, troubled,
    cache1, refreshEvent1, setEvents1, pc1, waitsFor1, got1, expiries1, troubled1,
    settings, accepts, switches, probe, verdict, keyAuth, report,
    server, scope, currentRun, running, polling, view, lastResult, drawn, restoring,
    creating, card, calls, stops, trail

Catalogue == INSTANCE ModelCatalogue WITH Callers <- {c1, c2, c3}, MaxExpiries <- 1
Ready == INSTANCE Readiness WITH
            Callers <- {c1}, MaxExpiries <- 1, Switches <- 1,
            cache <- cache1, refreshEvent <- refreshEvent1, setEvents <- setEvents1,
            pc <- pc1, waitsFor <- waitsFor1, got <- got1, expiries <- expiries1,
            troubled <- troubled1
Page == INSTANCE RunView WITH
            Runs <- {r1}, Showable <- {r1}, MaxScopes <- 2, MaxPolls <- 2, MaxStops <- 1

ASSUME ServicesInstance == Catalogue!CallersAssumption /\ Ready!CallersAssumption /\ Page!ViewAssumption

catalogueVars == <<cache, refreshEvent, setEvents, pc, waitsFor, got, expiries, troubled>>
readyVars == <<cache1, refreshEvent1, setEvents1, pc1, waitsFor1, got1, expiries1, troubled1,
               settings, accepts, switches, probe, verdict, keyAuth, report>>
pageVars == <<server, scope, currentRun, running, polling, view, lastResult, drawn, restoring,
              creating, card, calls, stops, trail>>
allVars == <<part, vars, catalogueVars, readyVars, pageVars>>

CallRests == Init /\ request = CHOOSE r \in Asked : TRUE
ReadyRests == Ready!Init /\ settings = [live |-> FALSE, key |-> FALSE] /\ accepts

ServicesInit ==
    /\ part \in {"call", "catalogue", "ready", "page"}
    /\ IF part = "call" THEN Init ELSE CallRests
    /\ Catalogue!CatalogueInit
    /\ IF part = "ready" THEN Ready!Init ELSE ReadyRests
    /\ Page!Init

CallPart ==
    /\ part = "call" /\ CallNext
    /\ UNCHANGED <<part, catalogueVars, readyVars, pageVars>>
CataloguePart ==
    /\ part = "catalogue" /\ Catalogue!CatalogueNext
    /\ UNCHANGED <<part, vars, readyVars, pageVars>>
ReadyPart ==
    /\ part = "ready" /\ Ready!ReadyNext
    /\ UNCHANGED <<part, vars, catalogueVars, pageVars>>
PagePart ==
    /\ part = "page" /\ Page!ViewNext
    /\ UNCHANGED <<part, vars, catalogueVars, readyVars>>
ServicesNext == CallPart \/ CataloguePart \/ ReadyPart \/ PagePart

\* At rest only the call's worker could move: a page without a run has nothing to
\* ask.
ServicesSpec ==
    /\ ServicesInit /\ [][ServicesNext]_allVars
    /\ WF_vars(part = "call" /\ (Begin \/ Open \/ TimesOut \/ Classify \/ Supplement))
    /\ WF_vars(part = "call" /\ Tick)
    /\ Catalogue!CatalogueFairness
    /\ Ready!Fairness
    /\ Page!ViewFairness

(* ProviderCall.CallReturns, ModelCatalogue.EveryCallReturns and               *)
(* RunView.WatchedRunIsSettled: whatever the provider sends, whichever fetch   *)
(* fails or is overtaken, and whichever poll or stop fails or comes late, each *)
(* caller gets its answer and a page that watches a run comes to rest.         *)
EveryCallerReturns ==
    (part = "call" => CallReturns) /\ Catalogue!EveryCallReturns /\ Page!WatchedRunIsSettled

(* ProviderCall.PaidOnlyAsReported and UnmarkedAnswerIsWhole: a call is billed *)
(* as what came back reports, and an answer without a mark is all of it, but   *)
(* for a stop that follows an error frame without a reason.                    *)
AnswerIsAsItCame == PaidOnlyAsReported /\ UnmarkedAnswerIsWhole

(* ModelCatalogue.AnnouncedFetchIsRunning (of both catalogues) and             *)
(* SingleFlight: nobody is sent to wait for a fetch that has ended, and nobody *)
(* fetches beside one that has not failed or expired.                          *)
FetchIsSharedWhileItRuns ==
    /\ Catalogue!AnnouncedFetchIsRunning /\ Ready!AnnouncedFetchIsRunning
    /\ Catalogue!SingleFlight

(* Readiness.InconclusiveNeverErases and VerdictCatchesUp: what is reported of *)
(* the key is the provider's last word, and in the end its standing one.       *)
ProbeReportIsTheProvidersWord == Ready!InconclusiveNeverErases /\ Ready!VerdictCatchesUp
=============================================================================
