---------------------------- MODULE ServicesProofs ----------------------------
(* What waits for an answer, for every number of those that wait: the       *)
(* catalogue's callers, alone and under the requests of Readiness, the page   *)
(* that polls and stops its runs, its tabs that share a token, and its        *)
(* composer that asks for a price, a warning and a run.                       *)
EXTENDS Readiness, Sequences, FiniteSetTheorems, TLAPS

CONSTANTS Runs, Showable, MaxScopes, MaxPolls, MaxStops
VARIABLES server, scope, currentRun, running, polling, view, lastResult, drawn, restoring,
          creating, card, calls, stops, trail

Page == INSTANCE RunView

CONSTANTS Tabs, Renewals, TabOf, People, MaxSwitches, MaxClears
VARIABLES owner, issued, counter, gens, signIns, messages, open, tab, tabPc, number, answer

Tokens == INSTANCE TabTokens WITH switches <- signIns, pc <- tabPc

-----------------------------------------------------------------------------
(* The catalogue's callers.                                                   *)

\* A caller has an event in hand from the moment it decides to wait until it looks again.
WaitsForAnEvent == \A c \in Callers : waitsFor[c] # NoEvent <=> pc[c] \in {"waiting", "woken"}

\* The event that callers are sent to wait for is still to be set.
AnnouncedIsUnset == refreshEvent \notin setEvents

\* Until the first trouble: a fetch under way is announced and is the only one; whoever
\* waits either waits for it or has been woken by one that left a catalogue; and nobody
\* who waited starts a fetch of its own.
Sharing ==
    /\ Fetching # {} => refreshEvent # NoEvent
    /\ \A c, d \in Fetching : c = d
    /\ \A c \in Callers :
         /\ pc[c] = "waiting" => waitsFor[c] = refreshEvent \/ (waitsFor[c] \in setEvents /\ cache)
         /\ pc[c] \in {"woken", "leaving"} => cache
         /\ pc[c] # "installing"

CatalogueInv ==
    /\ CatalogueTypeOK /\ WaitsForAnEvent /\ AnnouncedIsUnset /\ AnnouncedFetchIsRunning
    /\ ~troubled => Sharing

-----------------------------------------------------------------------------
(* There are more numbers than events in use, so a new event has one to take. *)
LEMMA FreshEventIsFree ==
    ASSUME CallersAssumption, NEW c \in Callers, waitsFor[c] = NoEvent,
           waitsFor \in [Callers -> EventIds \cup {NoEvent}]
    PROVE  FreshEvent \in EventIds /\ FreshEvent # refreshEvent
<1> DEFINE others == Callers \ {c}
           f == [d \in others |-> waitsFor[d]]
           held == {f[d] : d \in others}
           inUse == held \cup {refreshEvent}
<1>1. IsFiniteSet(others) /\ Cardinality(others) = Cardinality(Callers) - 1 /\ Cardinality(Callers) \in Nat
    BY FS_RemoveElement, FS_CardinalityType DEF CallersAssumption
<1>2. f \in Surjection(others, held)
    <2>1. f \in [others -> held]
        OBVIOUS
    <2>2. \A t \in held : \E d \in others : f[d] = t
        OBVIOUS
    <2> HIDE DEF f, held, others
    <2> QED BY <2>1, <2>2 DEF Surjection
<1>3. IsFiniteSet(held) /\ Cardinality(held) <= Cardinality(others)
    BY <1>1, <1>2, FS_Surjection
<1>4. Cardinality(held) \in Nat
    BY <1>3, FS_CardinalityType
<1>5. IsFiniteSet(inUse) /\ Cardinality(inUse) <= Cardinality(held) + 1
    <2> HIDE DEF held, others
    <2>1. /\ IsFiniteSet(held \cup {refreshEvent})
          /\ Cardinality(held \cup {refreshEvent}) =
                IF refreshEvent \in held THEN Cardinality(held) ELSE Cardinality(held) + 1
        BY <1>3, FS_AddElement
    <2> QED BY <1>4, <2>1
<1>6. Cardinality(EventIds) = Cardinality(Callers) + 1
    BY <1>1, FS_Interval DEF EventIds
<1>7. ~(EventIds \subseteq inUse)
    <2> SUFFICES ASSUME EventIds \subseteq inUse PROVE FALSE
        OBVIOUS
    <2>1. Cardinality(EventIds) <= Cardinality(inUse)
        <3> HIDE DEF inUse
        <3> QED BY <1>5, FS_Subset
    <2>2. Cardinality(inUse) \in Nat
        BY <1>5, FS_CardinalityType
    <2> HIDE DEF inUse, held, others
    <2> QED BY <1>1, <1>3, <1>4, <1>5, <1>6, <2>1, <2>2
<1>8. \E e \in EventIds : e # refreshEvent /\ \A d \in Callers : waitsFor[d] # e
    <2>1. PICK e \in EventIds : e \notin inUse
        BY <1>7
    <2>2. e # NoEvent
        BY DEF EventIds, NoEvent
    <2> QED BY <2>1, <2>2
<1> QED BY <1>8 DEF FreshEvent

-----------------------------------------------------------------------------
(* Every step keeps the invariant.                                           *)
LEMMA CatalogueStarts ==
    ASSUME CallersAssumption, CatalogueInit PROVE CatalogueInv
<1>1. CatalogueTypeOK
    <2>1. expiries \in 0 .. MaxExpiries
        BY DEF CallersAssumption, CatalogueInit
    <2>2. cache \in BOOLEAN /\ troubled \in BOOLEAN
        BY Zenon DEF CatalogueInit
    <2> QED BY <2>1, <2>2 DEF CatalogueInit, CatalogueTypeOK
<1>2. Fetching = {}
    BY DEF CatalogueInit, Fetching
<1>3. WaitsForAnEvent /\ AnnouncedIsUnset /\ AnnouncedFetchIsRunning /\ Sharing
    BY <1>2 DEF CatalogueInit, WaitsForAnEvent, AnnouncedIsUnset, AnnouncedFetchIsRunning, Sharing
<1> QED BY <1>1, <1>3 DEF CatalogueInv

(* A caller that takes a fetch upon itself, by the first look or after waiting. *)
LEMMA FetchBegins ==
    ASSUME CallersAssumption, CatalogueInv, NEW c \in Callers, StartFetch(c) \/ TakeOver(c)
    PROVE  CatalogueInv'
<1> USE DEF CatalogueInv
<1>1. /\ waitsFor[c] = NoEvent /\ pc' = [pc EXCEPT ![c] = "fetching"]
      /\ refreshEvent' = FreshEvent /\ setEvents' = setEvents \ {FreshEvent}
      /\ UNCHANGED <<cache, waitsFor, got, expiries, troubled>>
    BY DEF StartFetch, TakeOver, NewEvent, Goto, WaitsForAnEvent
<1>2. FreshEvent \in EventIds /\ FreshEvent # NoEvent
    BY <1>1, FreshEventIsFree DEF CatalogueTypeOK, EventIds, NoEvent
<1>3. CatalogueTypeOK' /\ AnnouncedIsUnset'
    BY <1>1, <1>2 DEF CatalogueTypeOK, AnnouncedIsUnset
<1>4. WaitsForAnEvent'
    BY <1>1 DEF CatalogueTypeOK, WaitsForAnEvent
<1>5. Fetching' = Fetching \cup {c}
    BY <1>1 DEF CatalogueTypeOK, Fetching
<1>6. AnnouncedFetchIsRunning'
    BY <1>5 DEF AnnouncedFetchIsRunning
<1>7. ASSUME ~troubled' PROVE Sharing'
    <2>1. Sharing /\ ~cache /\ Fetching = {} /\ refreshEvent = NoEvent
        BY <1>1, <1>7 DEF StartFetch, TakeOver, Sharing
    <2>2. \A d \in Callers : pc[d] # "waiting"
        BY <2>1 DEF Sharing, WaitsForAnEvent
    <2> QED
        BY <1>1, <1>2, <1>5, <2>1, <2>2 DEF Sharing, CatalogueTypeOK
<1> QED BY <1>3, <1>4, <1>6, <1>7

(* A fetch ends: its result is published, and whatever event is announced is set. *)
LEMMA FetchReturns ==
    ASSUME CatalogueInv, NEW c \in Callers,
           FetchEnds(c) \/ FetchFails(c) \/ Publish(c) \/ ClearEvent(c)
    PROVE  CatalogueInv'
<1> USE DEF CatalogueInv
<1>1. CASE FetchEnds(c) \/ Publish(c)
    <2>1. /\ refreshEvent' = refreshEvent /\ setEvents' = setEvents /\ waitsFor' = waitsFor /\ troubled' = troubled
          /\ Fetching' = Fetching
        BY <1>1 DEF FetchEnds, Publish, Goto, CatalogueTypeOK, Fetching, cacheVars
    <2>2. CatalogueTypeOK' /\ WaitsForAnEvent'
        BY <1>1 DEF FetchEnds, Publish, Goto, CatalogueTypeOK, WaitsForAnEvent, cacheVars
    <2>3. AnnouncedIsUnset' /\ AnnouncedFetchIsRunning'
        BY <2>1 DEF AnnouncedIsUnset, AnnouncedFetchIsRunning
    <2>4. ASSUME ~troubled' PROVE Sharing'
        BY <1>1, <2>1, <2>4 DEF FetchEnds, Publish, Goto, CatalogueTypeOK, Sharing, cacheVars
    <2> QED BY <2>2, <2>3, <2>4
<1>2. CASE FetchFails(c)
    <2>1. Fetching' = Fetching /\ troubled' /\ refreshEvent' = refreshEvent /\ setEvents' = setEvents
        BY <1>2 DEF FetchFails, Goto, CatalogueTypeOK, Fetching, cacheVars
    <2>2. CatalogueTypeOK' /\ WaitsForAnEvent'
        BY <1>2 DEF FetchFails, Goto, CatalogueTypeOK, WaitsForAnEvent, cacheVars
    <2> QED BY <2>1, <2>2 DEF AnnouncedIsUnset, AnnouncedFetchIsRunning
<1>3. CASE ClearEvent(c)
    <2>1. /\ refreshEvent' = NoEvent /\ pc' = [pc EXCEPT ![c] = "returned"] /\ pc[c] = "leaving"
          /\ setEvents' = setEvents \cup ({refreshEvent} \ {NoEvent})
          /\ UNCHANGED <<cache, waitsFor, got, expiries, troubled>>
        BY <1>3 DEF ClearEvent, Goto
    <2>2. CatalogueTypeOK' /\ WaitsForAnEvent'
        BY <2>1 DEF CatalogueTypeOK, WaitsForAnEvent
    <2>3. AnnouncedIsUnset' /\ AnnouncedFetchIsRunning'
        BY <2>1, <2>2 DEF AnnouncedIsUnset, AnnouncedFetchIsRunning, CatalogueTypeOK, EventIds, NoEvent
    <2>4. ASSUME ~troubled' PROVE Sharing'
        <3>1. Sharing /\ cache /\ Fetching = {c}
            BY <2>1, <2>4 DEF Sharing, Fetching
        <3>2. Fetching' = {}
            BY <2>1, <3>1 DEF CatalogueTypeOK, Fetching
        <3>3. ASSUME NEW d \in Callers, pc'[d] = "waiting" PROVE waitsFor'[d] \in setEvents'
            BY <2>1, <3>1, <3>3 DEF CatalogueTypeOK, Sharing, WaitsForAnEvent
        <3> QED BY <2>1, <3>1, <3>2, <3>3 DEF Sharing, CatalogueTypeOK
    <2> QED BY <2>2, <2>3, <2>4
<1> QED BY <1>1, <1>2, <1>3

(* A caller is served from the cache, waits, wakes and looks again, or is done. *)
LEMMA CallersWait ==
    ASSUME CatalogueInv, NEW c \in Callers,
           \/ ServeCached(c) \/ StartWait(c) \/ Wake(c) \/ WaitTimesOut(c) \/ LookAgain(c) \/ EndCall(c)
    PROVE  CatalogueInv'
<1> USE DEF CatalogueInv
<1>1. /\ refreshEvent' = refreshEvent /\ setEvents' = setEvents /\ cache' = cache
      /\ Fetching' = Fetching
    BY DEF ServeCached, StartWait, Wake, WaitTimesOut, LookAgain, EndCall, Goto, Return, CatalogueTypeOK,
        Fetching, cacheVars
<1>2. CatalogueTypeOK'
    BY DEF ServeCached, StartWait, Wake, WaitTimesOut, LookAgain, EndCall, Goto, Return, CatalogueTypeOK,
        cacheVars, Nothing, NoEvent
<1>3. WaitsForAnEvent'
    BY DEF ServeCached, StartWait, Wake, WaitTimesOut, LookAgain, EndCall, Goto, Return, CatalogueTypeOK,
        cacheVars, WaitsForAnEvent
<1>4. AnnouncedIsUnset' /\ AnnouncedFetchIsRunning'
    BY <1>1 DEF AnnouncedIsUnset, AnnouncedFetchIsRunning
<1>5. ASSUME ~troubled' PROVE Sharing'
    <2>1. Sharing /\ ~WaitTimesOut(c)
        BY <1>5 DEF ServeCached, StartWait, Wake, WaitTimesOut, LookAgain, EndCall
    <2>2. CASE Wake(c)
        <3>1. cache
            BY <2>1, <2>2 DEF Wake, Sharing, AnnouncedIsUnset
        <3> QED BY <1>1, <2>1, <2>2, <3>1 DEF Wake, Goto, Sharing, CatalogueTypeOK
    <2>3. CASE LookAgain(c)
        <3>1. cache
            BY <2>1, <2>3 DEF LookAgain, Sharing
        <3> QED BY <1>1, <2>1, <2>3, <3>1 DEF LookAgain, Return, Goto, Sharing, CatalogueTypeOK
    <2>4. CASE ServeCached(c) \/ StartWait(c) \/ EndCall(c)
        BY <1>1, <2>1, <2>4 DEF ServeCached, StartWait, EndCall, Return, Goto, Sharing, CatalogueTypeOK
    <2> QED BY <2>1, <2>2, <2>3, <2>4
<1> QED BY <1>2, <1>3, <1>4, <1>5

(* The time to live passes; while anyone fetches or waits that is trouble.    *)
LEMMA CacheExpires ==
    ASSUME CallersAssumption, CatalogueInv, Expire PROVE CatalogueInv'
<1> USE DEF CatalogueInv
<1>1. UNCHANGED <<refreshEvent, setEvents, pc, waitsFor, got>> /\ Fetching' = Fetching /\ Waiting' = Waiting
    BY DEF Expire, Fetching, Waiting
<1>2. CatalogueTypeOK' /\ WaitsForAnEvent' /\ AnnouncedIsUnset' /\ AnnouncedFetchIsRunning'
    <2>1. expiries' \in 0 .. MaxExpiries
        BY DEF Expire, CallersAssumption, CatalogueTypeOK
    <2>2. cache' \in BOOLEAN /\ troubled' \in BOOLEAN
        BY Zenon DEF Expire
    <2> QED BY <1>1, <2>1, <2>2 DEF CatalogueTypeOK, WaitsForAnEvent, AnnouncedIsUnset, AnnouncedFetchIsRunning
<1>3. ASSUME ~troubled' PROVE Sharing'
    <2>1. Fetching = {} /\ Waiting = {}
        BY <1>3 DEF Expire, CatalogueTypeOK
    <2> QED BY <1>1, <2>1 DEF Sharing, Fetching, Waiting
<1> QED BY <1>2, <1>3

LEMMA CatalogueStays ==
    ASSUME CatalogueInv, UNCHANGED catalogueVars PROVE CatalogueInv'
BY DEF catalogueVars, CatalogueInv, CatalogueTypeOK, WaitsForAnEvent, AnnouncedIsUnset,
       AnnouncedFetchIsRunning, Sharing,
    Fetching

LEMMA CallersStep ==
    ASSUME CallersAssumption, CatalogueInv, NEW c \in Callers, ListModels(c) \/ EndCall(c)
    PROVE  CatalogueInv'
BY FetchBegins, FetchReturns, CallersWait DEF ListModels

\* What the invariant says of who fetches.
LEMMA OneFetches ==
    ASSUME CatalogueInv PROVE SingleFlight
<1> SUFFICES ASSUME ~troubled PROVE Cardinality(Fetching) <= 1
    BY DEF SingleFlight
<1>1. CASE Fetching = {}
    BY <1>1, FS_EmptySet
<1>2. CASE Fetching # {}
    <2>1. PICK c \in Fetching : TRUE
        BY <1>2
    <2>2. Fetching = {c}
        BY <2>1 DEF CatalogueInv, Sharing
    <2> QED BY <2>2, FS_Singleton
<1> QED BY <1>1, <1>2

-----------------------------------------------------------------------------
(* The catalogue on its own: list_models under any number of callers keeps    *)
(* the invariant.                                                            *)
THEOREM CatalogueInvariant ==
    ASSUME CallersAssumption PROVE CatalogueSpec => []CatalogueInv
<1>1. CatalogueInit => CatalogueInv
    BY CatalogueStarts
<1>2. CatalogueInv /\ [CatalogueNext]_catalogueVars => CatalogueInv'
    BY CallersStep, CacheExpires, CatalogueStays DEF CatalogueNext
<1> QED BY <1>1, <1>2, PTL DEF CatalogueSpec

(* No caller of list_models is sent to wait for a fetch that has ended, and    *)
(* as long as no fetch fails, no wait times out and no catalogue lapses under  *)
(* one, a single caller fetches for all of them.                              *)
THEOREM FetchIsShared ==
    ASSUME CallersAssumption PROVE CatalogueSpec => [](AnnouncedFetchIsRunning /\ SingleFlight)
<1>1. CatalogueInv => AnnouncedFetchIsRunning /\ SingleFlight
    BY OneFetches DEF CatalogueInv
<1> QED BY <1>1, CatalogueInvariant, PTL

(* The same of the catalogue that the readiness reports ask, whose requests    *)
(* end a call only after their report was served.                             *)
THEOREM ReadinessSharesTheFetch ==
    ASSUME CallersAssumption PROVE Spec => [](AnnouncedFetchIsRunning /\ SingleFlight)
<1>1. Init => CatalogueInv
    BY CatalogueStarts DEF Init
<1>2. CatalogueInv /\ [ReadyNext]_vars => CatalogueInv'
    <2> SUFFICES ASSUME CatalogueInv, [ReadyNext]_vars PROVE CatalogueInv'
        OBVIOUS
    <2>1. CASE CatalogueStep
        BY <2>1, CallersStep, CacheExpires DEF CatalogueStep
    <2>2. CASE \E c \in Callers : EndRequest(c)
        BY <2>2, CallersStep DEF EndRequest
    <2>3. CASE \/ ProbeStep \/ ProviderSwitches \/ UNCHANGED vars
               \/ \E c \in Callers : BeginReport(c) \/ ServeReport(c)
        <3>1. UNCHANGED catalogueVars
            BY <2>3 DEF ProbeStep, Ask, RecordVerdict, ProbeAgain, ProviderSwitches, BeginReport, ServeReport, vars
        <3> QED BY <3>1, CatalogueStays
    <2> QED BY <2>1, <2>2, <2>3 DEF ReadyNext, RequestStep
<1>3. CatalogueInv => AnnouncedFetchIsRunning /\ SingleFlight
    BY OneFetches DEF CatalogueInv
<1> QED BY <1>1, <1>2, <1>3, PTL DEF Spec

-----------------------------------------------------------------------------
(* The page.                                                                  *)
AnyRun == Runs \cup {Page!NoRun}
ScopeShape == [id : Nat, run : AnyRun, handled : BOOLEAN, closed : BOOLEAN]
CallShape == [kind : {"poll", "stop", "goto", "stopActive"}, run : AnyRun, scope : Nat, ended : BOOLEAN]

ViewShape ==
    /\ scope \in ScopeShape /\ calls \subseteq CallShape /\ restoring \subseteq Runs
    /\ trail \in Seq([scope : Nat, run : AnyRun])

\* A question about a scope is about its run, and no question is about a later scope.
CallsKnowTheirScope ==
    \A c \in calls :
        IF c.kind \in {"poll", "stop"}
        THEN c.scope <= scope.id /\ (c.scope = scope.id => c.run = scope.run)
        ELSE c.run \in Runs

\* A scope is in the trail once it is handled, and handled for good.
TrailIsOfHandled ==
    \A i \in DOMAIN trail : trail[i].scope <= scope.id /\ (trail[i].scope = scope.id => scope.handled)

\* A result that can be gone back to is the handled scope's.
ResultIsOfScope == lastResult # Page!NoRun => lastResult = scope.run /\ scope.handled

\* Nothing is restored under a run that is watched.
NothingRestoredWhileRunning == restoring # {} => ~running

ViewInv ==
    /\ ViewShape /\ CallsKnowTheirScope /\ TrailIsOfHandled /\ ResultIsOfScope /\ NothingRestoredWhileRunning
    /\ Page!OneRunOnScreen

-----------------------------------------------------------------------------
(* What a step does to the page is one of a few things.                       *)

\* The scope, what it shows and the trail stay; calls may come and go.
LEMMA ScreenStays ==
    ASSUME ViewInv, NEW closed \in BOOLEAN,
           scope' = [scope EXCEPT !.closed = closed],
           UNCHANGED <<currentRun, running, polling, view, lastResult, restoring, trail>>,
           drawn' = drawn \/ drawn' = scope.run,
           \A c \in calls' \ calls :
               /\ c \in CallShape
               /\ IF c.kind \in {"poll", "stop"} THEN c.scope = scope.id /\ c.run = scope.run ELSE c.run \in Runs
    PROVE  ViewInv'
<1> USE DEF ViewInv
<1>1. /\ scope' \in ScopeShape /\ scope'.id = scope.id /\ scope'.run = scope.run /\ scope'.handled = scope.handled
      /\ scope.id \in Nat
    BY DEF ViewShape, ScopeShape
<1>2. ViewShape' /\ CallsKnowTheirScope'
    BY <1>1 DEF ViewShape, CallsKnowTheirScope
<1>3. TrailIsOfHandled' /\ ResultIsOfScope' /\ NothingRestoredWhileRunning'
    BY <1>1 DEF TrailIsOfHandled, ResultIsOfScope, NothingRestoredWhileRunning
<1>4. Page!OneRunOnScreen'
    BY <1>1 DEF Page!OneRunOnScreen
<1> QED BY <1>2, <1>3, <1>4

\* The scope is finished, or it was before.
LEMMA ScopeFinishes ==
    ASSUME Page!ViewAssumption, ViewInv, Page!Finish(scope.id), drawn' = scope.run \/ drawn' = drawn,
           calls' \subseteq calls, currentRun' = currentRun
    PROVE  ViewInv'
<1> USE DEF ViewInv
<1>1. CASE ~Page!MayFinish(scope.id)
    <2>1. UNCHANGED <<scope, polling, running, trail, lastResult, view, restoring>>
        BY <1>1 DEF Page!Finish
    <2> QED BY <2>1 DEF ViewShape, CallsKnowTheirScope, TrailIsOfHandled, ResultIsOfScope,
                NothingRestoredWhileRunning,
                Page!OneRunOnScreen
<1>2. CASE Page!MayFinish(scope.id)
    <2>1. /\ ~scope.handled /\ scope' = [scope EXCEPT !.handled = TRUE] /\ polling' = FALSE /\ running' = FALSE
          /\ trail' = Append(trail, [scope |-> scope.id, run |-> scope.run])
          /\ \/ /\ scope.run \in Showable /\ lastResult' = scope.run
                /\ view' = "result" /\ restoring' \subseteq restoring
             \/ UNCHANGED <<lastResult, view, restoring>>
        BY <1>2 DEF Page!Finish, Page!MayFinish, Page!Show
    <2>2. /\ scope' \in ScopeShape /\ scope'.id = scope.id /\ scope'.run = scope.run /\ scope'.handled
          /\ scope.id \in Nat /\ scope.run \in AnyRun
        BY <2>1 DEF ViewShape, ScopeShape
    <2>3. trail' \in Seq([scope : Nat, run : AnyRun]) /\ Len(trail) \in Nat /\ DOMAIN trail' = 1 .. Len(trail) + 1
          /\ \A i \in 1 .. Len(trail) : i \in DOMAIN trail /\ trail'[i] = trail[i]
        BY <2>1, <2>2 DEF ViewShape
    <2>4. trail'[Len(trail) + 1].scope = scope.id
        BY <2>1 DEF ViewShape
    <2>5. ViewShape' /\ CallsKnowTheirScope'
        BY <2>1, <2>2, <2>3 DEF ViewShape, CallsKnowTheirScope
    <2>6. \A i \in 1 .. Len(trail) : trail'[i].scope <= scope.id /\ trail'[i].scope # scope.id
        BY <2>1, <2>3 DEF TrailIsOfHandled
    <2>7. TrailIsOfHandled'
        BY <2>2, <2>3, <2>4, <2>6 DEF TrailIsOfHandled
    <2>8. lastResult = Page!NoRun /\ view # "result"
        <3>1. lastResult = Page!NoRun
            BY <2>1 DEF ResultIsOfScope
        <3> QED BY <3>1 DEF Page!OneRunOnScreen
    <2>9. \/ lastResult' = Page!NoRun /\ view' # "result"
          \/ lastResult' = scope.run /\ scope.run # Page!NoRun
        BY <2>1, <2>8 DEF Page!ViewAssumption
    <2>10. ResultIsOfScope' /\ NothingRestoredWhileRunning'
        BY <2>1, <2>2, <2>9 DEF ResultIsOfScope, NothingRestoredWhileRunning
    <2>11. \A i, j \in DOMAIN trail' : trail'[i].scope = trail'[j].scope => i = j
        BY <2>3, <2>4, <2>6 DEF Page!OneRunOnScreen
    <2>12. Page!OneRunOnScreen'
        BY <2>1, <2>2, <2>9, <2>11 DEF Page!OneRunOnScreen
    <2> QED BY <2>5, <2>7, <2>10, <2>12
<1> QED BY <1>1, <1>2

\* A new scope begins: a run is watched, or a finished one restored.
LEMMA ScopeBegins ==
    ASSUME Page!ViewAssumption, ViewInv, NEW r \in Runs, calls' \subseteq calls, trail' = trail,
           \/ Page!Watch(r)
           \/ Page!BeginScope(r, TRUE) /\ ~running' /\ lastResult' = r /\ drawn' = Page!NoRun
    PROVE  ViewInv'
<1> USE DEF ViewInv
<1>1. PICK finished \in BOOLEAN :
          /\ scope' = [id |-> scope.id + 1, run |-> r, handled |-> finished, closed |-> FALSE]
          /\ currentRun' = r /\ restoring' = {} /\ drawn' = Page!NoRun
          /\ IF finished THEN lastResult' = r /\ ~running'
                         ELSE lastResult' = Page!NoRun /\ running' = TRUE /\ polling' = TRUE /\ view' = "live"
    BY DEF Page!Watch, Page!BeginScope, Page!ForgetLast
<1>2. /\ scope' \in ScopeShape /\ scope'.id = scope.id + 1 /\ scope'.run = r /\ scope.id \in Nat
      /\ scope'.handled = finished
    BY <1>1 DEF ViewShape, ScopeShape, AnyRun
<1>3. ViewShape'
    BY <1>1, <1>2 DEF ViewShape
<1>4. CallsKnowTheirScope'
    <2>1. \A c \in calls : c.scope \in Nat
        BY DEF ViewShape, CallShape
    <2> QED BY <1>2, <2>1 DEF CallsKnowTheirScope
<1>5. TrailIsOfHandled'
    <2>1. ASSUME NEW i \in DOMAIN trail PROVE trail[i].scope \in Nat
        <3> DEFINE Lines == [scope : Nat, run : AnyRun]
        <3>1. trail[i] \in Lines
            <4> HIDE DEF Lines
            <4>1. trail \in Seq(Lines)
                BY DEF ViewShape, Lines
            <4> QED BY <4>1
        <3> QED BY <3>1
    <2> QED BY <1>2, <2>1 DEF TrailIsOfHandled
<1>6. ResultIsOfScope' /\ NothingRestoredWhileRunning'
    BY <1>1, <1>2 DEF ResultIsOfScope, NothingRestoredWhileRunning
<1>7. Page!OneRunOnScreen'
    BY <1>1, <1>2 DEF Page!OneRunOnScreen, Page!ViewAssumption
<1> QED BY <1>3, <1>4, <1>5, <1>6, <1>7

\* Nothing runs any more, or did not, and another view is shown of the same scope.
LEMMA ViewChanges ==
    ASSUME ViewInv, ~running', calls' \subseteq calls, restoring' \subseteq Runs,
           UNCHANGED <<scope, lastResult, drawn, trail>>,
           view' = "result" => view = "result" \/ lastResult # Page!NoRun
    PROVE  ViewInv'
BY DEF ViewInv, ViewShape, CallsKnowTheirScope, TrailIsOfHandled, ResultIsOfScope,
       NothingRestoredWhileRunning, Page!OneRunOnScreen

-----------------------------------------------------------------------------
LEMMA SameScope ==
    ASSUME ViewInv PROVE scope = [scope EXCEPT !.closed = scope.closed] /\ scope.closed \in BOOLEAN
BY DEF ViewInv, ViewShape, ScopeShape

LEMMA ViewStarts ==
    ASSUME Page!Init PROVE ViewInv
BY DEF Page!Init, ViewInv, ViewShape, ScopeShape, AnyRun, CallsKnowTheirScope, TrailIsOfHandled, ResultIsOfScope,
    NothingRestoredWhileRunning, Page!OneRunOnScreen, Page!NoScope

LEMMA Questions ==
    ASSUME ViewInv, Page!Poll \/ Page!Stop \/ (\E kind \in {"goto", "stopActive"} : Page!AskActive(kind))
    PROVE  ViewInv'
<1>1. scope.id \in Nat /\ scope.run \in AnyRun
    BY DEF ViewInv, ViewShape, ScopeShape
<1>2. PICK kind \in {"poll", "stop", "goto", "stopActive"}, r \in AnyRun, id \in Nat :
          /\ calls' = calls \cup {Page!Asks(kind, r, id)}
          /\ IF kind \in {"poll", "stop"} THEN r = scope.run /\ id = scope.id ELSE r \in Runs
    BY <1>1 DEF Page!Poll, Page!Stop, Page!AskActive, Page!ActiveRuns, AnyRun
<1>3. Page!Asks(kind, r, id) \in CallShape /\ Page!Asks(kind, r, id).scope = id /\ Page!Asks(kind, r, id).run = r
      /\ Page!Asks(kind, r, id).kind = kind
    BY DEF Page!Asks, CallShape, Page!Ended
<1>4. PICK closed \in BOOLEAN : scope' = [scope EXCEPT !.closed = closed]
    BY SameScope DEF Page!Poll, Page!Stop, Page!AskActive
<1>5. UNCHANGED <<currentRun, running, polling, view, lastResult, drawn, restoring, trail>>
    BY DEF Page!Poll, Page!Stop, Page!AskActive
<1> QED BY <1>2, <1>3, <1>4, <1>5, ScreenStays

LEMMA Answers ==
    ASSUME Page!ViewAssumption, ViewInv, NEW c \in calls,
           Page!PollReturns(c) \/ Page!StopReturns(c) \/ Page!CallFails(c) \/ Page!GoToRun(c) \/ Page!StoppedOther(c)
    PROVE  ViewInv'
<1>1. calls' \subseteq calls /\ c \in CallShape
    BY DEF Page!PollReturns, Page!StopReturns, Page!CallFails, Page!GoToRun, Page!StoppedOther,
           Page!Answered, ViewInv, ViewShape
<1>2. c.kind \in {"poll", "stop"} /\ c.scope = scope.id => c.run = scope.run
    BY DEF ViewInv, CallsKnowTheirScope
<1>3. CASE Page!PollReturns(c)
    <2>1. CASE Page!Draws(c) /\ Page!Finish(scope.id)
        BY <1>1, <1>2, <1>3, <2>1, ScopeFinishes DEF Page!PollReturns, Page!Draws
    <2>2. CASE /\ UNCHANGED <<scope, polling, running, trail, lastResult, view, restoring>>
               /\ drawn' = drawn \/ (Page!Draws(c) /\ drawn' = c.run)
        BY <1>1, <1>2, <1>3, <2>2, SameScope, ScreenStays DEF Page!PollReturns, Page!Draws
    <2> QED BY <1>3, <2>1, <2>2 DEF Page!PollReturns
<1>4. CASE Page!StopReturns(c)
    <2>1. CASE c.scope = scope.id
        BY <1>1, <1>2, <1>4, <2>1, ScopeFinishes DEF Page!StopReturns
    <2>2. CASE c.scope # scope.id
        BY <1>1, <1>4, <2>2, SameScope, ScreenStays DEF Page!StopReturns
    <2> QED BY <2>1, <2>2
<1>5. CASE Page!CallFails(c)
    <2>1. PICK closed \in BOOLEAN : scope' = [scope EXCEPT !.closed = closed]
        BY <1>5, SameScope DEF Page!CallFails, Page!Reopened
    <2> QED BY <1>1, <1>5, <2>1, ScreenStays DEF Page!CallFails
<1>6. CASE Page!GoToRun(c)
    <2>1. c.run \in Runs
        BY <1>6 DEF Page!GoToRun, ViewInv, CallsKnowTheirScope
    <2> QED BY <1>1, <1>6, <2>1, ScopeBegins DEF Page!GoToRun
<1>7. CASE Page!StoppedOther(c)
    BY <1>1, <1>7, ViewChanges DEF Page!StoppedOther, Page!Show, ViewInv, ViewShape
<1> QED BY <1>3, <1>4, <1>5, <1>6, <1>7

LEMMA OfARun ==
    ASSUME Page!ViewAssumption, ViewInv, NEW r \in Runs,
           Page!RunEnds(r) \/ Page!OtherTabStarts(r) \/ Page!Created(r) \/ Page!Restore(r) \/ Page!Restored(r)
    PROVE  ViewInv'
<1>1. CASE Page!RunEnds(r) \/ Page!OtherTabStarts(r)
    BY <1>1, SameScope, ScreenStays DEF Page!RunEnds, Page!OtherTabStarts
<1>2. CASE Page!Created(r)
    BY <1>2, ScopeBegins DEF Page!Created
<1>3. CASE Page!Restore(r)
    BY <1>3, ViewChanges DEF Page!Restore
<1>4. CASE Page!Restored(r)
    BY <1>4, ScopeBegins DEF Page!Restored, ViewInv, NothingRestoredWhileRunning
<1> QED BY <1>1, <1>2, <1>3, <1>4

LEMMA ElsewhereOnThePage ==
    ASSUME ViewInv, Page!SendCreate \/ Page!CreateRefused \/ (\E v \in {"composer", "result"} : Page!Leave(v))
    PROVE  ViewInv'
<1>1. CASE Page!SendCreate \/ Page!CreateRefused
    BY <1>1, SameScope, ScreenStays DEF Page!SendCreate, Page!CreateRefused
<1>2. ASSUME NEW v \in {"composer", "result"}, Page!Leave(v) PROVE ViewInv'
    BY <1>2, ViewChanges DEF Page!Leave, Page!Show, ViewInv, ViewShape
<1> QED BY <1>1, <1>2

LEMMA ViewSteps ==
    ASSUME Page!ViewAssumption, ViewInv, [Page!ViewNext]_(Page!vars) PROVE ViewInv'
<1>1. CASE UNCHANGED Page!vars
    BY <1>1, SameScope, ScreenStays DEF Page!vars
<1>2. CASE Page!ViewNext
    BY <1>2, Questions, Answers, OfARun, ElsewhereOnThePage DEF Page!ViewNext
<1> QED BY <1>1, <1>2

(* What the page shows, holds and lists of a run, whichever answers come late. *)
THEOREM ViewInvariant ==
    ASSUME Page!ViewAssumption PROVE Page!ViewSpec => []ViewInv
<1>1. Page!Init => ViewInv
    BY ViewStarts
<1>2. ViewInv /\ [Page!ViewNext]_(Page!vars) => ViewInv'
    BY ViewSteps
<1> QED BY <1>1, <1>2, PTL DEF Page!ViewSpec

(* The page shows one run at a time (runScope, terminalHandled, closed).       *)
THEOREM OneRunIsOnScreen ==
    ASSUME Page!ViewAssumption PROVE Page!ViewSpec => []Page!OneRunOnScreen
<1>1. ViewInv => Page!OneRunOnScreen
    BY DEF ViewInv
<1> QED BY <1>1, ViewInvariant, PTL

-----------------------------------------------------------------------------
(* The tabs of a browser.                                                    *)
TokenShape == [n : Nat, who : People \cup {Tokens!Unknown}]
NumberShape == [gen : Nat, seq : Nat]
TabShape ==
    [csrf : TokenShape, gen : Nat, seq : Nat, sharingOff : BOOLEAN, renewing : BOOLEAN,
     drawn : People \cup {Tokens!Unknown}, page : People \cup {Tokens!Unknown, Tokens!NotYet},
     changed : BOOLEAN, mismatch : BOOLEAN, connected : BOOLEAN]
PostShape == [to : Tabs, token : TokenShape, gen : Nat, seq : Nat]

TabsShape ==
    /\ owner \in People /\ issued \in Nat /\ counter \in NumberShape /\ gens \in Nat
    /\ messages \subseteq PostShape /\ open \subseteq Tabs /\ tab \in [Tabs -> TabShape]
    /\ tabPc \in [Renewals -> {"new", "waits", "counting", "locked", "alone", "done"}]
    /\ number \in [Renewals -> NumberShape] /\ answer \in [Renewals -> TokenShape]

\* One renewal holds the lock, and its tab shows it; those that run have an open page,
\* and one that runs alone shares no more.
LockIsExclusive ==
    /\ \A r, q \in Renewals : Tokens!Inside(r) /\ Tokens!Inside(q) => r = q
    /\ \A t \in Tabs : tab[t].renewing => \E r \in Renewals : TabOf[r] = t /\ Tokens!Inside(r)
    /\ \A r \in Renewals :
        /\ tabPc[r] \notin {"new", "done"} => TabOf[r] \in open
        /\ tabPc[r] = "alone" => tab[TabOf[r]].sharingOff

\* A renewal that shares is past the counter and has a number of it.
Shared(r) == tabPc[r] = "locked" /\ ~tab[TabOf[r]].sharingOff

SharersAreNumbered ==
    \A r \in Renewals :
        /\ Shared(r) => number[r].gen > 0
        /\ answer[r] # Tokens!Blank => answer[r].n \in 1 .. issued /\ tabPc[r] \in {"locked", "alone"}
        /\ tabPc[r] # "locked" => number[r] = Tokens!None

RenewalsInv == TabsShape /\ LockIsExclusive /\ SharersAreNumbered

\* The counter is past every number of its generation, and so is one just taken.
Behind(x) == x.gen <= gens /\ (counter # Tokens!None /\ x.gen = counter.gen => x.seq <= counter.seq)
Before(x, r) == x.gen = number[r].gen => x.seq < number[r].seq

CounterIsAhead ==
    /\ counter # Tokens!None => counter.gen = gens /\ gens > 0
    /\ \A m \in messages : Behind(m)
    /\ \A t \in Tabs : Behind(tab[t])
    /\ \A r \in Renewals :
        tabPc[r] = "locked" =>
            /\ Behind(number[r])
            /\ number[r].gen > 0 =>
                (\A m \in messages : Before(m, r)) /\ (\A t \in Tabs : Before(tab[t], r))

Newer(x, y) == x.gen = y.gen /\ x.seq > y.seq

\* Posts are numbered in the order their tokens were issued; a later number is of a
\* newer token, also than the one that a sharing tab has.
PostsAreInOrder ==
    /\ \A m \in messages : m.gen > 0 /\ m.token.n \in 1 .. issued /\ m.token.who \in People
    /\ \A m, k \in messages : Newer(k, m) => m.token.n < k.token.n
    /\ \A m \in messages, t \in Tabs :
        ~tab[t].sharingOff /\ Newer(m, tab[t]) => tab[t].csrf.n < m.token.n

\* The answer a sharing tab waits to keep is newer than what the others were told.
AnswerIsNewest ==
    /\ \A t \in Tabs : tab[t].csrf.n <= issued
    /\ \A r \in Renewals : Shared(r) /\ answer[r] # Tokens!Blank =>
        /\ \A m \in messages : m.token.n < answer[r].n
        /\ \A t \in Tabs : ~tab[t].sharingOff => tab[t].csrf.n < answer[r].n

NumbersInv == CounterIsAhead /\ PostsAreInOrder /\ AnswerIsNewest

\* A tab that takes part.
Sound(t) == /\ t \in open /\ ~tab[t].sharingOff /\ ~tab[t].changed /\ ~tab[t].mismatch
            /\ tab[t].connected /\ tab[t].page # Tokens!Unknown

Listens(t) == Sound(t) /\ ~tab[t].renewing

TabsAreNumbered ==
    \A t \in Tabs : Sound(t) => tab[t].gen > 0 /\ tab[t].page \in People /\ tab[t].csrf.who = tab[t].page

SameNumber(x, y) == x.gen = y.gen /\ x.seq = y.seq

\* A number stands for one token.
OneTokenPerNumber ==
    /\ \A m, k \in messages : SameNumber(m, k) => m.token = k.token
    /\ \A m \in messages, t \in Tabs : Sound(t) /\ SameNumber(m, tab[t]) => m.token = tab[t].csrf
    /\ \A t, u \in Tabs : Sound(t) /\ Sound(u) /\ SameNumber(tab[t], tab[u]) => tab[t].csrf = tab[u].csrf

\* Of whatever is newer than a tab's own token, and issued to its person, a post is on
\* its way to it, unless the tab renews.
Awaits(t, x) == \E m \in messages : m.to = t /\ m.gen = x.gen /\ m.seq >= x.seq /\ m.token.who = tab[t].page

NewsIsOnItsWay ==
    /\ \A t \in Tabs, m \in messages :
        Listens(t) /\ Newer(m, tab[t]) /\ m.token.who = tab[t].page => Awaits(t, m)
    /\ \A t, u \in Tabs :
        Listens(t) /\ Sound(u) /\ Newer(tab[u], tab[t]) /\ tab[u].page = tab[t].page => Awaits(t, tab[u])

SharingInv == TabsAreNumbered /\ OneTokenPerNumber /\ NewsIsOnItsWay

\* The first identity that a page was told of is its own, or it holds no token.
PageIsTheirs ==
    \A t \in Tabs :
        /\ tab[t].drawn # Tokens!Unknown /\ ~tab[t].mismatch =>
            /\ tab[t].page \in {tab[t].drawn, Tokens!Unknown, Tokens!NotYet}
            /\ tab[t].csrf # Tokens!Blank => tab[t].csrf.who \in {tab[t].drawn, Tokens!Unknown}
        /\ tab[t].mismatch => tab[t].csrf = Tokens!Blank

TabInv == RenewalsInv /\ NumbersInv /\ SharingInv /\ PageIsTheirs

-----------------------------------------------------------------------------
(* What a step does.                                                         *)

\* A page is new or gone, or keeps what it holds; a renewal that ends without an
\* answer leaves its tab unconnected.
Stays(t) ==
    /\ tab'[t].csrf = tab[t].csrf /\ tab'[t].gen = tab[t].gen /\ tab'[t].seq = tab[t].seq
    /\ tab'[t].drawn = tab[t].drawn /\ tab'[t].page = tab[t].page
    /\ tab'[t].changed = tab[t].changed /\ tab'[t].mismatch = tab[t].mismatch
    /\ tab[t].sharingOff => tab'[t].sharingOff
    /\ tab'[t].connected => tab[t].connected
    /\ tab[t].renewing => tab'[t].renewing \/ ~tab'[t].connected
    /\ t \in open' => t \in open

Afresh(t) == \E d \in People \cup {Tokens!Unknown} : tab'[t] = Tokens!FreshTab(d)

\* Nobody learns of a token; posts are lost only with the page they are for.
Quiet ==
    /\ \A t \in Tabs : Afresh(t) \/ Stays(t)
    /\ messages' \subseteq messages /\ \A m \in messages : m.to \in open' => m \in messages'

\* Nor does anybody take a number or a token from the server.
NumbersRest ==
    /\ Quiet /\ issued' = issued /\ gens' = gens /\ counter' \in {counter, Tokens!None}
    /\ \A r \in Renewals : tabPc'[r] = "locked" =>
        /\ tabPc[r] = "locked" /\ number'[r] = number[r] /\ answer'[r] = answer[r]
        /\ Shared(r)' => Shared(r)

LEMMA TokenRecords ==
    /\ Tokens!Blank \in TokenShape /\ Tokens!None \in NumberShape
    /\ \A d \in People \cup {Tokens!Unknown} :
        /\ Tokens!FreshTab(d) \in TabShape
        /\ Tokens!FreshTab(d).csrf = Tokens!Blank /\ Tokens!FreshTab(d).drawn = d
        /\ Tokens!FreshTab(d).gen = 0 /\ Tokens!FreshTab(d).seq = 0
        /\ Tokens!FreshTab(d).page = Tokens!NotYet
        /\ ~Tokens!FreshTab(d).sharingOff /\ ~Tokens!FreshTab(d).renewing
        /\ ~Tokens!FreshTab(d).connected /\ ~Tokens!FreshTab(d).mismatch
    /\ Tokens!Blank.n = 0 /\ Tokens!None.gen = 0 /\ Tokens!None.seq = 0
BY DEF TokenShape, NumberShape, TabShape, Tokens!Blank, Tokens!None, Tokens!FreshTab, Tokens!Unknown, Tokens!NotYet

LEMMA TabFields ==
    /\ \A p \in TabShape, b \in BOOLEAN :
        /\ [p EXCEPT !.renewing = b] \in TabShape /\ [p EXCEPT !.sharingOff = b] \in TabShape
        /\ [p EXCEPT !.connected = b] \in TabShape
    /\ \A p \in TabShape, b, c \in BOOLEAN : [p EXCEPT !.connected = b, !.renewing = c] \in TabShape
    /\ \A p \in TabShape, x \in TokenShape, n \in Nat : [p EXCEPT !.csrf = x, !.seq = n] \in TabShape
    /\ \A p \in TabShape :
        /\ p.csrf \in TokenShape /\ p.csrf.n \in Nat /\ p.gen \in Nat /\ p.seq \in Nat
        /\ p.sharingOff \in BOOLEAN /\ p.renewing \in BOOLEAN /\ p.changed \in BOOLEAN
        /\ p.mismatch \in BOOLEAN /\ p.connected \in BOOLEAN
BY DEF TabShape, TokenShape

LEMMA FieldsStay ==
    \A p \in TabShape :
        /\ \A b \in BOOLEAN : LET q == [p EXCEPT !.connected = FALSE, !.renewing = b] IN
            /\ q.csrf = p.csrf /\ q.gen = p.gen /\ q.seq = p.seq /\ q.drawn = p.drawn /\ q.page = p.page
            /\ q.changed = p.changed /\ q.mismatch = p.mismatch /\ q.sharingOff = p.sharingOff /\ ~q.connected
        /\ LET q == [p EXCEPT !.renewing = TRUE] IN
            /\ q.csrf = p.csrf /\ q.gen = p.gen /\ q.seq = p.seq /\ q.drawn = p.drawn /\ q.page = p.page
            /\ q.changed = p.changed /\ q.mismatch = p.mismatch /\ q.sharingOff = p.sharingOff
            /\ q.connected = p.connected /\ q.renewing
        /\ LET q == [p EXCEPT !.sharingOff = TRUE] IN
            /\ q.csrf = p.csrf /\ q.gen = p.gen /\ q.seq = p.seq /\ q.drawn = p.drawn /\ q.page = p.page
            /\ q.changed = p.changed /\ q.mismatch = p.mismatch /\ q.sharingOff
            /\ q.connected = p.connected /\ q.renewing = p.renewing
BY DEF TabShape

\* keepRenewedToken and initSession, of a tab that was answered.
Other(t, a) == tab[t].drawn # Tokens!Unknown /\ a.who \notin {Tokens!Unknown, tab[t].drawn}

LEMMA KeepDoes ==
    ASSUME Tokens!TabAssumption, RenewalsInv, NEW r \in Renewals, Tokens!Keep(r),
           NEW t, t = TabOf[r], NEW a, a = answer[r]
    PROVE  /\ t \in Tabs /\ t \in open /\ a \in TokenShape /\ a.n \in 1 .. issued
           /\ tab' \in [Tabs -> TabShape] /\ \A u \in Tabs \ {t} : tab'[u] = tab[u]
           /\ tab'[t].sharingOff = tab[t].sharingOff /\ tab'[t].drawn = tab[t].drawn
           /\ tab'[t].renewing => tabPc[r] = "alone" /\ tab[t].renewing
           /\ tab'[t].mismatch <=> tab[t].mismatch \/ Other(t, a)
           /\ tab'[t].csrf = IF tab'[t].mismatch THEN Tokens!Blank ELSE a
           /\ tab'[t].page = IF tab[t].page = Tokens!NotYet THEN a.who ELSE tab[t].page
           /\ ~tab'[t].changed => (tab'[t].page = a.who /\ a.who # Tokens!Unknown) \/ tab[t].page = Tokens!NotYet
           /\ IF Shared(r) THEN tab'[t].gen = number[r].gen /\ tab'[t].seq = number[r].seq
                           ELSE tab'[t].gen = tab[t].gen /\ tab'[t].seq = tab[t].seq
           /\ ~Shared(r) => tab[t].sharingOff
           /\ messages' = messages \cup (IF Shared(r) /\ a.who # Tokens!Unknown THEN Tokens!Posts(r) ELSE {})
<1> DEFINE p == tab[t]
           k1 == Tokens!Kept(p, a)
           k2 == Tokens!Identified(k1, a.who)
           k3 == Tokens!Numbered(k2, number[r])
<1>1. /\ t \in Tabs /\ t \in open /\ a \in TokenShape /\ a.n \in 1 .. issued /\ p \in TabShape
      /\ tabPc[r] \in {"locked", "alone"} /\ number[r] \in NumberShape /\ a.who \in People \cup {Tokens!Unknown}
    BY DEF Tokens!TabAssumption, RenewalsInv, TabsShape, LockIsExclusive, SharersAreNumbered, Tokens!Keep, TokenShape
<1>2. /\ k1 \in TabShape /\ k1.gen = p.gen /\ k1.seq = p.seq /\ k1.sharingOff = p.sharingOff
      /\ k1.drawn = p.drawn /\ k1.page = p.page /\ k1.renewing = p.renewing
      /\ k1.mismatch = (p.mismatch \/ Other(t, a))
      /\ k1.csrf = IF p.mismatch \/ Other(t, a) THEN Tokens!Blank ELSE a
    <2>1. Tokens!Blank \in TokenShape /\ p.mismatch \in BOOLEAN /\ p.changed \in BOOLEAN
        BY <1>1, TokenRecords, TabFields
    <2>2. CASE p.mismatch \/ Other(t, a)
        <3>1. \E b \in BOOLEAN : k1 = [p EXCEPT !.mismatch = TRUE, !.changed = b, !.csrf = Tokens!Blank]
            BY <2>1, <2>2 DEF Tokens!Kept, Other
        <3> QED BY <1>1, <2>1, <2>2, <3>1 DEF TabShape
    <2>3. CASE ~(p.mismatch \/ Other(t, a))
        <3>1. \E b \in BOOLEAN : k1 = [p EXCEPT !.mismatch = FALSE, !.changed = b, !.csrf = a]
            BY <2>1, <2>3 DEF Tokens!Kept, Other
        <3> QED BY <1>1, <2>1, <2>3, <3>1 DEF TabShape
    <2> QED BY <2>2, <2>3
<1>3. /\ k2 \in TabShape /\ k2.gen = p.gen /\ k2.seq = p.seq /\ k2.sharingOff = p.sharingOff
      /\ k2.drawn = p.drawn /\ k2.renewing = p.renewing /\ k2.mismatch = k1.mismatch /\ k2.csrf = k1.csrf
      /\ k2.page = IF p.page = Tokens!NotYet THEN a.who ELSE p.page
      /\ ~k2.changed => (k2.page = a.who /\ a.who # Tokens!Unknown) \/ p.page = Tokens!NotYet
    <2> HIDE DEF k1
    <2> QED BY <1>1, <1>2 DEF Tokens!Identified, TabShape
<1>4. /\ k3 \in TabShape /\ k3.gen = number[r].gen /\ k3.seq = number[r].seq
      /\ k3.sharingOff = k2.sharingOff /\ k3.drawn = k2.drawn /\ k3.mismatch = k2.mismatch
      /\ k3.csrf = k2.csrf /\ k3.page = k2.page /\ k3.changed = k2.changed
    <2> HIDE DEF k2
    <2> QED BY <1>1, <1>3 DEF Tokens!Numbered, TabShape, NumberShape
<1>5. /\ tab' = [tab EXCEPT ![t] =
             IF tabPc[r] = "alone" THEN k2 ELSE [(IF Shared(r) THEN k3 ELSE k2) EXCEPT !.renewing = FALSE]]
      /\ messages' = messages \cup (IF Shared(r) /\ a.who # Tokens!Unknown THEN Tokens!Posts(r) ELSE {})
    BY DEF Tokens!Keep, Shared
<1>6. tabPc[r] = "alone" => ~Shared(r) /\ p.sharingOff
    BY <1>1 DEF RenewalsInv, LockIsExclusive, Shared
<1>7. tab \in [Tabs -> TabShape]
    BY DEF RenewalsInv, TabsShape
<1> HIDE DEF k2, k3, k1
<1>8. tab'[t] = IF tabPc[r] = "alone" THEN k2 ELSE [(IF Shared(r) THEN k3 ELSE k2) EXCEPT !.renewing = FALSE]
    BY <1>1, <1>5, <1>7
<1>9. /\ tab'[t] \in TabShape
      /\ tab'[t].renewing => tabPc[r] = "alone" /\ p.renewing
      /\ tab'[t].sharingOff = p.sharingOff /\ tab'[t].drawn = p.drawn
      /\ tab'[t].mismatch = k2.mismatch /\ tab'[t].csrf = k2.csrf /\ tab'[t].page = k2.page
      /\ tab'[t].changed = k2.changed
      /\ IF Shared(r) THEN tab'[t].gen = number[r].gen /\ tab'[t].seq = number[r].seq
                      ELSE tab'[t].gen = p.gen /\ tab'[t].seq = p.seq
    <2>1. CASE tabPc[r] = "alone"
        BY <1>3, <1>6, <1>8, <2>1
    <2>2. ASSUME NEW k \in TabShape, tab'[t] = [k EXCEPT !.renewing = FALSE]
          PROVE  /\ tab'[t] \in TabShape /\ ~tab'[t].renewing
                 /\ tab'[t].sharingOff = k.sharingOff /\ tab'[t].drawn = k.drawn
                 /\ tab'[t].mismatch = k.mismatch /\ tab'[t].csrf = k.csrf /\ tab'[t].page = k.page
                 /\ tab'[t].changed = k.changed /\ tab'[t].gen = k.gen /\ tab'[t].seq = k.seq
        BY <2>2 DEF TabShape
    <2>3. CASE tabPc[r] # "alone" /\ Shared(r)
        BY <1>3, <1>4, <1>8, <2>2, <2>3
    <2>4. CASE tabPc[r] # "alone" /\ ~Shared(r)
        BY <1>3, <1>8, <2>2, <2>4
    <2> QED BY <2>1, <2>3, <2>4
<1>10. ~Shared(r) => p.sharingOff
    BY <1>1, <1>6 DEF Shared, TabShape
<1> QED BY <1>1, <1>2, <1>3, <1>5, <1>7, <1>9, <1>10

-----------------------------------------------------------------------------
(* The renewals.                                                             *)

\* The steps that take no number, no token and no answer.
Rests ==
    \/ Tokens!Switch \/ Tokens!ClearStorage \/ \E t \in Tabs : Tokens!Close(t)
    \/ \E r \in Renewals :
        \/ Tokens!Load(r) \/ Tokens!Retry(r) \/ Tokens!Enter(r) \/ Tokens!GoAlone(r) \/ Tokens!Fail(r)

LEMMA TabSteps ==
    Tokens!TabNext <=> \/ Rests
                       \/ \E r \in Renewals : Tokens!TakeNumber(r) \/ Tokens!Serve(r) \/ Tokens!Keep(r)
                       \/ \E m \in messages : Tokens!Deliver(m)
BY DEF Tokens!TabNext, Rests

LEMMA RestsKeepRenewals ==
    ASSUME Tokens!TabAssumption, RenewalsInv, Rests PROVE RenewalsInv'
<1> USE TokenRecords DEF RenewalsInv
<1>1. CASE Tokens!Switch \/ Tokens!ClearStorage
    BY <1>1 DEF Tokens!Switch, Tokens!ClearStorage, Tokens!server, Tokens!storage, TabsShape, LockIsExclusive,
                SharersAreNumbered, Shared, Tokens!Inside
<1>2. ASSUME NEW t \in Tabs, Tokens!Close(t) PROVE RenewalsInv'
    <2>1. TabsShape'
        BY <1>2 DEF Tokens!Close, Tokens!server, Tokens!storage, TabsShape
    <2>2. \A r \in Renewals :
            /\ TabOf[r] = t => tabPc'[r] \in {"new", "done"} /\ number'[r] = Tokens!None /\ answer'[r] = Tokens!Blank
            /\ TabOf[r] # t => /\ tabPc'[r] = tabPc[r] /\ number'[r] = number[r] /\ answer'[r] = answer[r]
                               /\ tab'[TabOf[r]] = tab[TabOf[r]] /\ (TabOf[r] \in open => TabOf[r] \in open')
        BY <1>2 DEF Tokens!Close, Tokens!Of, TabsShape, Tokens!TabAssumption
    <2>3. \A u \in Tabs : tab'[u].renewing => u # t /\ tab[u].renewing
        BY <1>2 DEF Tokens!Close, TabsShape
    <2>4. LockIsExclusive'
        BY <2>2, <2>3 DEF LockIsExclusive, Tokens!Inside, Tokens!TabAssumption
    <2>5. issued' = issued
        BY <1>2 DEF Tokens!Close, Tokens!server
    <2> QED BY <2>1, <2>2, <2>4, <2>5 DEF SharersAreNumbered, Shared, Tokens!TabAssumption
<1>3. ASSUME NEW r \in Renewals, Tokens!Load(r) PROVE RenewalsInv'
    <2>1. TabsShape'
        BY <1>3 DEF Tokens!Load, Tokens!server, Tokens!storage, TabsShape, Tokens!TabAssumption
    <2>2. \A q \in Renewals : TabOf[q] = TabOf[r] => tabPc[q] \in {"new", "done"}
        BY <1>3 DEF Tokens!Load, LockIsExclusive
    <2>3. /\ tabPc' = [tabPc EXCEPT ![r] = "waits"] /\ open \subseteq open' /\ TabOf[r] \in open'
          /\ \A u \in Tabs \ {TabOf[r]} : tab'[u] = tab[u]
          /\ ~tab'[TabOf[r]].renewing /\ UNCHANGED <<issued, number, answer>> /\ tabPc[r] = "new"
        BY <1>3 DEF Tokens!Load, TabsShape, Tokens!TabAssumption, Tokens!server
    <2>4. LockIsExclusive'
        BY <2>2, <2>3 DEF LockIsExclusive, TabsShape, Tokens!Inside, Tokens!TabAssumption
    <2> QED BY <2>1, <2>2, <2>3, <2>4 DEF SharersAreNumbered, Shared, TabsShape, Tokens!TabAssumption
<1>4. ASSUME NEW r \in Renewals, Tokens!Retry(r) PROVE RenewalsInv'
    BY <1>4 DEF Tokens!Retry, Tokens!server, Tokens!storage, TabsShape, LockIsExclusive, SharersAreNumbered,
                Shared, Tokens!Inside
<1>5. ASSUME NEW r \in Renewals, Tokens!Enter(r) \/ Tokens!GoAlone(r) PROVE RenewalsInv'
    <2>1. TabsShape'
        <3>1. tab[TabOf[r]] \in TabShape /\ TabOf[r] \in Tabs
            BY DEF TabsShape, Tokens!TabAssumption
        <3>2. \/ tab' = [tab EXCEPT ![TabOf[r]] = [tab[TabOf[r]] EXCEPT !.renewing = TRUE]]
              \/ tab' = [tab EXCEPT ![TabOf[r]] = [tab[TabOf[r]] EXCEPT !.sharingOff = TRUE]]
            BY <1>5 DEF Tokens!Enter, Tokens!GoAlone
        <3>3. tab' \in [Tabs -> TabShape]
            BY <3>1, <3>2, TabFields DEF TabsShape
        <3> QED BY <1>5, <3>3 DEF Tokens!Enter, Tokens!GoAlone, Tokens!server, Tokens!storage, TabsShape
    <2>2. /\ tabPc[r] = "waits" /\ UNCHANGED <<issued, open, number, answer>>
          /\ tabPc' = [tabPc EXCEPT ![r] = IF Tokens!Enter(r) THEN "counting" ELSE "alone"]
          /\ Tokens!Enter(r) => ~\E q \in Renewals : Tokens!Inside(q)
          /\ \A u \in Tabs : /\ tab[u].sharingOff => tab'[u].sharingOff
                             /\ tab'[u].renewing => tab[u].renewing \/ (u = TabOf[r] /\ Tokens!Enter(r))
          /\ ~Tokens!Enter(r) => tab'[TabOf[r]].sharingOff
        BY <1>5 DEF Tokens!Enter, Tokens!GoAlone, Tokens!LockGranted, Tokens!server, TabsShape, TabShape,
                    Tokens!TabAssumption
    <2>3. LockIsExclusive'
        BY <2>2 DEF LockIsExclusive, TabsShape, Tokens!Inside, Tokens!TabAssumption
    <2>4. \A q \in Renewals : Shared(q)' => Shared(q)
        BY <2>2 DEF Shared, TabsShape, TabShape, Tokens!TabAssumption
    <2> QED BY <2>1, <2>2, <2>3, <2>4 DEF SharersAreNumbered, TabsShape
<1>6. ASSUME NEW r \in Renewals, Tokens!Fail(r) PROVE RenewalsInv'
    <2>1. TabsShape'
        <3>1. tab' \in [Tabs -> TabShape]
            <4>1. tab[TabOf[r]] \in TabShape /\ TabOf[r] \in Tabs
                BY DEF TabsShape, Tokens!TabAssumption
            <4>2. tab' = [tab EXCEPT ![TabOf[r]] = [tab[TabOf[r]] EXCEPT !.connected = FALSE,
                            !.renewing = IF tabPc[r] = "locked" THEN FALSE ELSE tab[TabOf[r]].renewing]]
                BY <1>6, <4>1 DEF Tokens!Fail, TabsShape, TabShape
            <4> QED BY <4>1, <4>2, TabFields DEF TabsShape
        <3> QED BY <1>6, <3>1 DEF Tokens!Fail, Tokens!Ends, Tokens!server, Tokens!storage, TabsShape
    <2>2. /\ tabPc[r] \in {"locked", "alone"} /\ tabPc' = [tabPc EXCEPT ![r] = "done"]
          /\ number' = [number EXCEPT ![r] = Tokens!None] /\ answer' = [answer EXCEPT ![r] = Tokens!Blank]
          /\ UNCHANGED <<issued, open>>
          /\ \A u \in Tabs : /\ tab[u].sharingOff = tab'[u].sharingOff
                             /\ tab'[u].renewing => tab[u].renewing /\ (u = TabOf[r] => tabPc[r] = "alone")
        BY <1>6 DEF Tokens!Fail, Tokens!Ends, Tokens!server, TabsShape, TabShape, Tokens!TabAssumption
    <2>3. LockIsExclusive'
        BY <2>2 DEF LockIsExclusive, TabsShape, Tokens!Inside, Tokens!TabAssumption
    <2>4. \A q \in Renewals : Shared(q)' => Shared(q)
        BY <2>2 DEF Shared, TabsShape, TabShape, Tokens!TabAssumption
    <2>5. \A q \in Renewals :
            \/ tabPc'[q] = tabPc[q] /\ number'[q] = number[q] /\ answer'[q] = answer[q]
            \/ tabPc'[q] = "done" /\ number'[q] = Tokens!None /\ answer'[q] = Tokens!Blank
        BY <2>2 DEF TabsShape
    <2>6. SharersAreNumbered'
        BY <2>2, <2>4, <2>5 DEF SharersAreNumbered, Shared
    <2> QED BY <2>1, <2>3, <2>6
<1> QED BY <1>1, <1>2, <1>3, <1>4, <1>5, <1>6 DEF Rests

LEMMA RestsAreQuiet ==
    ASSUME Tokens!TabAssumption, RenewalsInv, Rests PROVE NumbersRest
<1> USE DEF RenewalsInv, NumbersRest, Quiet
<1>1. CASE Tokens!Switch \/ Tokens!ClearStorage
    BY <1>1 DEF Tokens!Switch, Tokens!ClearStorage, Tokens!server, Tokens!storage, Stays, Shared
<1>2. ASSUME NEW t \in Tabs, Tokens!Close(t) PROVE NumbersRest
    <2>1. \A u \in Tabs : Afresh(u) \/ Stays(u)
        BY <1>2 DEF Tokens!Close, TabsShape, Afresh, Stays
    <2>2. \A r \in Renewals : tabPc'[r] = "locked" =>
            /\ tabPc[r] = "locked" /\ number'[r] = number[r] /\ answer'[r] = answer[r]
            /\ tab'[TabOf[r]] = tab[TabOf[r]]
        BY <1>2 DEF Tokens!Close, Tokens!Of, TabsShape, Tokens!TabAssumption
    <2> QED BY <1>2, <2>1, <2>2 DEF Tokens!Close, Tokens!server, Tokens!storage, Shared, TabsShape, PostShape
<1>3. ASSUME NEW r \in Renewals, Tokens!Load(r) PROVE NumbersRest
    <2>1. \A u \in Tabs : Afresh(u) \/ Stays(u)
        BY <1>3 DEF Tokens!Load, TabsShape, Afresh, Stays, Tokens!TabAssumption
    <2>2. \A q \in Renewals : tabPc'[q] = "locked" =>
            /\ tabPc[q] = "locked" /\ number'[q] = number[q] /\ answer'[q] = answer[q]
            /\ tab'[TabOf[q]] = tab[TabOf[q]]
        BY <1>3 DEF Tokens!Load, TabsShape, Tokens!TabAssumption, LockIsExclusive
    <2>3. UNCHANGED <<messages, issued, counter, gens>>
        BY <1>3 DEF Tokens!Load, Tokens!server, Tokens!storage
    <2> QED BY <2>1, <2>2, <2>3 DEF Shared
<1>4. ASSUME NEW r \in Renewals,
             Tokens!Retry(r) \/ Tokens!Enter(r) \/ Tokens!GoAlone(r) \/ Tokens!Fail(r)
      PROVE  NumbersRest
    <2>1. \A u \in Tabs : Stays(u)
        <3>1. CASE Tokens!Retry(r)
            BY <3>1 DEF Tokens!Retry, Stays
        <3>2. CASE Tokens!Enter(r) \/ Tokens!GoAlone(r)
            <4>1. open' = open
                BY <3>2 DEF Tokens!Enter, Tokens!GoAlone
            <4>2. \A u \in Tabs : \/ tab'[u] = tab[u]
                                 \/ tab'[u] = [tab[u] EXCEPT !.renewing = TRUE]
                                 \/ tab'[u] = [tab[u] EXCEPT !.sharingOff = TRUE]
                BY <3>2 DEF Tokens!Enter, Tokens!GoAlone, TabsShape, Tokens!TabAssumption
            <4>3. ASSUME NEW u \in Tabs PROVE Stays(u)
                <5>1. tab[u] \in TabShape
                    BY DEF TabsShape
                <5>2. CASE tab'[u] = tab[u]
                    BY <4>1, <5>2 DEF Stays
                <5>3. CASE tab'[u] = [tab[u] EXCEPT !.renewing = TRUE]
                    BY <4>1, <5>1, <5>3, FieldsStay DEF Stays
                <5>4. CASE tab'[u] = [tab[u] EXCEPT !.sharingOff = TRUE]
                    BY <4>1, <5>1, <5>4, FieldsStay DEF Stays
                <5> QED BY <4>2, <5>2, <5>3, <5>4
            <4> QED BY <4>3
        <3>3. CASE Tokens!Fail(r)
            <4>1. open' = open
                BY <3>3 DEF Tokens!Fail
            <4>2. \A u \in Tabs : \/ tab'[u] = tab[u]
                                 \/ \E b \in BOOLEAN : tab'[u] = [tab[u] EXCEPT !.connected = FALSE, !.renewing = b]
                <5>1. tab[TabOf[r]] \in TabShape /\ TabOf[r] \in Tabs
                    BY DEF TabsShape, Tokens!TabAssumption
                <5>2. (IF tabPc[r] = "locked" THEN FALSE ELSE tab[TabOf[r]].renewing) \in BOOLEAN
                    BY <5>1, TabFields
                <5>3. tab' = [tab EXCEPT ![TabOf[r]] = [tab[TabOf[r]] EXCEPT !.connected = FALSE,
                                !.renewing = IF tabPc[r] = "locked" THEN FALSE ELSE tab[TabOf[r]].renewing]]
                    BY <3>3, <5>1 DEF Tokens!Fail, TabsShape, TabShape
                <5> QED BY <5>1, <5>2, <5>3 DEF TabsShape
            <4>3. ASSUME NEW u \in Tabs PROVE Stays(u)
                <5>1. tab[u] \in TabShape
                    BY DEF TabsShape
                <5>2. CASE tab'[u] = tab[u]
                    BY <4>1, <5>2 DEF Stays
                <5>3. ASSUME NEW b \in BOOLEAN, tab'[u] = [tab[u] EXCEPT !.connected = FALSE, !.renewing = b]
                      PROVE  Stays(u)
                    BY <4>1, <5>1, <5>3, FieldsStay DEF Stays
                <5> QED BY <4>2, <5>2, <5>3
            <4> QED BY <4>3
        <3> QED BY <1>4, <3>1, <3>2, <3>3
    <2>2. \A q \in Renewals : tabPc'[q] = "locked" =>
            tabPc[q] = "locked" /\ number'[q] = number[q] /\ answer'[q] = answer[q]
        BY <1>4 DEF Tokens!Retry, Tokens!Enter, Tokens!GoAlone, Tokens!Fail, Tokens!LockGranted,
                    Tokens!Ends, TabsShape
    <2>3. UNCHANGED <<messages, issued, counter, gens>>
        BY <1>4 DEF Tokens!Retry, Tokens!Enter, Tokens!GoAlone, Tokens!Fail, Tokens!server, Tokens!storage
    <2>4. \A q \in Renewals : Shared(q)' /\ tabPc[q] = "locked" => Shared(q)
        BY <2>1 DEF Stays, Shared, Tokens!TabAssumption
    <2> QED BY <2>1, <2>2, <2>3, <2>4 DEF Shared
<1> QED BY <1>1, <1>2, <1>3, <1>4 DEF Rests

LEMMA RenewalsGoOn ==
    ASSUME Tokens!TabAssumption, RenewalsInv, NumbersInv,
           \/ \E r \in Renewals : Tokens!TakeNumber(r) \/ Tokens!Serve(r) \/ Tokens!Keep(r)
           \/ \E m \in messages : Tokens!Deliver(m)
    PROVE  RenewalsInv'
<1> USE TokenRecords DEF RenewalsInv
<1>1. ASSUME NEW r \in Renewals, Tokens!TakeNumber(r) PROVE RenewalsInv'
    <2> DEFINE next == Tokens!NextNumber
    <2>1. Tokens!NextNumber \in NumberShape /\ Tokens!NextNumber.gen > 0
        BY DEF Tokens!NextNumber, NumberShape, TabsShape, NumbersInv, CounterIsAhead
    <2>2. /\ tabPc[r] = "counting" /\ tabPc' = [tabPc EXCEPT ![r] = "locked"] /\ UNCHANGED <<issued, open, answer>>
          /\ number' = number \/ \E n \in {Tokens!NextNumber, Tokens!None} : number' = [number EXCEPT ![r] = n]
          /\ \A u \in Tabs : /\ tab[u].sharingOff => tab'[u].sharingOff
                             /\ tab'[u].renewing = tab[u].renewing
          /\ ~tab'[TabOf[r]].sharingOff => number' = [number EXCEPT ![r] = Tokens!NextNumber]
        <3>1. TabOf[r] \in Tabs /\ next # Tokens!None
            BY <2>1 DEF TabsShape, Tokens!TabAssumption, Tokens!None
        <3>2. \/ tab' = [tab EXCEPT ![TabOf[r]] = [tab[TabOf[r]] EXCEPT !.sharingOff = TRUE]]
              \/ /\ tab' = [tab EXCEPT ![TabOf[r]] = [tab[TabOf[r]] EXCEPT !.sharingOff = FALSE]]
                 /\ ~tab[TabOf[r]].sharingOff /\ number' = [number EXCEPT ![r] = next]
            BY <1>1, <3>1 DEF Tokens!TakeNumber
        <3>3. /\ tabPc[r] = "counting" /\ tabPc' = [tabPc EXCEPT ![r] = "locked"]
              /\ UNCHANGED <<issued, open, answer>>
              /\ number' = number \/ \E n \in {next, Tokens!None} : number' = [number EXCEPT ![r] = n]
            BY <1>1 DEF Tokens!TakeNumber, Tokens!server
        <3> HIDE DEF next
        <3>4. \A u \in Tabs : /\ tab[u].sharingOff => tab'[u].sharingOff
                             /\ tab'[u].renewing = tab[u].renewing
            BY <3>1, <3>2 DEF TabsShape, TabShape
        <3>5. ~tab'[TabOf[r]].sharingOff => number' = [number EXCEPT ![r] = next]
            BY <3>1, <3>2 DEF TabsShape, TabShape
        <3> QED BY <3>3, <3>4, <3>5 DEF next
    <2>3. TabsShape'
        <3>1. tab[TabOf[r]] \in TabShape /\ TabOf[r] \in Tabs
            BY DEF TabsShape, Tokens!TabAssumption
        <3>2. \E b \in BOOLEAN : tab' = [tab EXCEPT ![TabOf[r]] = [tab[TabOf[r]] EXCEPT !.sharingOff = b]]
            BY <1>1 DEF Tokens!TakeNumber
        <3>3. tab' \in [Tabs -> TabShape]
            <4>1. PICK b \in BOOLEAN : tab' = [tab EXCEPT ![TabOf[r]] = [tab[TabOf[r]] EXCEPT !.sharingOff = b]]
                BY <3>2
            <4>2. [tab[TabOf[r]] EXCEPT !.sharingOff = b] \in TabShape
                BY <3>1, TabFields
            <4> QED BY <4>1, <4>2 DEF TabsShape
        <3>4. number' \in [Renewals -> NumberShape] /\ counter' \in NumberShape /\ gens' \in Nat
            <4>1. number' = number \/ \E n \in {next, Tokens!None} : number' = [number EXCEPT ![r] = n]
                BY <2>2
            <4>2. (counter' = next /\ gens' = next.gen) \/ (counter' = counter /\ gens' = gens)
                BY <1>1 DEF Tokens!TakeNumber, Tokens!storage
            <4>3. next \in NumberShape /\ Tokens!None \in NumberShape /\ next.gen \in Nat
                BY <2>1 DEF NumberShape
            <4> HIDE DEF next
            <4> QED BY <4>1, <4>2, <4>3 DEF TabsShape
        <3> QED BY <1>1, <3>3, <3>4 DEF Tokens!TakeNumber, Tokens!server, TabsShape
    <2>4. LockIsExclusive'
        BY <2>2 DEF LockIsExclusive, TabsShape, Tokens!Inside, Tokens!TabAssumption
    <2>5. \A q \in Renewals \ {r} : Shared(q)' => Shared(q)
        BY <2>2 DEF Shared, TabsShape, TabShape, Tokens!TabAssumption
    <2> QED BY <2>1, <2>2, <2>3, <2>4, <2>5 DEF SharersAreNumbered, Shared, TabsShape
<1>2. ASSUME NEW r \in Renewals, Tokens!Serve(r) PROVE RenewalsInv'
    <2>1. PICK who \in {owner, Tokens!Unknown} : answer' = [answer EXCEPT ![r] = [n |-> issued + 1, who |-> who]]
        BY <1>2 DEF Tokens!Serve
    <2>2. /\ issued' = issued + 1 /\ UNCHANGED <<owner, counter, gens, messages, open, tab, tabPc, number>>
          /\ tabPc[r] \in {"locked", "alone"}
        BY <1>2 DEF Tokens!Serve, Tokens!storage
    <2>3. TabsShape'
        BY <2>1, <2>2 DEF TabsShape, TokenShape
    <2>4. \A q \in Renewals : answer'[q] = answer[q] \/ (q = r /\ answer'[q].n = issued + 1)
        BY <2>1 DEF TabsShape
    <2> QED BY <2>2, <2>3, <2>4 DEF LockIsExclusive, SharersAreNumbered, Shared, Tokens!Inside, TabsShape
<1>3. ASSUME NEW r \in Renewals, Tokens!Keep(r) PROVE RenewalsInv'
    <2>1. /\ TabOf[r] \in Tabs /\ tab' \in [Tabs -> TabShape]
          /\ \A u \in Tabs : /\ tab'[u].sharingOff = tab[u].sharingOff
                             /\ tab'[u].renewing => tab[u].renewing /\ (u = TabOf[r] => tabPc[r] = "alone")
          /\ messages' \subseteq messages \cup Tokens!Posts(r)
        BY <1>3, KeepDoes
    <2>2. Tokens!Posts(r) \subseteq PostShape
        BY DEF Tokens!Posts, PostShape, TabsShape, NumberShape
    <2>3. /\ tabPc[r] \in {"locked", "alone"} /\ tabPc' = [tabPc EXCEPT ![r] = "done"]
          /\ number' = [number EXCEPT ![r] = Tokens!None] /\ answer' = [answer EXCEPT ![r] = Tokens!Blank]
          /\ UNCHANGED <<owner, issued, counter, gens, open>>
        BY <1>3 DEF Tokens!Keep, Tokens!Ends, Tokens!server, Tokens!storage
    <2>4. TabsShape'
        BY <2>1, <2>2, <2>3 DEF TabsShape
    <2>5. LockIsExclusive'
        BY <2>1, <2>3 DEF LockIsExclusive, TabsShape, Tokens!Inside, Tokens!TabAssumption
    <2>6. \A q \in Renewals : Shared(q)' => Shared(q)
        BY <2>1, <2>3 DEF Shared, TabsShape, TabShape, Tokens!TabAssumption
    <2>7. \A q \in Renewals :
            \/ tabPc'[q] = tabPc[q] /\ number'[q] = number[q] /\ answer'[q] = answer[q]
            \/ tabPc'[q] = "done" /\ number'[q] = Tokens!None /\ answer'[q] = Tokens!Blank
        BY <2>3 DEF TabsShape
    <2>8. SharersAreNumbered'
        BY <2>3, <2>6, <2>7 DEF SharersAreNumbered, Shared
    <2> QED BY <2>4, <2>5, <2>8
<1>4. ASSUME NEW m \in messages, Tokens!Deliver(m) PROVE RenewalsInv'
    <2>1. /\ messages' \subseteq messages
          /\ UNCHANGED <<owner, issued, counter, gens, open, tabPc, number, answer>>
          /\ tab' \in [Tabs -> TabShape]
          /\ \A u \in Tabs : tab'[u].sharingOff = tab[u].sharingOff /\ tab'[u].renewing = tab[u].renewing
        BY <1>4 DEF Tokens!Deliver, Tokens!server, Tokens!storage, TabsShape, TabShape, PostShape
    <2> QED BY <2>1 DEF TabsShape, LockIsExclusive, SharersAreNumbered, Shared, Tokens!Inside, Tokens!TabAssumption
<1> QED BY <1>1, <1>2, <1>3, <1>4

-----------------------------------------------------------------------------
(* Numbers and tokens go up together.                                        *)

LEMMA NumbersStay ==
    ASSUME Tokens!TabAssumption, RenewalsInv, NumbersInv, NumbersRest PROVE NumbersInv'
<1> USE DEF NumbersInv
<1>1. \A t \in Tabs :
        \/ tab'[t].gen = 0 /\ tab'[t].csrf.n = 0 /\ tab'[t].seq = 0
        \/ /\ tab'[t].gen = tab[t].gen /\ tab'[t].seq = tab[t].seq /\ tab'[t].csrf = tab[t].csrf
           /\ tab[t].sharingOff => tab'[t].sharingOff
    BY TokenRecords DEF NumbersRest, Quiet, Afresh, Stays
<1>2. /\ messages' \subseteq messages /\ issued' = issued /\ gens' = gens /\ counter' \in {counter, Tokens!None}
      /\ \A r \in Renewals : tabPc'[r] = "locked" =>
            /\ tabPc[r] = "locked" /\ number'[r] = number[r] /\ answer'[r] = answer[r]
            /\ Shared(r)' => Shared(r)
    BY DEF NumbersRest, Quiet
<1>3. CounterIsAhead'
    BY <1>1, <1>2 DEF CounterIsAhead, Behind, Before, RenewalsInv, TabsShape, NumberShape
<1>4. PostsAreInOrder'
    BY <1>1, <1>2 DEF PostsAreInOrder, Newer
<1>5. AnswerIsNewest'
    <2>1. \A r \in Renewals : Shared(r)' => Shared(r) /\ answer'[r] = answer[r]
        BY <1>2 DEF Shared
    <2>2. \A r \in Renewals : answer[r] # Tokens!Blank => answer[r].n > 0
        BY DEF RenewalsInv, SharersAreNumbered
    <2> QED BY <1>1, <1>2, <2>1, <2>2 DEF AnswerIsNewest, RenewalsInv, TabsShape
<1> QED BY <1>3, <1>4, <1>5

\* No other renewal is past the counter.
LEMMA NoOtherIsLocked ==
    ASSUME RenewalsInv, NEW r \in Renewals, Tokens!Inside(r), NEW q \in Renewals, q # r
    PROVE  tabPc[q] # "locked"
BY DEF RenewalsInv, LockIsExclusive, Tokens!Inside

LEMMA NumbersAreTaken ==
    ASSUME Tokens!TabAssumption, RenewalsInv, NumbersInv, NEW r \in Renewals, Tokens!TakeNumber(r)
    PROVE  NumbersInv' /\ Quiet
<1> USE DEF NumbersInv
<1> DEFINE next == Tokens!NextNumber
<1>1. /\ next \in NumberShape /\ next.gen > 0 /\ next.gen >= gens
      /\ IF counter = Tokens!None THEN next.gen = gens + 1
                                  ELSE next.gen = counter.gen /\ next.gen = gens /\ next.seq = counter.seq + 1
    BY DEF Tokens!NextNumber, NumberShape, RenewalsInv, TabsShape, CounterIsAhead
<1>2. \A x \in NumberShape \cup messages \cup {tab[t] : t \in Tabs} :
        Behind(x) /\ x.gen \in Nat /\ x.seq \in Nat => x.gen <= next.gen /\ (x.gen = next.gen => x.seq < next.seq)
    BY <1>1 DEF Behind, RenewalsInv, TabsShape, NumberShape
<1>3. /\ tabPc[r] = "counting" /\ tabPc' = [tabPc EXCEPT ![r] = "locked"]
      /\ UNCHANGED <<messages, issued, open, answer>>
      /\ \/ counter' = next /\ gens' = next.gen
            /\ \E n \in {next, Tokens!None} : number' = [number EXCEPT ![r] = n]
         \/ counter' = counter /\ gens' = gens /\ number' = number
    BY DEF Tokens!TakeNumber, Tokens!server, Tokens!storage
<1>4. \A t \in Tabs : Stays(t)
    BY DEF Tokens!TakeNumber, Tokens!server, Stays, RenewalsInv, TabsShape, TabShape, Tokens!TabAssumption
<1>5. \A q \in Renewals \ {r} : tabPc'[q] # "locked"
    BY <1>3, NoOtherIsLocked DEF Tokens!Inside, RenewalsInv, TabsShape
<1>6. number[r] = Tokens!None /\ answer[r] = Tokens!Blank
    BY <1>3 DEF RenewalsInv, SharersAreNumbered
<1>7. CounterIsAhead'
    <2>1. /\ \A m \in messages : Behind(m) /\ m.gen \in Nat /\ m.seq \in Nat
          /\ \A t \in Tabs : Behind(tab[t]) /\ tab[t].gen \in Nat /\ tab[t].seq \in Nat
        BY DEF CounterIsAhead, RenewalsInv, TabsShape, PostShape, TabShape
    <2>2. \A t \in Tabs : tab'[t].gen = tab[t].gen /\ tab'[t].seq = tab[t].seq
        BY <1>4 DEF Stays
    <2>3. CASE counter' = counter /\ gens' = gens /\ number' = number
        BY <1>3, <1>5, <1>6, <2>1, <2>2, <2>3, TokenRecords
        DEF CounterIsAhead, Behind, RenewalsInv, TabsShape
    <2>4. ASSUME counter' = next, gens' = next.gen, NEW n \in {next, Tokens!None}, number' = [number EXCEPT ![r] = n]
          PROVE  CounterIsAhead'
        <3>1. /\ \A m \in messages : m.gen <= next.gen /\ (m.gen = next.gen => m.seq < next.seq)
              /\ \A t \in Tabs : tab[t].gen <= next.gen /\ (tab[t].gen = next.gen => tab[t].seq < next.seq)
            BY <1>2, <2>1
        <3>2. number'[r] = n
            BY <2>4 DEF RenewalsInv, TabsShape
        <3> HIDE DEF next
        <3> QED BY <1>1, <1>3, <1>5, <2>1, <2>2, <2>4, <3>1, <3>2, TokenRecords
                DEF CounterIsAhead, Behind, Before, NumberShape
    <2> QED BY <1>3, <2>3, <2>4
<1>8. PostsAreInOrder'
    BY <1>3, <1>4 DEF PostsAreInOrder, Newer, Stays
<1>9. AnswerIsNewest'
    <2>1. \A q \in Renewals : Shared(q)' => answer'[q] = Tokens!Blank
        BY <1>3, <1>5, <1>6 DEF Shared
    <2> QED BY <1>3, <1>4, <2>1 DEF AnswerIsNewest, Stays
<1> QED BY <1>3, <1>4, <1>7, <1>8, <1>9 DEF Quiet

LEMMA NumbersAreServed ==
    ASSUME Tokens!TabAssumption, RenewalsInv, NumbersInv, NEW r \in Renewals, Tokens!Serve(r)
    PROVE  NumbersInv' /\ Quiet
<1> USE DEF NumbersInv
<1>1. PICK who \in {owner, Tokens!Unknown} : answer' = [answer EXCEPT ![r] = [n |-> issued + 1, who |-> who]]
    BY DEF Tokens!Serve
<1>2. issued' = issued + 1 /\ UNCHANGED <<counter, gens, messages, open, tab, tabPc, number>>
    BY DEF Tokens!Serve, Tokens!storage
<1>3. CounterIsAhead'
    BY <1>2 DEF CounterIsAhead, Behind, Before
<1>4. PostsAreInOrder'
    BY <1>2 DEF PostsAreInOrder, Newer, RenewalsInv, TabsShape
<1>5. AnswerIsNewest'
    <2>1. \A q \in Renewals : answer'[q] = answer[q] \/ (q = r /\ answer'[q].n = issued + 1)
        BY <1>1 DEF RenewalsInv, TabsShape
    <2>2. /\ \A m \in messages : m.token.n \in Nat /\ m.token.n <= issued
          /\ \A t \in Tabs : tab[t].csrf.n \in Nat /\ tab[t].csrf.n <= issued
          /\ issued \in Nat
        BY DEF PostsAreInOrder, AnswerIsNewest, RenewalsInv, TabsShape, PostShape, TabShape, TokenShape
    <2> QED BY <1>2, <2>1, <2>2 DEF AnswerIsNewest, Shared
<1>6. Quiet
    BY <1>2 DEF Quiet, Stays
<1> QED BY <1>3, <1>4, <1>5, <1>6

LEMMA NumbersAreKept ==
    ASSUME Tokens!TabAssumption, RenewalsInv, NumbersInv, NEW r \in Renewals, Tokens!Keep(r)
    PROVE  NumbersInv'
<1> USE DEF NumbersInv
<1> DEFINE t == TabOf[r]
           a == answer[r]
<1>1. /\ t \in Tabs /\ a \in TokenShape /\ a.n \in 1 .. issued
      /\ tab' \in [Tabs -> TabShape] /\ \A u \in Tabs \ {t} : tab'[u] = tab[u]
      /\ tab'[t].sharingOff = tab[t].sharingOff
      /\ tab'[t].csrf \in {Tokens!Blank, a}
      /\ IF Shared(r) THEN tab'[t].gen = number[r].gen /\ tab'[t].seq = number[r].seq
                      ELSE tab'[t].gen = tab[t].gen /\ tab'[t].seq = tab[t].seq
      /\ ~Shared(r) => tab[t].sharingOff
      /\ messages' = messages \cup (IF Shared(r) /\ a.who # Tokens!Unknown THEN Tokens!Posts(r) ELSE {})
    BY KeepDoes
<1>2. /\ UNCHANGED <<issued, counter, gens>> /\ tabPc' = [tabPc EXCEPT ![r] = "done"] /\ a # Tokens!Blank
      /\ number' = [number EXCEPT ![r] = Tokens!None] /\ answer' = [answer EXCEPT ![r] = Tokens!Blank]
      /\ tabPc[r] \in {"locked", "alone"}
    BY DEF Tokens!Keep, Tokens!Ends, Tokens!server, Tokens!storage
<1>3. \A m \in Tokens!Posts(r) : m.gen = number[r].gen /\ m.seq = number[r].seq /\ m.token = a
    BY DEF Tokens!Posts
<1>4. \A q \in Renewals : tabPc'[q] = "locked" =>
        q # r /\ tabPc[q] = "locked" /\ number'[q] = number[q] /\ answer'[q] = answer[q]
    BY <1>2 DEF RenewalsInv, TabsShape
<1>5. \A q \in Renewals : Shared(q)' => Shared(q) /\ answer'[q] = answer[q]
    BY <1>1, <1>4 DEF Shared, Tokens!TabAssumption
<1> HIDE DEF t, a
<1>6. CASE ~Shared(r)
    <2>1. messages' = messages /\ tab[t].sharingOff
        BY <1>1, <1>6
    <2>2. \A u \in Tabs : /\ tab'[u].gen = tab[u].gen /\ tab'[u].seq = tab[u].seq
                          /\ tab'[u].sharingOff = tab[u].sharingOff
                          /\ ~tab[u].sharingOff => tab'[u] = tab[u]
        BY <1>1, <1>6, <2>1
    <2>3. CounterIsAhead'
        BY <1>2, <1>4, <2>1, <2>2 DEF CounterIsAhead, Behind, Before
    <2>4. PostsAreInOrder'
        BY <1>2, <2>1, <2>2 DEF PostsAreInOrder, Newer
    <2>5. \A u \in Tabs : tab'[u].csrf.n <= issued
        BY <1>1, TokenRecords DEF AnswerIsNewest, RenewalsInv, TabsShape
    <2>6. AnswerIsNewest'
        BY <1>2, <1>5, <2>1, <2>2, <2>5 DEF AnswerIsNewest
    <2> QED BY <2>3, <2>4, <2>6
<1>7. CASE Shared(r)
    <2>1. /\ tabPc[r] = "locked" /\ ~tab[t].sharingOff /\ number[r].gen > 0 /\ Behind(number[r])
          /\ \A m \in messages : Before(m, r) /\ m.token.n < a.n
          /\ \A u \in Tabs : Before(tab[u], r) /\ (~tab[u].sharingOff => tab[u].csrf.n < a.n)
        BY <1>2, <1>7 DEF Shared, RenewalsInv, SharersAreNumbered, CounterIsAhead, AnswerIsNewest, t, a
    <2>2. \A q \in Renewals : tabPc'[q] # "locked"
        BY <1>4, <2>1, NoOtherIsLocked DEF Tokens!Inside
    <2>3. tab'[t].gen = number[r].gen /\ tab'[t].seq = number[r].seq
        BY <1>1, <1>7
    <2>4. \A m \in messages' : m \in messages \/ (m \in Tokens!Posts(r) /\ a.who # Tokens!Unknown)
        BY <1>1
    <2>5. CounterIsAhead'
        BY <1>1, <1>2, <1>3, <2>1, <2>2, <2>3, <2>4 DEF CounterIsAhead, Behind
    <2>6. /\ \A m \in messages : m.gen \in Nat /\ m.seq \in Nat /\ m.token.n \in Nat
          /\ \A u \in Tabs : tab[u].gen \in Nat /\ tab[u].seq \in Nat /\ tab[u].csrf.n \in Nat
          /\ number[r].gen \in Nat /\ number[r].seq \in Nat /\ a.n \in Nat
        BY <1>1 DEF RenewalsInv, TabsShape, PostShape, TabShape, TokenShape, NumberShape
    <2>7. PostsAreInOrder'
        <3>1. \A m \in messages' : m.gen > 0 /\ m.token.n \in 1 .. issued' /\ m.token.who \in People
            BY <1>1, <1>2, <1>3, <2>1, <2>4 DEF PostsAreInOrder, TokenShape
        <3>2. \A m, k \in messages' : Newer(k, m) => m.token.n < k.token.n
            BY <1>3, <2>1, <2>4, <2>6 DEF PostsAreInOrder, Newer, Before
        <3>3. \A m \in messages', u \in Tabs : ~tab'[u].sharingOff /\ Newer(m, tab'[u]) => tab'[u].csrf.n < m.token.n
            <4>1. \A m \in messages' : ~Newer(m, tab'[t])
                BY <1>3, <2>1, <2>3, <2>4, <2>6 DEF Newer, Before
            <4>2. \A m \in messages', u \in Tabs \ {t} :
                    ~tab[u].sharingOff /\ Newer(m, tab[u]) => tab[u].csrf.n < m.token.n
                BY <1>3, <2>1, <2>4 DEF PostsAreInOrder
            <4> QED BY <1>1, <4>1, <4>2
        <3> QED BY <3>1, <3>2, <3>3 DEF PostsAreInOrder, Newer
    <2>8. AnswerIsNewest'
        <3>1. \A u \in Tabs : tab'[u].csrf.n <= issued
            BY <1>1, TokenRecords DEF AnswerIsNewest, RenewalsInv, TabsShape
        <3>2. \A q \in Renewals : ~Shared(q)'
            BY <2>2 DEF Shared
        <3> QED BY <1>2, <3>1, <3>2 DEF AnswerIsNewest
    <2> QED BY <2>5, <2>7, <2>8
<1> QED BY <1>6, <1>7

\* What a delivered post changes.
LEMMA DeliverDoes ==
    ASSUME RenewalsInv, NEW m \in messages, Tokens!Deliver(m), NEW t, t = m.to
    PROVE  /\ t \in Tabs /\ messages' = messages \ {m}
           /\ UNCHANGED <<issued, counter, gens, open, tabPc, number, answer>>
           /\ \A u \in Tabs \ {t} : tab'[u] = tab[u]
           /\ IF Tokens!Accepts(m, tab[t])
              THEN /\ tab'[t].csrf = m.token /\ tab'[t].seq = m.seq /\ tab[t].gen = m.gen /\ tab'[t].gen = m.gen
                   /\ tab'[t].sharingOff = tab[t].sharingOff /\ tab'[t].renewing = tab[t].renewing
                   /\ tab'[t].drawn = tab[t].drawn /\ tab'[t].page = tab[t].page
                   /\ tab'[t].changed = tab[t].changed /\ tab'[t].mismatch = tab[t].mismatch
                   /\ tab'[t].connected = tab[t].connected
                   /\ m.token.who = tab[t].page /\ ~tab[t].mismatch /\ ~tab[t].sharingOff
                   /\ Newer(m, tab[t])
              ELSE tab' = tab
BY DEF Tokens!Deliver, Tokens!Accepts, Tokens!server, Tokens!storage, RenewalsInv, TabsShape, TabShape,
       PostShape, Newer

LEMMA NumbersAreDelivered ==
    ASSUME Tokens!TabAssumption, RenewalsInv, NumbersInv, NEW m \in messages, Tokens!Deliver(m)
    PROVE  NumbersInv'
<1> USE DEF NumbersInv
<1> DEFINE t == m.to
<1>1. \A q \in Renewals : Shared(q)' => Shared(q)
    BY DeliverDoes DEF Shared, Tokens!TabAssumption
<1>2. /\ t \in Tabs /\ messages' = messages \ {m}
      /\ UNCHANGED <<issued, counter, gens, tabPc, number, answer>>
      /\ \A u \in Tabs : \/ tab'[u] = tab[u]
                         \/ /\ tab'[u].csrf = m.token /\ tab'[u].seq = m.seq /\ tab'[u].gen = m.gen
                            /\ Newer(m, tab[u]) /\ tab'[u].sharingOff = tab[u].sharingOff
    BY DeliverDoes
<1> HIDE DEF t
<1>3. CounterIsAhead'
    BY <1>2 DEF CounterIsAhead, Behind, Before
<1>4. PostsAreInOrder'
    BY <1>2 DEF PostsAreInOrder, Newer
<1>5. AnswerIsNewest'
    <2>1. \A u \in Tabs : tab'[u].csrf.n <= issued'
        BY <1>2 DEF AnswerIsNewest, PostsAreInOrder
    <2> QED BY <1>1, <1>2, <2>1 DEF AnswerIsNewest
<1> QED BY <1>3, <1>4, <1>5

-----------------------------------------------------------------------------
(* What tabs that share know of each other.                                  *)

LEMMA QuietKeepsSharing ==
    ASSUME SharingInv, PageIsTheirs, Quiet PROVE SharingInv' /\ PageIsTheirs'
<1> USE DEF SharingInv
<1>1. /\ messages' \subseteq messages /\ \A m \in messages : m.to \in open' => m \in messages'
      /\ \A t \in Tabs : Afresh(t) \/ Stays(t)
    BY DEF Quiet
<1>2. \A t \in Tabs : Sound(t)' => /\ Sound(t) /\ Stays(t) /\ t \in open'
                                   /\ Listens(t)' => Listens(t)
    BY <1>1, TokenRecords DEF Afresh, Stays, Sound, Listens
<1>3. TabsAreNumbered'
    BY <1>2 DEF TabsAreNumbered, Stays
<1>4. OneTokenPerNumber'
    BY <1>1, <1>2 DEF OneTokenPerNumber, Stays, SameNumber
<1>5. NewsIsOnItsWay'
    <2>1. ASSUME NEW t \in Tabs, Sound(t)', NEW x, Awaits(t, x) PROVE \E m \in messages' :
            m.to = t /\ m.gen = x.gen /\ m.seq >= x.seq /\ m.token.who = tab'[t].page
        BY <1>1, <1>2, <2>1 DEF Awaits, Stays
    <2>2. ASSUME NEW t \in Tabs, NEW m \in messages', Listens(t)', Newer(m, tab[t])', m.token.who = tab'[t].page
          PROVE  Awaits(t, m)'
        <3>1. Awaits(t, m) /\ Sound(t)'
            BY <1>1, <1>2, <2>2 DEF Listens, Stays, Newer, NewsIsOnItsWay
        <3> QED BY <2>1, <3>1 DEF Awaits
    <2>3. ASSUME NEW t \in Tabs, NEW u \in Tabs, Listens(t)', Sound(u)', Newer(tab[u], tab[t])',
                 tab'[u].page = tab'[t].page
          PROVE  Awaits(t, tab[u])'
        <3>1. Awaits(t, tab[u]) /\ Sound(t)' /\ tab'[u].gen = tab[u].gen /\ tab'[u].seq = tab[u].seq
            BY <1>2, <2>3 DEF Listens, Stays, Newer, NewsIsOnItsWay
        <3> QED BY <2>1, <3>1 DEF Awaits
    <2> QED BY <2>2, <2>3 DEF NewsIsOnItsWay
<1>6. PageIsTheirs'
    BY <1>1, TokenRecords DEF PageIsTheirs, Afresh, Stays
<1> QED BY <1>3, <1>4, <1>5, <1>6

LEMMA KeepKeepsSharing ==
    ASSUME Tokens!TabAssumption, TabInv, NEW r \in Renewals, Tokens!Keep(r)
    PROVE  SharingInv' /\ PageIsTheirs'
<1> USE DEF TabInv, SharingInv
<1> DEFINE t == TabOf[r]
           a == answer[r]
<1>1. /\ t \in Tabs /\ t \in open /\ a \in TokenShape
      /\ \A u \in Tabs \ {t} : tab'[u] = tab[u]
      /\ tab'[t].sharingOff = tab[t].sharingOff /\ tab'[t].drawn = tab[t].drawn
      /\ tab'[t].mismatch <=> tab[t].mismatch \/ Other(t, a)
      /\ tab'[t].csrf = IF tab'[t].mismatch THEN Tokens!Blank ELSE a
      /\ tab'[t].page = IF tab[t].page = Tokens!NotYet THEN a.who ELSE tab[t].page
      /\ ~tab'[t].changed => (tab'[t].page = a.who /\ a.who # Tokens!Unknown) \/ tab[t].page = Tokens!NotYet
      /\ Shared(r) => tab'[t].gen = number[r].gen /\ tab'[t].seq = number[r].seq
      /\ ~Shared(r) => tab[t].sharingOff
      /\ messages' = messages \cup (IF Shared(r) /\ a.who # Tokens!Unknown THEN Tokens!Posts(r) ELSE {})
    BY KeepDoes
<1>2. open' = open /\ a # Tokens!Blank
    BY DEF Tokens!Keep
<1>3. Tokens!Posts(r) = {[to |-> u, token |-> a, gen |-> number[r].gen, seq |-> number[r].seq] : u \in open \ {t}}
    BY DEF Tokens!Posts
<1>4. a.who \in People \cup {Tokens!Unknown}
    BY <1>1 DEF TokenShape
<1>5. tab[t].drawn \in People \cup {Tokens!Unknown}
    BY <1>1 DEF RenewalsInv, TabsShape, TabShape
<1>6. Shared(r) =>
        /\ number[r].gen > 0
        /\ \A m \in messages : Before(m, r)
        /\ \A u \in Tabs : Before(tab[u], r)
    BY DEF NumbersInv, CounterIsAhead, RenewalsInv, SharersAreNumbered, Shared
<1>7. /\ \A m \in messages : m.gen \in Nat /\ m.seq \in Nat
      /\ \A u \in Tabs : tab[u].gen \in Nat /\ tab[u].seq \in Nat
      /\ number[r].gen \in Nat /\ number[r].seq \in Nat
    BY DEF RenewalsInv, TabsShape, PostShape, TabShape, NumberShape
<1> HIDE DEF t, a
<1>8. PageIsTheirs'
    <2>1. \A u \in Tabs \ {t} : tab'[u] = tab[u]
        BY <1>1
    <2>2. tab'[t].drawn # Tokens!Unknown /\ ~tab'[t].mismatch =>
            /\ tab'[t].page \in {tab'[t].drawn, Tokens!Unknown, Tokens!NotYet}
            /\ tab'[t].csrf.who \in {tab'[t].drawn, Tokens!Unknown}
        BY <1>1 DEF PageIsTheirs, Other
    <2>3. tab'[t].mismatch => tab'[t].csrf = Tokens!Blank
        BY <1>1
    <2> QED BY <1>1, <2>1, <2>2, <2>3 DEF PageIsTheirs
\* The tab that keeps the answer takes part when the answer is its own person's.
<1>9. Sound(t)' => /\ Shared(r) /\ tab'[t].csrf = a /\ tab'[t].page = a.who
                   /\ a.who \in People /\ a.who # Tokens!Unknown
                   /\ tab'[t].gen = number[r].gen /\ tab'[t].seq = number[r].seq
    BY <1>1, <1>4 DEF Sound
<1>10. \A u \in Tabs \ {t} : tab'[u] = tab[u] /\ (Sound(u)' <=> Sound(u)) /\ (Listens(u)' <=> Listens(u))
    BY <1>1, <1>2 DEF Sound, Listens
<1>11. \A m \in messages' : \/ m \in messages
                            \/ /\ Shared(r) /\ m.token = a /\ m.gen = number[r].gen /\ m.seq = number[r].seq
    BY <1>1, <1>3
<1>12. TabsAreNumbered'
    BY <1>6, <1>9, <1>10 DEF TabsAreNumbered
<1>13. OneTokenPerNumber'
    <2>1. \A m, k \in messages' : SameNumber(m, k) => m.token = k.token
        BY <1>6, <1>7, <1>11 DEF OneTokenPerNumber, SameNumber, Before
    <2>2. \A m \in messages', u \in Tabs : Sound(u)' /\ SameNumber(m, tab'[u]) => m.token = tab'[u].csrf
        BY <1>6, <1>7, <1>9, <1>10, <1>11 DEF OneTokenPerNumber, SameNumber, Before
    <2>3. \A v, u \in Tabs : Sound(v)' /\ Sound(u)' /\ SameNumber(tab'[v], tab'[u]) => tab'[v].csrf = tab'[u].csrf
        BY <1>6, <1>7, <1>9, <1>10 DEF OneTokenPerNumber, SameNumber, Before
    <2> QED BY <2>1, <2>2, <2>3 DEF OneTokenPerNumber, SameNumber
<1>14. NewsIsOnItsWay'
    \* A tab that listens and is not the one that keeps its answer is posted to.
    <2>1. ASSUME NEW v \in Tabs \ {t}, Listens(v)', Shared(r), a.who # Tokens!Unknown, a.who = tab'[v].page,
                 NEW x, x.gen = number[r].gen, x.seq = number[r].seq
          PROVE  \E k \in messages' : k.to = v /\ k.gen = x.gen /\ k.seq >= x.seq /\ k.token.who = tab'[v].page
        <3>1. v \in open
            BY <1>10, <2>1 DEF Listens, Sound
        <3>2. [to |-> v, token |-> a, gen |-> number[r].gen, seq |-> number[r].seq] \in messages'
            BY <1>1, <1>3, <2>1, <3>1
        <3> QED BY <1>7, <2>1, <3>2
    <2>2. ASSUME NEW v \in Tabs \ {t}, NEW x, Awaits(v, x)
          PROVE  \E k \in messages' : k.to = v /\ k.gen = x.gen /\ k.seq >= x.seq /\ k.token.who = tab'[v].page
        BY <1>1, <1>10, <2>2 DEF Awaits
    <2>3. ASSUME NEW v \in Tabs, NEW m \in messages', Listens(v)', Newer(m, tab'[v]), m.token.who = tab'[v].page
          PROVE  Awaits(v, m)'
        <3>1. v # t
            BY <1>6, <1>7, <1>9, <1>11, <2>3 DEF Listens, Newer, Before
        <3>2. CASE m \in messages
            BY <1>10, <2>2, <2>3, <3>1, <3>2 DEF NewsIsOnItsWay, Awaits
        <3>3. CASE m \notin messages
            <4>1. m \in Tokens!Posts(r) /\ Shared(r) /\ a.who # Tokens!Unknown
                BY <1>1, <2>3, <3>3
            <4> QED BY <1>3, <2>1, <2>3, <3>1, <4>1 DEF Awaits
        <3> QED BY <3>2, <3>3
    <2>4. ASSUME NEW v \in Tabs, NEW u \in Tabs, Listens(v)', Sound(u)', Newer(tab'[u], tab'[v]),
                 tab'[u].page = tab'[v].page
          PROVE  Awaits(v, tab[u])'
        <3>1. v # t
            BY <1>6, <1>7, <1>9, <1>10, <2>4 DEF Listens, Newer, Before
        <3>2. CASE u # t
            BY <1>10, <2>2, <2>4, <3>1, <3>2 DEF NewsIsOnItsWay, Awaits
        <3>3. CASE u = t
            BY <1>9, <2>1, <2>4, <3>1, <3>3 DEF Awaits
        <3> QED BY <3>2, <3>3
    <2> QED BY <2>3, <2>4 DEF NewsIsOnItsWay, Newer
<1> QED BY <1>8, <1>12, <1>13, <1>14

LEMMA DeliverKeepsSharing ==
    ASSUME Tokens!TabAssumption, TabInv, NEW m \in messages, Tokens!Deliver(m)
    PROVE  SharingInv' /\ PageIsTheirs'
<1> USE DEF TabInv, SharingInv
<1> DEFINE t == m.to
<1>1. /\ t \in Tabs /\ messages' = messages \ {m} /\ open' = open
      /\ \A u \in Tabs \ {t} : tab'[u] = tab[u]
    BY DeliverDoes
<1>2. /\ \A k \in messages : k.gen \in Nat /\ k.seq \in Nat
      /\ \A u \in Tabs : tab[u].gen \in Nat /\ tab[u].seq \in Nat
    BY DEF RenewalsInv, TabsShape, PostShape, TabShape
<1>3. CASE ~Tokens!Accepts(m, tab[t])
    <2>1. tab' = tab
        BY <1>3, DeliverDoes
    <2>2. PageIsTheirs' /\ TabsAreNumbered' /\ OneTokenPerNumber'
        BY <1>1, <2>1 DEF PageIsTheirs, TabsAreNumbered, OneTokenPerNumber, SameNumber, Sound
    <2>3. ASSUME NEW u \in Tabs, NEW x, x.seq \in Nat, Listens(u), Newer(x, tab[u]), Awaits(u, x)
          PROVE  \E k \in messages' : k.to = u /\ k.gen = x.gen /\ k.seq >= x.seq /\ k.token.who = tab[u].page
        <3>1. PICK k \in messages : k.to = u /\ k.gen = x.gen /\ k.seq >= x.seq /\ k.token.who = tab[u].page
            BY <2>3 DEF Awaits
        <3>2. k # m
            BY <1>2, <1>3, <2>3, <3>1 DEF Tokens!Accepts, Listens, Sound, Newer
        <3> QED BY <1>1, <3>1, <3>2
    <2>4. NewsIsOnItsWay'
        <3>1. ASSUME NEW u \in Tabs, NEW k \in messages', Listens(u), Newer(k, tab[u]), k.token.who = tab[u].page
              PROVE  Awaits(u, k)'
            BY <1>1, <1>2, <2>1, <2>3, <3>1 DEF NewsIsOnItsWay, Awaits
        <3>2. ASSUME NEW u \in Tabs, NEW v \in Tabs, Listens(u), Sound(v), Newer(tab[v], tab[u]),
                     tab[v].page = tab[u].page
              PROVE  Awaits(u, tab[v])'
            BY <1>2, <2>1, <2>3, <3>2 DEF NewsIsOnItsWay, Awaits
        <3>3. \A u \in Tabs : (Sound(u)' <=> Sound(u)) /\ (Listens(u)' <=> Listens(u))
            BY <1>1, <2>1 DEF Sound, Listens
        <3> QED BY <2>1, <3>1, <3>2, <3>3 DEF NewsIsOnItsWay, Newer
    <2> QED BY <2>2, <2>4
<1>4. CASE Tokens!Accepts(m, tab[t])
    <2>1. /\ tab'[t].csrf = m.token /\ tab'[t].seq = m.seq /\ tab[t].gen = m.gen /\ tab'[t].gen = m.gen
          /\ tab'[t].drawn = tab[t].drawn /\ tab'[t].page = tab[t].page
          /\ tab'[t].mismatch = tab[t].mismatch /\ m.token.who = tab[t].page /\ ~tab[t].mismatch
          /\ Newer(m, tab[t]) /\ (Sound(t)' <=> Sound(t)) /\ (Listens(t)' <=> Listens(t))
        BY <1>1, <1>4, DeliverDoes DEF Sound, Listens
    <2>2. m.gen > 0 /\ m.token.who \in People
        BY DEF NumbersInv, PostsAreInOrder
    <2>3. PageIsTheirs'
        <3>1. tab[t].drawn # Tokens!Unknown => m.token.who = tab[t].drawn
            BY <1>1, <2>1, <2>2 DEF PageIsTheirs, Tokens!TabAssumption
        <3> QED BY <1>1, <2>1, <3>1 DEF PageIsTheirs
    <2>4. \A u \in Tabs : /\ (Sound(u)' <=> Sound(u)) /\ (Listens(u)' <=> Listens(u))
                          /\ tab'[u].page = tab[u].page /\ tab'[u].gen = tab[u].gen
                          /\ IF u = t THEN SameNumber(tab'[u], m) /\ tab'[u].csrf = m.token
                                      ELSE SameNumber(tab'[u], tab[u]) /\ tab'[u].csrf = tab[u].csrf
        BY <1>1, <2>1 DEF Sound, Listens, SameNumber
    <2> HIDE DEF t
    <2>5. TabsAreNumbered'
        BY <1>1, <2>1, <2>2, <2>4 DEF TabsAreNumbered
    <2>6. OneTokenPerNumber'
        <3>1. \A k \in messages', u \in Tabs : Sound(u)' /\ SameNumber(k, tab'[u]) => k.token = tab'[u].csrf
            BY <1>1, <2>4 DEF OneTokenPerNumber, SameNumber
        <3>2. \A v, u \in Tabs : Sound(v)' /\ Sound(u)' /\ SameNumber(tab'[v], tab'[u]) => tab'[v].csrf = tab'[u].csrf
            BY <2>4 DEF OneTokenPerNumber, SameNumber
        <3> QED BY <1>1, <3>1, <3>2 DEF OneTokenPerNumber, SameNumber
    <2>7. NewsIsOnItsWay'
        \* A post that a tab still awaits is not the one just delivered.
        <3>1. ASSUME NEW u \in Tabs, NEW x, x.seq \in Nat, Newer(x, tab'[u]), Awaits(u, x)
              PROVE  \E k \in messages' : k.to = u /\ k.gen = x.gen /\ k.seq >= x.seq /\ k.token.who = tab'[u].page
            <4>1. PICK k \in messages : k.to = u /\ k.gen = x.gen /\ k.seq >= x.seq /\ k.token.who = tab[u].page
                BY <3>1 DEF Awaits
            <4>2. k # m
                BY <1>2, <2>1, <3>1, <4>1 DEF Newer, t
            <4> QED BY <1>1, <2>4, <4>1, <4>2
        \* What is newer than a tab's number now was newer than it before.
        <3>2. ASSUME NEW u \in Tabs, NEW x, x.seq \in Nat, Newer(x, tab'[u]) PROVE Newer(x, tab[u])
            <4>1. CASE u = t
                <5>1. tab'[u].gen = tab[u].gen /\ tab'[u].seq = m.seq /\ m.seq > tab[u].seq
                    BY <2>1, <4>1 DEF Newer
                <5>2. m.seq \in Nat /\ tab[u].seq \in Nat
                    BY <1>2
                <5> QED BY <3>2, <5>1, <5>2 DEF Newer
            <4>2. CASE u # t
                BY <2>4, <3>2, <4>2 DEF Newer, SameNumber
            <4> QED BY <4>1, <4>2
        <3>3. ASSUME NEW u \in Tabs, NEW k \in messages', Listens(u)', Newer(k, tab'[u]), k.token.who = tab'[u].page
              PROVE  Awaits(u, k)'
            <4>1. Awaits(u, k) /\ k.seq \in Nat
                BY <1>1, <1>2, <2>4, <3>2, <3>3 DEF NewsIsOnItsWay
            <4> QED BY <3>1, <3>3, <4>1 DEF Awaits
        <3>4. ASSUME NEW u \in Tabs, NEW v \in Tabs, Listens(u)', Sound(v)', Newer(tab'[v], tab'[u]),
                     tab'[v].page = tab'[u].page
              PROVE  Awaits(u, tab[v])'
            <4>1. tab'[v].seq \in Nat
                BY <1>2, <2>4 DEF SameNumber
            <4>2. Newer(tab'[v], tab[u])
                BY <3>2, <3>4, <4>1
            <4>3. Awaits(u, tab'[v])
                <5>1. CASE v = t
                    <6>1. Newer(m, tab[u]) /\ m.token.who = tab[u].page
                        BY <2>1, <2>4, <3>4, <4>2, <5>1 DEF Newer, SameNumber
                    <6>2. Awaits(u, m)
                        BY <2>4, <3>4, <6>1 DEF NewsIsOnItsWay
                    <6> QED BY <2>4, <5>1, <6>2 DEF Awaits, SameNumber
                <5>2. CASE v # t
                    BY <2>4, <3>4, <4>2, <5>2 DEF NewsIsOnItsWay, Awaits, SameNumber, Newer
                <5> QED BY <5>1, <5>2
            <4> QED BY <3>1, <3>4, <4>1, <4>3 DEF Awaits
        <3> QED BY <3>3, <3>4 DEF NewsIsOnItsWay, Newer
    <2> QED BY <2>3, <2>5, <2>6, <2>7
<1> QED BY <1>3, <1>4

-----------------------------------------------------------------------------
LEMMA TabsStart ==
    ASSUME Tokens!TabAssumption, Tokens!Init PROVE TabInv
<1> USE TokenRecords DEF Tokens!Init
<1>1. RenewalsInv
    BY DEF RenewalsInv, TabsShape, LockIsExclusive, SharersAreNumbered, Shared, Tokens!Inside, Tokens!TabAssumption
<1>2. NumbersInv
    BY DEF NumbersInv, CounterIsAhead, PostsAreInOrder, AnswerIsNewest, Shared, Behind
<1>3. SharingInv /\ PageIsTheirs
    BY DEF SharingInv, TabsAreNumbered, OneTokenPerNumber, NewsIsOnItsWay, Sound, Listens, PageIsTheirs
<1> QED BY <1>1, <1>2, <1>3 DEF TabInv

LEMMA TabsGoOn ==
    ASSUME Tokens!TabAssumption, TabInv, [Tokens!TabNext]_(Tokens!vars) PROVE TabInv'
<1> USE DEF TabInv
<1>1. CASE UNCHANGED Tokens!vars
    BY <1>1 DEF Tokens!vars, RenewalsInv, TabsShape, LockIsExclusive, SharersAreNumbered, Shared, Tokens!Inside,
                NumbersInv, CounterIsAhead, PostsAreInOrder, AnswerIsNewest, Behind, Before, Newer, SharingInv,
                TabsAreNumbered, OneTokenPerNumber, NewsIsOnItsWay, Sound, Listens, SameNumber, Awaits, PageIsTheirs
<1>2. CASE Rests
    BY <1>2, RestsKeepRenewals, RestsAreQuiet, NumbersStay, QuietKeepsSharing DEF NumbersRest
<1>3. ASSUME NEW r \in Renewals, Tokens!TakeNumber(r) PROVE TabInv'
    BY <1>3, RenewalsGoOn, NumbersAreTaken, QuietKeepsSharing
<1>4. ASSUME NEW r \in Renewals, Tokens!Serve(r) PROVE TabInv'
    BY <1>4, RenewalsGoOn, NumbersAreServed, QuietKeepsSharing
<1>5. ASSUME NEW r \in Renewals, Tokens!Keep(r) PROVE TabInv'
    BY <1>5, RenewalsGoOn, NumbersAreKept, KeepKeepsSharing
<1>6. ASSUME NEW m \in messages, Tokens!Deliver(m) PROVE TabInv'
    BY <1>6, RenewalsGoOn, NumbersAreDelivered, DeliverKeepsSharing
<1> QED BY <1>1, <1>2, <1>3, <1>4, <1>5, <1>6, TabSteps

\* A tab's token goes up, unless it stopped sharing or lets go of it.
LEMMA TokensGoUp ==
    ASSUME Tokens!TabAssumption, TabInv, [Tokens!TabNext]_(Tokens!vars) PROVE [Tokens!NeverBack]_(Tokens!vars)
<1> USE DEF TabInv
<1> SUFFICES ASSUME NEW t \in Tabs, ~tab[t].sharingOff, tab'[t].csrf # Tokens!Blank, Tokens!TabNext
             PROVE  tab'[t].csrf.n >= tab[t].csrf.n
    BY DEF Tokens!NeverBack, RenewalsInv, TabsShape
<1>1. tab[t].csrf.n \in Nat
    BY DEF RenewalsInv, TabsShape, TabShape, TokenShape
<1>2. CASE Quiet
    BY <1>1, <1>2, TokenRecords DEF Quiet, Afresh, Stays
<1>3. ASSUME NEW r \in Renewals, Tokens!Keep(r) PROVE tab'[t].csrf.n >= tab[t].csrf.n
    <2>1. CASE t # TabOf[r]
        BY <1>1, <1>3, <2>1, KeepDoes
    <2>2. CASE t = TabOf[r]
        <3>1. /\ tab'[t].csrf = IF tab'[t].mismatch THEN Tokens!Blank ELSE answer[r]
              /\ ~Shared(r) => tab[t].sharingOff
              /\ answer[r].n \in 1 .. issued
            BY <1>3, <2>2, KeepDoes
        <3>2. answer[r] # Tokens!Blank
            BY <1>3 DEF Tokens!Keep
        <3>3. tab[t].csrf.n < answer[r].n
            BY <3>1, <3>2 DEF NumbersInv, AnswerIsNewest
        <3> QED BY <1>1, <3>1, <3>3
    <2> QED BY <2>1, <2>2
<1>4. ASSUME NEW m \in messages, Tokens!Deliver(m) PROVE tab'[t].csrf.n >= tab[t].csrf.n
    <2>1. tab'[t] = tab[t] \/ (tab'[t].csrf = m.token /\ Newer(m, tab[t]) /\ t = m.to)
        BY <1>4, DeliverDoes
    <2>2. Newer(m, tab[t]) => tab[t].csrf.n < m.token.n /\ m.token.n \in Nat
        BY DEF NumbersInv, PostsAreInOrder, RenewalsInv, TabsShape
    <2> QED BY <1>1, <2>1, <2>2
<1> QED BY <1>2, <1>3, <1>4, TabSteps, RestsAreQuiet, NumbersAreTaken, NumbersAreServed DEF NumbersRest

(* The renewals, numbers, tokens and identities of any number of tabs of one  *)
(* browser (app.js), in whatever order their posts arrive.                    *)
THEOREM TabInvariant ==
    ASSUME Tokens!TabAssumption PROVE Tokens!TabSpec => []TabInv
<1>1. Tokens!Init => TabInv
    BY TabsStart
<1>2. TabInv /\ [Tokens!TabNext]_(Tokens!vars) => TabInv'
    BY TabsGoOn
<1> QED BY <1>1, <1>2, PTL DEF Tokens!TabSpec

(* Tabs that share never go back to an older token, and once nothing is on its *)
(* way, those of one person and one counter hold the same (acceptSharedToken). *)
THEOREM TheNewestTokenWins ==
    ASSUME Tokens!TabAssumption PROVE Tokens!TabSpec => Tokens!NewestTokenWins
<1>1. ASSUME TabInv PROVE Tokens!TabsAgree
    <2> SUFFICES ASSUME messages = {}, \A r \in Renewals : tabPc[r] \in {"new", "done"},
                        NEW t \in Tabs, NEW u \in Tabs,
                        t \in open, u \in open, tab[t].connected, tab[u].connected,
                        ~tab[t].sharingOff, ~tab[u].sharingOff, ~tab[t].changed, ~tab[u].changed,
                        ~tab[t].mismatch, ~tab[u].mismatch, tab[t].page # Tokens!Unknown,
                        tab[u].page # Tokens!Unknown, tab[t].page = tab[u].page, tab[t].gen = tab[u].gen
                 PROVE  tab[t].csrf = tab[u].csrf
        BY DEF Tokens!TabsAgree
    <2>1. \A v \in Tabs : ~tab[v].renewing
        BY <1>1 DEF TabInv, RenewalsInv, LockIsExclusive, Tokens!Inside
    <2>2. Listens(t) /\ Listens(u) /\ Sound(t) /\ Sound(u)
        BY <2>1 DEF Listens, Sound
    <2>3. ~Newer(tab[t], tab[u]) /\ ~Newer(tab[u], tab[t])
        BY <1>1, <2>2 DEF TabInv, SharingInv, NewsIsOnItsWay, Awaits
    <2>4. tab[t].seq = tab[u].seq
        <3>1. tab[t].seq \in Nat /\ tab[u].seq \in Nat
            BY <1>1, TabFields DEF TabInv, RenewalsInv, TabsShape
        <3> QED BY <2>3, <3>1 DEF Newer
    <2> QED BY <1>1, <2>2, <2>4 DEF TabInv, SharingInv, OneTokenPerNumber, SameNumber
<1>2. TabInv /\ [Tokens!TabNext]_(Tokens!vars) => [Tokens!NeverBack]_(Tokens!vars)
    BY TokensGoUp
<1> QED BY <1>1, <1>2, TabInvariant, PTL DEF Tokens!TabSpec, Tokens!NewestTokenWins

(* A page drawn for one person never holds a token issued to another           *)
(* (keepRenewedToken, acceptSharedToken).                                     *)
THEOREM NoTokenIsAnothers ==
    ASSUME Tokens!TabAssumption PROVE Tokens!TabSpec => []Tokens!NoTokenOfAnother
<1>1. TabInv => Tokens!NoTokenOfAnother
    BY DEF TabInv, RenewalsInv, TabsShape, PageIsTheirs, Tokens!NoTokenOfAnother
<1> QED BY <1>1, TabInvariant, PTL
-----------------------------------------------------------------------------
(* From the question to the run (Composer), with its own constants and variables. *)

CONSTANTS PageQuestions, HighStakes, FollowUps, Bare, MaxDrops, MaxQuotes, MaxRuns, MaxTasks, MaxTicks
VARIABLES form, askView, generation, submitting, askCreating, inFlight, askRunning, estimate, priced,
          required, ticked, retry, askRestoring, tasks, quotes, active, started, ticks

Compose == INSTANCE Composer WITH
    Questions <- PageQuestions,
    view <- askView, creating <- askCreating, running <- askRunning, restoring <- askRestoring

Forms == PageQuestions \cup {Compose!NoForm}
QuoteShape == [content : Forms, band : Compose!Bands, used : BOOLEAN]
TaskShape ==
    [at : {"estimate", "warnings", "create", "again"}, gen : Nat, content : Forms,
     from : {"start", "gate"}, auto : BOOLEAN, band : Compose!Bands \cup {"none"}, quote : Nat]

AskShape ==
    /\ form \in Forms /\ generation \in Nat /\ estimate \in Nat /\ priced \in Forms
    /\ submitting \in BOOLEAN /\ askCreating \in BOOLEAN /\ inFlight \in BOOLEAN
    /\ ticked \in BOOLEAN /\ ticks \in Nat
    /\ tasks \subseteq TaskShape /\ \A t \in tasks : t.gen <= generation
    /\ quotes \in Seq(QuoteShape) /\ started \in Seq(Forms)

\* A call of proceedWithRun; one that has sent its create; one whose question stands.
Proceeds(t) == t.at \in {"warnings", "create", "again"}
HasSent(t) == t.at \in {"create", "again"}
Stands(t) == t.gen = generation

\* Each control is busy for a call of the question as it stands, which will give it back.
FlagsAreHeld ==
    /\ submitting => \E t \in tasks : t.from = "start" /\ Stands(t)
    /\ askCreating <=> \E t \in tasks : Proceeds(t) /\ Stands(t)
    /\ inFlight <=> \E t \in tasks : HasSent(t)

\* One call proceeds at a time, and a question is not dropped once its create was sent.
OneProceeds ==
    /\ \A t \in tasks : HasSent(t) => Stands(t)
    /\ \A t, u \in tasks : Proceeds(t) /\ Stands(t) /\ Proceeds(u) /\ Stands(u) => t = u
    /\ \A t \in tasks : t.at = "again" => ~t.auto

\* The server priced this question, and did not block it.
IsPriced(content) ==
    \E k \in DOMAIN quotes : quotes[k].content = content /\ quotes[k].band # "block"

\* What proceeds, and what was started, was priced as it stands.
ProceedsAsPriced ==
    /\ estimate # Compose!NoQuote => estimate \in DOMAIN quotes /\ quotes[estimate].content = priced
    /\ \A t \in tasks : t.at \in {"warnings", "create"} => IsPriced(t.content)
    /\ \A i \in DOMAIN started : IsPriced(started[i])

RiskyRuns == {i \in DOMAIN started : started[i] \in HighStakes}
RiskyIsSent == \E t \in tasks : t.at = "create" /\ t.content \in HighStakes

\* A tick is for one risky run: one that was started, one whose create was sent, or
\* the one that is to come.
TicksAreForOne ==
    Cardinality(RiskyRuns) + (IF RiskyIsSent THEN 1 ELSE 0) + (IF ticked THEN 1 ELSE 0) <= ticks

AskInv == AskShape /\ FlagsAreHeld /\ OneProceeds /\ ProceedsAsPriced /\ TicksAreForOne

-----------------------------------------------------------------------------
\* Sets are counted alike there and here.
LEMMA AskCardinality == \A S : Compose!Cardinality(S) = Cardinality(S)
<1>1. ASSUME NEW S PROVE Compose!Cardinality(S) = Cardinality(S)
    BY DEF Compose!Cardinality, Cardinality
<1> QED BY <1>1

\* There are finitely many risky runs.
LEMMA RiskyRunsAreCounted ==
    ASSUME started \in Seq(Forms) PROVE IsFiniteSet(RiskyRuns) /\ Cardinality(RiskyRuns) \in Nat
<1>1. PICK n \in Nat : DOMAIN started = 1 .. n
    OBVIOUS
<1>2. IsFiniteSet(1 .. n) /\ RiskyRuns \in SUBSET (1 .. n)
    BY <1>1, FS_Interval DEF RiskyRuns
<1> QED BY <1>2, FS_Subset, FS_CardinalityType

\* As long as no run is started, a tick is only given away for a create.
LEMMA TicksStay ==
    ASSUME AskShape, TicksAreForOne, UNCHANGED <<started, ticks>>, ticked' \in BOOLEAN,
           ticked' => ticked, RiskyIsSent' => RiskyIsSent \/ (ticked /\ ~ticked')
    PROVE  TicksAreForOne'
<1>1. Cardinality(RiskyRuns) \in Nat /\ Cardinality(RiskyRuns)' = Cardinality(RiskyRuns) /\ ticks \in Nat
    BY RiskyRunsAreCounted DEF AskShape, RiskyRuns
<1>2. PICK n \in Nat : n = Cardinality(RiskyRuns) /\ n = Cardinality(RiskyRuns)'
    BY <1>1
<1> QED BY <1>1, <1>2 DEF TicksAreForOne

\* What was priced stays priced.
LEMMA PricedStays ==
    ASSUME DOMAIN quotes \subseteq DOMAIN quotes',
           \A k \in DOMAIN quotes : quotes'[k].content = quotes[k].content /\ quotes'[k].band = quotes[k].band
    PROVE  \A c : IsPriced(c) => IsPriced(c)'
BY DEF IsPriced

-----------------------------------------------------------------------------
(* What becomes of the flags.                                                 *)

Flags == FlagsAreHeld /\ OneProceeds

\* A call of startRun ends without a run.
LEMMA AsksNoMore ==
    ASSUME Flags, NEW t \in tasks, t.at = "estimate", tasks' = tasks \ {t}, Compose!StartEnds(t),
           UNCHANGED <<generation, askCreating, inFlight>>
    PROVE  Flags'
BY DEF Flags, FlagsAreHeld, OneProceeds, Proceeds, HasSent, Stands, Compose!StartEnds, Compose!Current

\* A call of proceedWithRun ends.
LEMMA ProceedsNoMore ==
    ASSUME Flags, NEW t \in tasks, Proceeds(t), tasks' = tasks \ {t}, Compose!ProceedEnds(t),
           UNCHANGED generation
    PROVE  Flags'
<1> USE DEF Stands, Proceeds, HasSent
<1>1. submitting' => \E u \in tasks' : u.from = "start" /\ u.gen = generation
    BY DEF Flags, FlagsAreHeld, Compose!ProceedEnds, Compose!StartEnds, Compose!Current
<1>2. CASE Stands(t)
    <2>1. ~askCreating' /\ ~inFlight'
        BY <1>2 DEF Compose!ProceedEnds, Compose!Current
    <2>2. \A u \in tasks' : ~(Proceeds(u) /\ Stands(u)) /\ ~HasSent(u)
        BY <1>2 DEF Flags, OneProceeds
    <2> QED BY <1>1, <2>1, <2>2 DEF Flags, FlagsAreHeld, OneProceeds
<1>3. CASE ~Stands(t)
    <2>1. UNCHANGED <<askCreating, inFlight>>
        BY <1>3 DEF Compose!ProceedEnds, Compose!Current
    <2>2. ~HasSent(t)
        BY <1>3 DEF Flags, OneProceeds
    <2> QED BY <1>1, <1>3, <2>1, <2>2 DEF Flags, FlagsAreHeld, OneProceeds
<1> QED BY <1>2, <1>3

\* A call begins to proceed, in its own right or for one that was priced.
LEMMA BeginsToProceed ==
    ASSUME Flags, ~askCreating, askCreating', NEW n, n.at = "warnings", n.gen = generation,
           NEW t, t \notin tasks \/ t.at = "estimate", tasks' = (tasks \ {t}) \cup {n},
           t \in tasks => n.from = "start", UNCHANGED <<generation, submitting, inFlight>>
    PROVE  Flags'
BY DEF Flags, FlagsAreHeld, OneProceeds, Proceeds, HasSent, Stands

\* A call that proceeds takes its next step.
LEMMA GoesOn ==
    ASSUME Flags, NEW t \in tasks, Proceeds(t), Stands(t), NEW n, HasSent(n), n.gen = t.gen, n.from = t.from,
           n.at = "again" => ~n.auto,
           tasks' = (tasks \ {t}) \cup {n}, inFlight', UNCHANGED <<generation, submitting, askCreating>>
    PROVE  Flags'
BY DEF Flags, FlagsAreHeld, OneProceeds, Proceeds, HasSent, Stands

\* A question can be dropped while no create is under way.
LEMMA Drops ==
    ASSUME AskShape, Flags, ~inFlight \/ ~askCreating, Compose!Drop, UNCHANGED tasks
    PROVE  Flags'
<1>1. \A t \in tasks : ~HasSent(t)
    BY DEF Flags, FlagsAreHeld, OneProceeds, Proceeds, HasSent
<1>2. ~inFlight /\ ~inFlight' /\ ~askCreating' /\ ~submitting' /\ generation' = generation + 1
    BY <1>1 DEF Flags, FlagsAreHeld, Compose!Drop, Compose!SubmittingAfterDrop
<1>3. \A t \in tasks : t.gen # generation'
    BY <1>2 DEF AskShape
<1> QED BY <1>1, <1>2, <1>3 DEF Flags, FlagsAreHeld, OneProceeds, Stands, HasSent, Proceeds
-----------------------------------------------------------------------------
(* What the composer and its view do.                                         *)

askData == <<estimate, priced, tasks, quotes, started>>
askFlags == <<generation, submitting, askCreating, inFlight>>

\* A question, with its context or without.
LEMMA QuestionsStay ==
    ASSUME Compose!ComposerAssumption, AskShape PROVE Compose!BareForm \in Forms
BY DEF Compose!ComposerAssumption, AskShape, Forms, Compose!BareForm

\* Writing, looking around, and what the server and the person say of the warning.
LEMMA NothingIsAsked ==
    ASSUME AskInv, UNCHANGED <<askData, askFlags>>, form' \in Forms, ticked' \in BOOLEAN,
           \/ ticks' = ticks /\ (ticked' => ticked)
           \/ ticks' = ticks + 1 /\ ~ticked
    PROVE  AskInv'
<1> USE DEF AskInv, askData, askFlags
<1>1. ticks \in Nat /\ ticks' \in Nat /\ ticked \in BOOLEAN
    BY DEF AskShape
<1>2. AskShape'
    BY <1>1 DEF AskShape
<1>3. FlagsAreHeld' /\ OneProceeds'
    BY DEF FlagsAreHeld, OneProceeds, Stands
<1>4. ProceedsAsPriced'
    BY DEF ProceedsAsPriced, IsPriced
<1>5. TicksAreForOne'
    <2>1. Cardinality(RiskyRuns) \in Nat
        BY RiskyRunsAreCounted DEF AskShape
    <2>2. Cardinality(RiskyRuns)' = Cardinality(RiskyRuns) /\ (RiskyIsSent' <=> RiskyIsSent)
        BY DEF RiskyRuns, RiskyIsSent
    <2>3. PICK n \in Nat : n = Cardinality(RiskyRuns) /\ n = Cardinality(RiskyRuns)'
        BY <2>1, <2>2
    <2> QED BY <1>1, <2>2, <2>3 DEF TicksAreForOne
<1> QED BY <1>2, <1>3, <1>4, <1>5

\* The question is dropped, with its price.
LEMMA DropKeeps ==
    ASSUME AskInv, ~inFlight \/ ~askCreating, Compose!Drop, form' \in Forms,
           UNCHANGED <<tasks, quotes, started, ticked, ticks>>
    PROVE  AskInv'
<1>1. Flags'
    BY Drops DEF AskInv, Flags
<1>2. generation' = generation + 1 /\ estimate' = 0 /\ priced' = Compose!NoForm /\ submitting' = FALSE
      /\ askCreating' \in BOOLEAN /\ inFlight' = inFlight
    BY DEF Compose!Drop, Compose!NoQuote, Compose!SubmittingAfterDrop
<1>3. AskShape'
    <2>1. \A t \in tasks : t.gen <= generation'
        BY <1>2 DEF AskInv, AskShape, TaskShape
    <2>2. generation' \in Nat /\ estimate' \in Nat
        BY <1>2 DEF AskInv, AskShape
    <2>5. submitting' \in BOOLEAN
        BY <1>2
    <2>4. priced' \in Forms
        BY <1>2 DEF Forms
    <2>3. inFlight' \in BOOLEAN /\ ticked' \in BOOLEAN /\ ticks' \in Nat
        BY <1>2 DEF AskInv, AskShape
    <2> QED BY <1>2, <2>1, <2>2, <2>3, <2>4, <2>5 DEF AskInv, AskShape
<1>4. ProceedsAsPriced'
    BY <1>2 DEF AskInv, ProceedsAsPriced, IsPriced, Compose!NoQuote
<1>5. TicksAreForOne'
    <2>1. RiskyIsSent' <=> RiskyIsSent
        BY DEF RiskyIsSent
    <2> QED BY <2>1, TicksStay DEF AskInv, AskShape
<1> QED BY <1>1, <1>3, <1>4, <1>5 DEF AskInv, Flags

-----------------------------------------------------------------------------
(* What the calls do.                                                         *)

\* A call whose end changes nothing but the flags, and what is shown.
LEMMA CallEnds ==
    ASSUME AskInv, NEW t \in tasks, tasks' = tasks \ {t}, Flags',
           submitting' \in BOOLEAN, askCreating' \in BOOLEAN, inFlight' \in BOOLEAN,
           UNCHANGED <<form, generation, ticked, ticks, quotes, started>>,
           \/ UNCHANGED <<estimate, priced>>
           \/ estimate' = Compose!NoQuote /\ priced' \in Forms
    PROVE  AskInv'
<1>1. AskShape'
    BY DEF AskInv, AskShape, Compose!NoQuote
<1>2. ProceedsAsPriced'
    BY DEF AskInv, ProceedsAsPriced, IsPriced
<1>3. TicksAreForOne'
    <2>1. RiskyIsSent' => RiskyIsSent
        BY DEF RiskyIsSent
    <2> QED BY <2>1, TicksStay DEF AskInv, AskShape
<1> QED BY <1>1, <1>2, <1>3 DEF AskInv, Flags

\* A call that begins, or goes on, with what it knows.
LEMMA CallGoesOn ==
    ASSUME AskInv, NEW n \in TaskShape, n.gen <= generation, NEW gone \in SUBSET tasks,
           tasks' = (tasks \ gone) \cup {n}, Flags',
           n.at \in {"warnings", "create"} => IsPriced(n.content),
           n.at = "create" /\ n.content \in HighStakes => ticked /\ ~ticked',
           ticked' \in BOOLEAN, ticked' => ticked,
           submitting' \in BOOLEAN, askCreating' \in BOOLEAN, inFlight' \in BOOLEAN,
           UNCHANGED <<form, generation, ticks, quotes, started>>,
           \/ UNCHANGED <<estimate, priced>>
           \/ estimate' = Compose!NoQuote /\ priced' \in Forms
    PROVE  AskInv'
<1>1. AskShape'
    BY DEF AskInv, AskShape, Compose!NoQuote
<1>2. ProceedsAsPriced'
    BY DEF AskInv, ProceedsAsPriced, IsPriced
<1>3. TicksAreForOne'
    <2>1. RiskyIsSent' => RiskyIsSent \/ (ticked /\ ~ticked')
        BY DEF RiskyIsSent
    <2> QED BY <2>1, TicksStay DEF AskInv, AskShape
<1> QED BY <1>1, <1>2, <1>3 DEF AskInv, Flags

\* "See the estimate" or "Run now".
LEMMA Starts ==
    ASSUME AskInv, NEW auto \in BOOLEAN, Compose!StartRun(auto) PROVE AskInv'
<1> DEFINE n == Compose!Call("estimate", form, "start", auto, "none")
<1>1. /\ n \in TaskShape /\ n.gen = generation /\ n.at = "estimate" /\ n.from = "start"
      /\ generation \in Nat
    BY DEF AskInv, AskShape, TaskShape, Compose!Call, Compose!NoQuote
<1>2. /\ tasks' = tasks \cup {n} /\ submitting' = TRUE
      /\ UNCHANGED <<form, generation, askCreating, inFlight, estimate, priced, ticked, ticks, quotes, started>>
    BY DEF Compose!StartRun, Compose!safety, Compose!server
<1> HIDE DEF n
<1>3. Flags'
    BY <1>1, <1>2 DEF AskInv, Flags, FlagsAreHeld, OneProceeds, Proceeds, HasSent, Stands
<1>4. tasks' = (tasks \ {}) \cup {n} /\ {} \in SUBSET tasks
    BY <1>2
<1>5. askCreating' \in BOOLEAN /\ inFlight' \in BOOLEAN /\ ticked' \in BOOLEAN /\ (ticked' => ticked)
    BY <1>2 DEF AskInv, AskShape
<1>6. n.gen <= generation /\ submitting' \in BOOLEAN
    BY <1>1, <1>2
<1> QED BY ONLY AskInv, <1>1, <1>2, <1>3, <1>4, <1>5, <1>6, CallGoesOn

\* "Confirm & run": what proceeds is what the current estimate priced.
LEMMA Confirms == ASSUME AskInv, Compose!Confirm PROVE AskInv'
<1> DEFINE band == quotes[estimate].band
           n == Compose!Call("warnings", priced, "gate", FALSE, band)
<1>1. /\ estimate \in DOMAIN quotes /\ quotes[estimate].content = priced /\ band \in Compose!Bands
      /\ band # "block" /\ ~askCreating /\ IsPriced(priced)
    <2>1. estimate # Compose!NoQuote /\ ~askCreating /\ band # "block"
        BY DEF Compose!Confirm, Compose!MayProceed
    <2>2. estimate \in DOMAIN quotes /\ quotes[estimate].content = priced
        BY <2>1 DEF AskInv, ProceedsAsPriced
    <2>3. quotes[estimate] \in QuoteShape
        BY <2>2 DEF AskInv, AskShape
    <2> QED BY <2>1, <2>2, <2>3 DEF QuoteShape, IsPriced
<1>2. /\ n \in TaskShape /\ n.gen = generation /\ n.at = "warnings" /\ n.content = priced
      /\ generation \in Nat
    BY <1>1 DEF AskInv, AskShape, TaskShape, Compose!Call, Compose!NoQuote
<1>3. /\ tasks' = tasks \cup {n} /\ askCreating' = TRUE
      /\ UNCHANGED <<form, generation, submitting, inFlight, estimate, priced, ticked, ticks, quotes, started>>
    BY DEF Compose!Confirm, Compose!safety, Compose!server
<1> HIDE DEF n, band
<1>4. Flags'
    BY <1>1, <1>2, <1>3 DEF AskInv, Flags, FlagsAreHeld, OneProceeds, Proceeds, HasSent, Stands
<1>5. tasks' = (tasks \ {}) \cup {n} /\ {} \in SUBSET tasks
    BY <1>3
<1>6. submitting' \in BOOLEAN /\ inFlight' \in BOOLEAN /\ ticked' \in BOOLEAN /\ (ticked' => ticked)
    BY <1>3 DEF AskInv, AskShape
<1>7. n.gen <= generation /\ askCreating' \in BOOLEAN /\ (n.at \in {"warnings", "create"} => IsPriced(n.content))
    BY <1>1, <1>2, <1>3
<1> QED BY ONLY AskInv, <1>2, <1>3, <1>4, <1>5, <1>6, <1>7, CallGoesOn

\* The ends of calls set flags to flags.
LEMMA EndsAreFlags ==
    ASSUME AskShape, NEW t
    PROVE  /\ Compose!StartEnds(t) => submitting' \in BOOLEAN
           /\ Compose!ProceedEnds(t) => submitting' \in BOOLEAN /\ askCreating' \in BOOLEAN /\ inFlight' \in BOOLEAN
BY DEF AskShape, Compose!StartEnds, Compose!ProceedEnds

\* An estimate came to nothing.
LEMMA VoidEstimates ==
    ASSUME AskInv, NEW t \in tasks, Compose!EstimateIsVoid(t) PROVE AskInv'
<1>1. /\ tasks' = tasks \ {t} /\ t.at \in {"estimate", "again"}
      /\ IF t.at = "again" THEN Compose!ProceedEnds(t)
                           ELSE Compose!StartEnds(t) /\ UNCHANGED <<askCreating, inFlight>>
      /\ UNCHANGED <<form, generation, estimate, priced, ticked, ticks, quotes, started>>
    BY DEF Compose!EstimateIsVoid, Compose!Without, Compose!safety, Compose!server
<1>2. Flags'
    BY <1>1, AsksNoMore, ProceedsNoMore DEF AskInv, Flags, Proceeds
<1>3. submitting' \in BOOLEAN /\ askCreating' \in BOOLEAN /\ inFlight' \in BOOLEAN
    BY <1>1, EndsAreFlags DEF AskInv, AskShape
<1> QED BY <1>1, <1>2, <1>3, CallEnds

\* The run is held for a tick, or its warnings or its create came to nothing.
LEMMA ProceedingEnds ==
    ASSUME AskInv, NEW t \in tasks, Compose!Hold(t) \/ Compose!ProceedIsVoid(t) \/ Compose!CreateFails(t) PROVE AskInv'
<1>1. /\ tasks' = tasks \ {t} /\ t.at \in {"warnings", "create"} /\ Compose!ProceedEnds(t)
      /\ UNCHANGED <<form, generation, ticked, ticks, quotes, started>>
      /\ \/ UNCHANGED <<estimate, priced>>
         \/ estimate' = Compose!NoQuote /\ priced' = Compose!NoForm
    BY DEF Compose!Hold, Compose!ProceedIsVoid, Compose!CreateFails, Compose!Without, Compose!safety, Compose!server
<1>2. Flags'
    BY <1>1, ProceedsNoMore DEF AskInv, Flags, Proceeds
<1>3. submitting' \in BOOLEAN /\ askCreating' \in BOOLEAN /\ inFlight' \in BOOLEAN
    BY <1>1, EndsAreFlags DEF AskInv, AskShape
<1>4. Compose!NoForm \in Forms
    BY DEF Forms
<1> QED BY <1>1, <1>2, <1>3, <1>4, CallEnds

\* The create is sent, and the tick is cleared.
LEMMA Sends ==
    ASSUME AskInv, NEW t \in tasks, Compose!SendCreate(t) PROVE AskInv'
<1> DEFINE n == [t EXCEPT !.at = "create",
                          !.quote = IF t.band = "require_confirmation" THEN estimate ELSE Compose!NoQuote]
<1>1. /\ t.at = "warnings" /\ t.gen = generation /\ (t.content \in HighStakes => ticked)
      /\ ticked' = FALSE /\ inFlight' = TRUE /\ tasks' = (tasks \ {t}) \cup {n}
      /\ UNCHANGED <<form, generation, submitting, askCreating, estimate, priced, ticks, quotes, started>>
    BY DEF Compose!SendCreate, Compose!StillWanted, Compose!Current, Compose!Warned, Compose!TickAfterCreate, Compose!Without, Compose!server
<1>2. t \in TaskShape /\ estimate \in Nat /\ generation \in Nat /\ submitting \in BOOLEAN /\ askCreating \in BOOLEAN
    BY DEF AskInv, AskShape
<1>3. /\ n \in TaskShape /\ n.at = "create" /\ n.gen = t.gen /\ n.from = t.from /\ n.content = t.content
    BY <1>2 DEF TaskShape, Compose!NoQuote
<1> HIDE DEF n
<1>4. Flags'
    BY <1>1, <1>3, GoesOn DEF AskInv, Flags, Proceeds, HasSent, Stands
<1>5. IsPriced(n.content)
    BY <1>1, <1>3 DEF AskInv, ProceedsAsPriced
<1>6. {t} \in SUBSET tasks /\ n.gen <= generation
    BY <1>1, <1>2, <1>3
<1> QED BY <1>1, <1>2, <1>3, <1>4, <1>5, <1>6, CallGoesOn

\* The server wants the question priced again.
LEMMA AsksAgain ==
    ASSUME AskInv, NEW t \in tasks, Compose!PriceAgain(t) PROVE AskInv'
<1> DEFINE n == [t EXCEPT !.at = "again", !.content = form, !.auto = FALSE]
<1>1. /\ t.at = "create" /\ estimate' = Compose!NoQuote
      /\ UNCHANGED <<form, generation, priced, ticked, ticks, quotes, started>>
      /\ \/ tasks' = tasks \ {t} /\ Compose!ProceedEnds(t)
         \/ tasks' = (tasks \ {t}) \cup {n} /\ UNCHANGED <<submitting, askCreating, inFlight>>
    BY DEF Compose!PriceAgain, Compose!Without, Compose!safety, Compose!server
<1>2. /\ t \in TaskShape /\ form \in Forms /\ priced \in Forms /\ generation \in Nat /\ submitting \in BOOLEAN
      /\ askCreating \in BOOLEAN /\ inFlight \in BOOLEAN /\ ticked \in BOOLEAN
    BY DEF AskInv, AskShape
<1>3. n \in TaskShape /\ n.at = "again" /\ ~n.auto /\ n.gen = t.gen /\ n.from = t.from
    BY <1>2 DEF TaskShape
<1> HIDE DEF n
<1>4. t.gen = generation /\ inFlight
    BY <1>1 DEF AskInv, OneProceeds, FlagsAreHeld, HasSent, Stands
<1>5. CASE tasks' = tasks \ {t} /\ Compose!ProceedEnds(t)
    <2>1. Flags'
        BY <1>1, <1>5, ProceedsNoMore DEF AskInv, Flags, Proceeds
    <2>2. submitting' \in BOOLEAN /\ askCreating' \in BOOLEAN /\ inFlight' \in BOOLEAN
        BY <1>5, EndsAreFlags DEF AskInv
    <2> QED BY <1>1, <1>2, <1>5, <2>1, <2>2, CallEnds
<1>6. CASE tasks' = (tasks \ {t}) \cup {n} /\ UNCHANGED <<submitting, askCreating, inFlight>>
    <2>1. Flags'
        BY <1>1, <1>3, <1>4, <1>6, GoesOn DEF AskInv, Flags, Proceeds, HasSent, Stands
    <2>2. {t} \in SUBSET tasks /\ n.gen <= generation
        BY <1>2, <1>3, <1>4
    <2> QED BY <1>1, <1>2, <1>3, <1>6, <2>1, <2>2, CallGoesOn
<1> QED BY <1>1, <1>5, <1>6

\* An answered estimate adds one priced question to those there were.
LEMMA OneMoreIsPriced ==
    ASSUME AskShape, NEW t \in tasks, NEW band \in Compose!Bands,
           quotes' = Append(quotes, [content |-> t.content, band |-> band, used |-> FALSE])
    PROVE  /\ quotes' \in Seq(QuoteShape) /\ Len(quotes') \in Nat /\ Len(quotes') \in DOMAIN quotes'
           /\ Len(quotes') # 0 /\ quotes'[Len(quotes')].content = t.content
           /\ \A c : IsPriced(c) => IsPriced(c)'
           /\ band # "block" => IsPriced(t.content)'
<1> DEFINE q == [content |-> t.content, band |-> band, used |-> FALSE]
<1>1. q \in QuoteShape /\ q.content = t.content /\ q.band = band /\ quotes \in Seq(QuoteShape)
    BY DEF AskShape, TaskShape, QuoteShape
<1>2. quotes' = Append(quotes, q)
    OBVIOUS
<1> HIDE DEF q
<1>3. PICK len \in Nat : len = Len(quotes)
    BY <1>1
<1>4. /\ quotes' \in Seq(QuoteShape) /\ Len(quotes') = len + 1
      /\ DOMAIN quotes = 1 .. len /\ DOMAIN quotes' = 1 .. len + 1
      /\ \A k \in 1 .. len : quotes'[k] = quotes[k]
      /\ quotes'[len + 1] = q
    BY <1>1, <1>2, <1>3
<1>5. len + 1 \in DOMAIN quotes' /\ quotes'[len + 1].content = t.content /\ quotes'[len + 1].band = band
    BY <1>1, <1>4
<1>6. \A c : IsPriced(c) => IsPriced(c)'
    <2>1. DOMAIN quotes \subseteq DOMAIN quotes'
        BY <1>4
    <2> QED BY <1>4, <2>1, PricedStays
<1>7. band # "block" => IsPriced(t.content)'
    BY <1>5 DEF IsPriced
<1> QED BY <1>4, <1>5, <1>6, <1>7

\* An estimate arrives: a cheap "Run now" goes on, any other opens the cost gate.
LEMMA EstimatesArrive ==
    ASSUME AskInv, NEW t \in tasks, Compose!EstimateArrives(t) PROVE AskInv'
<1>1. PICK band \in Compose!Bands :
        /\ quotes' = Append(quotes, [content |-> t.content, band |-> band, used |-> FALSE])
        /\ estimate' = Len(quotes') /\ priced' = Compose!PricedBy(t)
        /\ IF t.auto /\ band = "allow"
           THEN /\ askView' = askView
                /\ IF Compose!MayProceed(band)
                   THEN /\ askCreating' = TRUE /\ UNCHANGED <<submitting, inFlight>>
                        /\ tasks' = Compose!Without(t) \cup {Compose!Call("warnings", priced', "start", FALSE, band)}
                   ELSE /\ Compose!StartEnds(t) /\ tasks' = Compose!Without(t)
                        /\ UNCHANGED <<askCreating, inFlight>>
           ELSE /\ askView' = "gate" /\ tasks' = Compose!Without(t)
                /\ IF t.at = "again" THEN Compose!ProceedEnds(t)
                                     ELSE Compose!StartEnds(t) /\ UNCHANGED <<askCreating, inFlight>>
    BY DEF Compose!EstimateArrives
<1>2. /\ t.at \in {"estimate", "again"} /\ t.gen = generation
      /\ UNCHANGED <<form, generation, ticked, ticks, started>>
    BY DEF Compose!EstimateArrives, Compose!Current, Compose!safety
<1> DEFINE n == [at |-> "warnings", gen |-> generation, content |-> t.content, from |-> "start",
                 auto |-> FALSE, band |-> band, quote |-> Compose!NoQuote]
<1>3. AskShape /\ t \in TaskShape /\ estimate' = Len(quotes') /\ priced' = t.content /\ t.content \in Forms
    BY <1>1 DEF AskInv, AskShape, TaskShape, Compose!PricedBy
<1>4. /\ quotes' \in Seq(QuoteShape) /\ estimate' \in Nat /\ estimate' \in DOMAIN quotes'
      /\ estimate' # 0 /\ quotes'[estimate'].content = priced'
      /\ \A c : IsPriced(c) => IsPriced(c)'
      /\ band # "block" => IsPriced(t.content)'
    BY <1>1, <1>3, OneMoreIsPriced
<1>5. \/ tasks' = tasks \ {t} /\ Flags'
      \/ tasks' = (tasks \ {t}) \cup {n} /\ Flags' /\ band # "block"
    <2>1. CASE t.auto /\ band = "allow" /\ Compose!MayProceed(band)
        <3>1. t.at = "estimate" /\ ~askCreating
            BY <1>2, <2>1 DEF AskInv, OneProceeds, Compose!MayProceed
        <3>2. /\ tasks' = (tasks \ {t}) \cup {n} /\ askCreating' /\ UNCHANGED <<generation, submitting, inFlight>>
            BY <1>1, <1>2, <1>3, <2>1 DEF Compose!Without, Compose!Call
        <3>3. n.at = "warnings" /\ n.gen = generation /\ n.from = "start"
            OBVIOUS
        <3> HIDE DEF n
        <3>4. Flags'
            BY <3>1, <3>2, <3>3, BeginsToProceed DEF AskInv, Flags
        <3> QED BY <2>1, <3>2, <3>4
    <2>2. CASE ~(t.auto /\ band = "allow" /\ Compose!MayProceed(band))
        <3>1. /\ tasks' = tasks \ {t}
              /\ \/ t.at = "again" /\ Compose!ProceedEnds(t)
                 \/ t.at = "estimate" /\ Compose!StartEnds(t) /\ UNCHANGED <<askCreating, inFlight>>
            BY <1>1, <1>2, <2>2 DEF AskInv, OneProceeds, Compose!Without
        <3> QED BY <1>2, <3>1, AsksNoMore, ProceedsNoMore DEF AskInv, Flags, Proceeds
    <2> QED BY <2>1, <2>2
<1>6. submitting' \in BOOLEAN /\ askCreating' \in BOOLEAN /\ inFlight' \in BOOLEAN
    <2>1. submitting \in BOOLEAN /\ askCreating \in BOOLEAN /\ inFlight \in BOOLEAN
        BY <1>3 DEF AskShape
    <2>2. \/ Compose!ProceedEnds(t)
          \/ Compose!StartEnds(t) /\ UNCHANGED <<askCreating, inFlight>>
          \/ askCreating' = TRUE /\ UNCHANGED <<submitting, inFlight>>
        BY <1>1
    <2> QED BY <1>3, <2>1, <2>2, EndsAreFlags
<1>7. n \in TaskShape /\ n.at = "warnings" /\ n.gen = generation /\ n.content = t.content /\ generation \in Nat
    BY <1>3 DEF AskShape, TaskShape, Compose!NoQuote
<1> HIDE DEF n
<1>8. \A u \in tasks' : u \in tasks \/ (u = n /\ band # "block")
    BY <1>5
<1>9. AskShape'
    <2>1. tasks' \subseteq TaskShape /\ \A u \in tasks' : u.gen <= generation'
        BY <1>2, <1>3, <1>7, <1>8 DEF AskShape
    <2> QED BY <1>2, <1>3, <1>4, <1>6, <2>1 DEF AskShape
<1>10. ProceedsAsPriced'
    <2>1. \A u \in tasks' : u.at \in {"warnings", "create"} => IsPriced(u.content)'
        BY <1>4, <1>7, <1>8 DEF AskInv, ProceedsAsPriced
    <2>2. \A i \in DOMAIN started' : IsPriced(started[i])'
        BY <1>2, <1>4 DEF AskInv, ProceedsAsPriced
    <2> QED BY <1>4, <2>1, <2>2 DEF ProceedsAsPriced
<1>11. TicksAreForOne'
    <2>1. RiskyIsSent' => RiskyIsSent
        BY <1>7, <1>8 DEF RiskyIsSent
    <2> QED BY <1>2, <2>1, TicksStay DEF AskInv, AskShape
<1>12. Flags'
    BY <1>5
<1> QED BY <1>9, <1>10, <1>11, <1>12 DEF AskInv, Flags

\* One run more is one risky run more, if it is risky.
LEMMA OneMoreIsStarted ==
    ASSUME NEW c \in Forms, started \in Seq(Forms), started' = Append(started, c)
    PROVE  /\ started' \in Seq(Forms)
           /\ \A i \in DOMAIN started' : (i \in DOMAIN started /\ started'[i] = started[i]) \/ started'[i] = c
           /\ Cardinality(RiskyRuns)' = Cardinality(RiskyRuns) + (IF c \in HighStakes THEN 1 ELSE 0)
<1>1. PICK len \in Nat : len = Len(started)
    OBVIOUS
<1>2. /\ started' \in Seq(Forms) /\ DOMAIN started = 1 .. len /\ DOMAIN started' = 1 .. len + 1
      /\ \A i \in 1 .. len : started'[i] = started[i]
      /\ started'[len + 1] = c
    BY <1>1
<1>3. \A i \in DOMAIN started' : (i \in DOMAIN started /\ started'[i] = started[i]) \/ started'[i] = c
    BY <1>2
<1>4. IsFiniteSet(RiskyRuns) /\ Cardinality(RiskyRuns) \in Nat /\ len + 1 \notin RiskyRuns
    BY <1>2, RiskyRunsAreCounted DEF RiskyRuns
<1>5. CASE c \in HighStakes
    <2>1. RiskyRuns' = RiskyRuns \cup {len + 1}
        BY <1>2, <1>5 DEF RiskyRuns
    <2>2. Cardinality(RiskyRuns \cup {len + 1}) = Cardinality(RiskyRuns) + 1
        BY <1>4, FS_AddElement
    <2> QED BY <1>2, <1>3, <1>5, <2>1, <2>2
<1>6. CASE c \notin HighStakes
    <2>1. RiskyRuns' = RiskyRuns
        BY <1>2, <1>6 DEF RiskyRuns
    <2> QED BY <1>2, <1>3, <1>4, <1>6, <2>1
<1> QED BY <1>5, <1>6

\* The server creates the run.
LEMMA Creates ==
    ASSUME AskInv, NEW t \in tasks, Compose!Create(t) PROVE AskInv'
<1>1. /\ t.at = "create" /\ started' = Append(started, t.content) /\ quotes' = Compose!SpentQuotes(t)
      /\ Compose!ProceedEnds(t) /\ tasks' = tasks \ {t}
      /\ UNCHANGED <<form, generation, estimate, priced, ticked, ticks>>
    BY DEF Compose!Create, Compose!Without, Compose!safety
<1>2. AskShape /\ t.content \in Forms /\ started \in Seq(Forms) /\ IsPriced(t.content)
    BY <1>1 DEF AskInv, AskShape, TaskShape, ProceedsAsPriced
<1>3. /\ quotes' \in Seq(QuoteShape) /\ DOMAIN quotes' = DOMAIN quotes
      /\ \A k \in DOMAIN quotes : quotes'[k].content = quotes[k].content /\ quotes'[k].band = quotes[k].band
    <2>1. quotes \in Seq(QuoteShape) /\ \A k \in DOMAIN quotes : quotes[k] \in QuoteShape
        BY <1>2 DEF AskShape
    <2>2. CASE t.quote = Compose!NoQuote
        BY <1>1, <2>1, <2>2 DEF Compose!SpentQuotes
    <2>3. CASE t.quote # Compose!NoQuote
        <3>1. quotes' = [quotes EXCEPT ![t.quote].used = TRUE]
            BY <1>1, <2>3 DEF Compose!SpentQuotes
        <3>2. DOMAIN quotes' = DOMAIN quotes
            BY <3>1
        <3>3. \A k \in DOMAIN quotes :
                quotes'[k] = IF k = t.quote THEN [quotes[k] EXCEPT !.used = TRUE] ELSE quotes[k]
            BY <3>1
        <3>4. \A k \in DOMAIN quotes : /\ quotes'[k] \in QuoteShape
                                      /\ quotes'[k].content = quotes[k].content /\ quotes'[k].band = quotes[k].band
            BY <2>1, <3>3 DEF QuoteShape
        <3>5. PICK len \in Nat : DOMAIN quotes = 1 .. len
            BY <2>1
        <3>6. quotes' = [k \in 1 .. len |-> quotes'[k]]
            BY <3>1, <3>5
        <3>7. quotes' \in [1 .. len -> QuoteShape]
            BY <3>4, <3>5, <3>6
        <3>8. quotes' \in Seq(QuoteShape)
            BY <3>7
        <3> QED BY <3>2, <3>4, <3>8
    <2> QED BY <2>2, <2>3
<1>4. \A c : IsPriced(c) => IsPriced(c)'
    BY <1>3, PricedStays
<1>5. /\ started' \in Seq(Forms)
      /\ \A i \in DOMAIN started' : (i \in DOMAIN started /\ started'[i] = started[i]) \/ started'[i] = t.content
      /\ Cardinality(RiskyRuns)' = Cardinality(RiskyRuns) + (IF t.content \in HighStakes THEN 1 ELSE 0)
    BY <1>1, <1>2, OneMoreIsStarted
<1>6. Flags'
    BY <1>1, ProceedsNoMore DEF AskInv, Flags, Proceeds
<1>7. AskShape'
    <2>1. submitting' \in BOOLEAN /\ askCreating' \in BOOLEAN /\ inFlight' \in BOOLEAN
        BY <1>1, <1>2, EndsAreFlags
    <2> QED BY <1>1, <1>2, <1>3, <1>5, <2>1 DEF AskShape
<1>8. ProceedsAsPriced'
    <2>1. \A i \in DOMAIN started' : IsPriced(started[i])'
        BY <1>2, <1>4, <1>5 DEF AskInv, ProceedsAsPriced
    <2>2. \A u \in tasks' : u.at \in {"warnings", "create"} => IsPriced(u.content)'
        BY <1>1, <1>4 DEF AskInv, ProceedsAsPriced
    <2>3. estimate' # Compose!NoQuote => estimate' \in DOMAIN quotes' /\ quotes'[estimate'].content = priced'
        BY <1>1, <1>3 DEF AskInv, ProceedsAsPriced
    <2> QED BY <2>1, <2>2, <2>3 DEF ProceedsAsPriced
<1>9. TicksAreForOne'
    <2>1. ~RiskyIsSent'
        <3>1. \A u \in tasks' : u.at # "create"
            BY <1>1 DEF AskInv, OneProceeds, HasSent, Proceeds
        <3> QED BY <3>1 DEF RiskyIsSent
    <2>2. t.content \in HighStakes => RiskyIsSent
        BY <1>1 DEF RiskyIsSent
    <2>3. PICK m, n \in Nat : m = Cardinality(RiskyRuns)' /\ n = Cardinality(RiskyRuns)
        BY <1>2, <1>5, RiskyRunsAreCounted
    <2>4. ticks \in Nat /\ n + (IF RiskyIsSent THEN 1 ELSE 0) + (IF ticked THEN 1 ELSE 0) <= ticks
        BY <2>3 DEF AskInv, AskShape, TicksAreForOne
    <2>5. m + (IF ticked THEN 1 ELSE 0) <= ticks
        BY <1>5, <2>2, <2>3, <2>4
    <2> QED BY <1>1, <2>1, <2>3, <2>5 DEF TicksAreForOne
<1> QED BY <1>6, <1>7, <1>8, <1>9 DEF AskInv, Flags

-----------------------------------------------------------------------------
\* Every step of the page, the person or the server keeps the invariant.
LEMMA AskSteps ==
    ASSUME Compose!ComposerAssumption, AskInv, [Compose!ComposerNext]_(Compose!vars) PROVE AskInv'
<1> USE DEF Compose!flags, Compose!safety, Compose!server, askData, askFlags
<1>1. form \in Forms /\ Compose!BareForm \in Forms /\ Compose!NoForm \in Forms /\ \A q \in PageQuestions : q \in Forms
    BY QuestionsStay DEF AskInv, AskShape, Forms
<1>2. ticked \in BOOLEAN /\ ticks \in Nat
    BY DEF AskInv, AskShape
<1>3. CASE \E q \in PageQuestions : Compose!Write(q) \/ Compose!ProbeAnswers(q)
    <2>1. PICK q \in PageQuestions : Compose!Write(q) \/ Compose!ProbeAnswers(q)
        BY <1>3
    <2>2. /\ UNCHANGED <<askData, askFlags, ticks>> /\ form' \in Forms /\ ticked' \in BOOLEAN /\ (ticked' => ticked)
        <3>1. CASE Compose!Write(q)
            BY <1>1, <1>2, <3>1 DEF Compose!Write
        <3>2. CASE Compose!ProbeAnswers(q)
            <4>1. ticked' = (ticked /\ required') /\ UNCHANGED <<askData, askFlags, ticks, form>>
                BY <3>2 DEF Compose!ProbeAnswers
            <4>2. ticked' \in BOOLEAN /\ (ticked' => ticked)
                BY <4>1, Zenon
            <4> QED BY <1>1, <4>1, <4>2
        <3> QED BY <2>1, <3>1, <3>2
    <2> QED BY <2>2, NothingIsAsked
<1>4. CASE Compose!Tick
    <2>1. UNCHANGED <<askData, askFlags, form>> /\ ticked' = TRUE /\ ~ticked /\ ticks' = ticks + 1
        BY <1>4 DEF Compose!Tick
    <2> QED BY <1>1, <2>1, NothingIsAsked
<1>5. CASE Compose!NewQuestion
    <2>1. /\ ~inFlight /\ Compose!Drop /\ form' \in Forms /\ UNCHANGED <<tasks, quotes, started, ticked, ticks>>
        BY <1>1, <1>5 DEF Compose!NewQuestion
    <2> QED BY <2>1, DropKeeps
<1>6. CASE \/ Compose!DropContext \/ Compose!GateBack \/ (\E to \in {"composer", "result"} : Compose!GoBack(to))
           \/ Compose!OpenEarlier \/ Compose!EarlierArrives \/ (\E f \in PageQuestions : Compose!NextQuestion(f))
           \/ Compose!RunEnds \/ Compose!PageHears
    <2>1. /\ form' \in Forms /\ UNCHANGED <<tasks, quotes, started, ticked, ticks>>
          /\ \/ UNCHANGED <<askFlags, estimate, priced>>
             \/ Compose!Drop /\ (~inFlight \/ ~askCreating)
        BY <1>1, <1>6 DEF Compose!DropContext, Compose!GateBack, Compose!GoBack, Compose!OpenEarlier, Compose!EarlierArrives,
                          Compose!NextQuestion, Compose!RunEnds, Compose!PageHears, Compose!Keeps
    <2> QED BY <1>2, <2>1, DropKeeps, NothingIsAsked
<1>7. CASE \E auto \in BOOLEAN : Compose!StartRun(auto)
    BY <1>7, Starts
<1>8. CASE Compose!Confirm
    BY <1>8, Confirms
<1>9. CASE \E t \in tasks : \/ Compose!EstimateArrives(t) \/ Compose!EstimateIsVoid(t) \/ Compose!Hold(t) \/ Compose!SendCreate(t)
                            \/ Compose!ProceedIsVoid(t) \/ Compose!Create(t) \/ Compose!CreateFails(t) \/ Compose!PriceAgain(t)
    BY <1>9, EstimatesArrive, VoidEstimates, ProceedingEnds, Sends, Creates, AsksAgain
<1>10. CASE UNCHANGED Compose!vars
    <2>1. UNCHANGED <<askData, askFlags, form, ticked, ticks>>
        BY <1>10 DEF Compose!vars
    <2> QED BY <1>1, <1>2, <2>1, NothingIsAsked
<1> QED BY <1>3, <1>4, <1>5, <1>6, <1>7, <1>8, <1>9, <1>10 DEF Compose!ComposerNext, Compose!Action

\* The page starts with an empty composer.
LEMMA AskStarts == ASSUME Compose!Init PROVE AskInv
<1>1. AskShape
    <2>1. /\ quotes = <<>> /\ started = <<>> /\ tasks = {} /\ form \in Forms /\ priced \in Forms
          /\ generation \in Nat /\ estimate \in Nat /\ ticks \in Nat
          /\ submitting = FALSE /\ askCreating = FALSE /\ inFlight = FALSE /\ ticked = FALSE
        BY DEF Compose!Init, Forms, Compose!NoQuote
    <2>2. quotes \in Seq(QuoteShape) /\ started \in Seq(Forms)
        BY <2>1
    <2> QED BY <2>1, <2>2 DEF AskShape
<1>2. tasks = {} /\ DOMAIN started = {} /\ estimate = Compose!NoQuote /\ ticked = FALSE /\ ticks = 0
      /\ submitting = FALSE /\ askCreating = FALSE /\ inFlight = FALSE
    BY DEF Compose!Init
<1>3. TicksAreForOne
    <2>1. RiskyRuns = {} /\ ~RiskyIsSent
        BY <1>2 DEF RiskyRuns, RiskyIsSent
    <2>2. Cardinality(RiskyRuns) = 0
        BY <2>1, FS_EmptySet
    <2> QED BY <1>2, <2>1, <2>2 DEF TicksAreForOne
<1> QED BY <1>1, <1>2, <1>3 DEF AskInv, FlagsAreHeld, OneProceeds, ProceedsAsPriced

(* The composer's invariant: controls are held by calls, one call proceeds at a *)
(* time with a question that was priced, and ticks are accounted for.          *)
THEOREM ComposerInvariant ==
    ASSUME Compose!ComposerAssumption PROVE Compose!ComposerSpec => []AskInv
<1>1. Compose!Init => AskInv
    BY AskStarts
<1>2. AskInv /\ [Compose!ComposerNext]_(Compose!vars) => AskInv'
    BY AskSteps
<1> QED BY <1>1, <1>2, PTL DEF Compose!ComposerSpec

(* startRun, estimateRun, proceedWithRun: a run is created only from a question *)
(* the server priced as it stands and did not block, and no create is sent for  *)
(* a question that was dropped.                                                *)
THEOREM RunsAreTheOnesPriced ==
    ASSUME Compose!ComposerAssumption PROVE Compose!ComposerSpec => []Compose!RunIsTheOnePriced
<1>1. AskInv => Compose!RunIsTheOnePriced
    BY DEF AskInv, OneProceeds, HasSent, Stands, ProceedsAsPriced, IsPriced, Compose!RunIsTheOnePriced, Compose!Sent
<1> QED BY <1>1, ComposerInvariant, PTL

(* clearHighStakesTick: every high-stakes run took a tick of its own.           *)
THEOREM RiskyRunsAreTicked ==
    ASSUME Compose!ComposerAssumption PROVE Compose!ComposerSpec => []Compose!EachRiskyRunTookItsTick
<1>1. AskInv => Compose!EachRiskyRunTookItsTick
    <2> SUFFICES ASSUME AskInv PROVE Compose!EachRiskyRunTookItsTick
        OBVIOUS
    <2>1. Cardinality(RiskyRuns) \in Nat /\ ticks \in Nat
        BY RiskyRunsAreCounted DEF AskInv, AskShape
    <2>2. Cardinality(RiskyRuns) <= ticks
        BY <2>1 DEF AskInv, TicksAreForOne
    <2> QED BY <2>2, AskCardinality DEF RiskyRuns, Compose!EachRiskyRunTookItsTick
<1> QED BY <1>1, ComposerInvariant, PTL

(* The generation checks of every finally: one create is under way at a time,   *)
(* and no control stays busy once nothing is awaited.                          *)
THEOREM NoControlStaysBusy ==
    ASSUME Compose!ComposerAssumption PROVE Compose!ComposerSpec => []Compose!ControlsComeBack
<1>1. AskInv => Compose!ControlsComeBack
    <2> SUFFICES ASSUME AskInv PROVE Compose!ControlsComeBack
        OBVIOUS
    <2>1. \A t, u \in Compose!Sent : t = u
        BY DEF AskInv, OneProceeds, HasSent, Proceeds, Compose!Sent
    <2>2. Cardinality(Compose!Sent) <= 1
        <3>1. CASE Compose!Sent = {}
            BY <3>1, FS_EmptySet
        <3>2. CASE Compose!Sent # {}
            <4>1. PICK t : Compose!Sent = {t}
                BY <2>1, <3>2
            <4> QED BY <4>1, FS_Singleton
        <3> QED BY <3>1, <3>2
    <2>3. Compose!Sent # {} => askCreating /\ inFlight
        BY DEF AskInv, FlagsAreHeld, OneProceeds, HasSent, Proceeds, Compose!Sent
    <2>4. tasks = {} => ~submitting /\ ~askCreating /\ ~inFlight
        BY DEF AskInv, FlagsAreHeld
    <2> QED BY <2>2, <2>3, <2>4, AskCardinality DEF Compose!ControlsComeBack
<1> QED BY <1>1, ComposerInvariant, PTL
=============================================================================
