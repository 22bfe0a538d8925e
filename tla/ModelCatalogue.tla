--------------------------- MODULE ModelCatalogue ---------------------------
(***************************************************************************)
(* The process-wide model catalogue (catalog_fetcher.py): a cache with a   *)
(* time to live, filled by whichever caller finds it empty while the       *)
(* others wait for that caller's event, and the service over it that falls *)
(* back to a built-in catalogue (model_slots.py).                          *)
(*                                                                         *)
(* The network is the environment: a fetch ends with the models listed     *)
(* upstream at that moment, or fails.  A waiter's timeout may pass before   *)
(* the fetch ends, because a fetch's own timeout bounds each read and not   *)
(* the whole of it; the time to live passes at any moment.                  *)
(***************************************************************************)
EXTENDS Integers, FiniteSets

CONSTANTS
    Callers,            \* threads that call list_models
    MaxExpiries         \* bound: times the cache's time to live passes

(* The process has finitely many threads.                                      *)
CallersAssumption == IsFiniteSet(Callers) /\ MaxExpiries \in Nat

VARIABLES
    cache,              \* the cached catalogue is there and valid
    refreshEvent,       \* _refresh_event: its number, or NoEvent
    setEvents,          \* events that have been set
    pc,                 \* of each caller
    waitsFor,           \* the event a caller waits for
    got,                \* what list_models gave a caller: "models" or "raised"
    expiries,           \* counter for the bound
    troubled            \* some fetch failed, or some waiter waited in vain

cacheVars == <<cache, refreshEvent, setEvents>>
catalogueVars == <<cache, refreshEvent, setEvents, pc, waitsFor, got, expiries, troubled>>

NoEvent == 0
Nothing == "nothing"

CatalogueInit ==
    /\ cache = FALSE
    /\ refreshEvent = NoEvent /\ setEvents = {}
    /\ pc = [c \in Callers |-> "idle"]
    /\ waitsFor = [c \in Callers |-> NoEvent]
    /\ got = [c \in Callers |-> Nothing]
    /\ expiries = 0 /\ troubled = FALSE

Fetching == {c \in Callers : pc[c] \in {"fetching", "publishing", "leaving"}}
Waiting == {c \in Callers : pc[c] \in {"waiting", "woken", "installing"}}

Goto(c, step) == pc' = [pc EXCEPT ![c] = step]
Return(c, what) == got' = [got EXCEPT ![c] = what] /\ Goto(c, "returned")

(* An Event nobody refers to any more is gone, and its number is free again.   *)
EventIds == 1 .. Cardinality(Callers) + 1
FreshEvent == CHOOSE e \in EventIds : e # refreshEvent /\ \A c \in Callers : waitsFor[c] # e
NewEvent == /\ refreshEvent' = FreshEvent
            /\ setEvents' = setEvents \ {FreshEvent}

(* list_models, under the lock: serve the cache, start a fetch, or wait for    *)
(* the one announced.                                                          *)
ServeCached(c) ==
    /\ pc[c] = "idle" /\ cache
    /\ Return(c, "models")
    /\ UNCHANGED <<cacheVars, waitsFor, expiries, troubled>>

StartFetch(c) ==
    /\ pc[c] = "idle" /\ ~cache /\ refreshEvent = NoEvent
    /\ NewEvent
    /\ Goto(c, "fetching")
    /\ UNCHANGED <<cache, waitsFor, got, expiries, troubled>>

StartWait(c) ==
    /\ pc[c] = "idle" /\ ~cache /\ refreshEvent # NoEvent
    /\ waitsFor' = [waitsFor EXCEPT ![c] = refreshEvent]
    /\ Goto(c, "waiting")
    /\ UNCHANGED <<cacheVars, got, expiries, troubled>>

(* event.wait returns when the event is set, or when its timeout has passed.   *)
Wake(c) ==
    /\ pc[c] = "waiting" /\ waitsFor[c] \in setEvents
    /\ Goto(c, "woken")
    /\ UNCHANGED <<cacheVars, waitsFor, got, expiries, troubled>>

\* Mutant: event.wait without a timeout.
WaitForEver(c) == FALSE

WaitTimesOut(c) ==
    /\ pc[c] = "waiting"
    /\ Goto(c, "woken")
    /\ troubled' = TRUE
    /\ UNCHANGED <<cacheVars, waitsFor, got, expiries>>

(* The cache is looked at once more; the new event is put there in a second    *)
(* hold of the lock.                                                           *)
LookAgain(c) ==
    /\ pc[c] = "woken"
    /\ waitsFor' = [waitsFor EXCEPT ![c] = NoEvent]
    /\ IF cache THEN Return(c, "models") ELSE Goto(c, "installing") /\ UNCHANGED got
    /\ UNCHANGED <<cacheVars, expiries, troubled>>

TakeOver(c) ==
    /\ pc[c] = "installing"
    /\ NewEvent
    /\ Goto(c, "fetching")
    /\ UNCHANGED <<cache, waitsFor, got, expiries, troubled>>

(* _fetch_remote, outside the lock; nothing listed counts as a failure.        *)
FetchEnds(c) ==
    /\ pc[c] = "fetching"
    /\ Goto(c, "publishing")
    /\ UNCHANGED <<cacheVars, waitsFor, got, expiries, troubled>>

FetchFails(c) ==
    /\ pc[c] = "fetching"
    /\ got' = [got EXCEPT ![c] = "raised"]
    /\ Goto(c, "leaving")
    /\ troubled' = TRUE
    /\ UNCHANGED <<cacheVars, waitsFor, expiries>>

Publish(c) ==
    /\ pc[c] = "publishing"
    /\ cache' = TRUE
    /\ got' = [got EXCEPT ![c] = "models"]
    /\ Goto(c, "leaving")
    /\ UNCHANGED <<refreshEvent, setEvents, waitsFor, expiries, troubled>>

\* Mutant: only a fetch that succeeded clears the event.
ClearIfPublished(c) ==
    /\ pc[c] = "leaving"
    /\ IF refreshEvent = NoEvent \/ got[c] = "raised"
       THEN UNCHANGED <<setEvents, refreshEvent>>
       ELSE setEvents' = setEvents \cup {refreshEvent} /\ refreshEvent' = NoEvent
    /\ Goto(c, "returned")
    /\ UNCHANGED <<cache, waitsFor, got, expiries, troubled>>

(* finally: whatever event is announced now is set and taken away.             *)
ClearEvent(c) ==
    /\ pc[c] = "leaving"
    /\ IF refreshEvent = NoEvent
       THEN UNCHANGED <<setEvents, refreshEvent>>
       ELSE setEvents' = setEvents \cup {refreshEvent} /\ refreshEvent' = NoEvent
    /\ Goto(c, "returned")
    /\ UNCHANGED <<cache, waitsFor, got, expiries, troubled>>

(* The time to live passes; a waiter on its way back may find nothing, and so  *)
(* may one that still waits for the fetch that has just published.             *)
Expire ==
    /\ cache /\ expiries < MaxExpiries
    /\ cache' = FALSE
    /\ expiries' = expiries + 1
    /\ troubled' = (troubled \/ Waiting # {} \/ Fetching # {})
    /\ UNCHANGED <<refreshEvent, setEvents, pc, waitsFor, got>>

(* The caller goes on with what it was given; its thread may call again.       *)
EndCall(c) ==
    /\ pc[c] = "returned"
    /\ Goto(c, "idle")
    /\ got' = [got EXCEPT ![c] = Nothing]
    /\ UNCHANGED <<cacheVars, waitsFor, expiries, troubled>>

ListModels(c) ==
    \/ ServeCached(c) \/ StartFetch(c) \/ StartWait(c)
    \/ Wake(c) \/ WaitTimesOut(c) \/ LookAgain(c) \/ TakeOver(c)
    \/ FetchEnds(c) \/ FetchFails(c) \/ Publish(c) \/ ClearEvent(c)

(* What a thread that has called waits for: the fetch ends, one way or the     *)
(* other, the wait's timeout passes, and the thread runs on.                   *)
CatalogueFairness ==
    \A c \in Callers :
        /\ WF_catalogueVars(Wake(c) \/ WaitTimesOut(c) \/ LookAgain(c) \/ TakeOver(c)
                                \/ Publish(c) \/ ClearEvent(c))
        /\ WF_catalogueVars(FetchEnds(c) \/ FetchFails(c))

CatalogueNext == (\E c \in Callers : ListModels(c) \/ EndCall(c)) \/ Expire
CatalogueSpec == CatalogueInit /\ [][CatalogueNext]_catalogueVars

-----------------------------------------------------------------------------
CatalogueTypeOK ==
    /\ cache \in BOOLEAN
    /\ refreshEvent \in EventIds \cup {NoEvent}
    /\ setEvents \subseteq EventIds
    /\ pc \in [Callers -> {"idle", "waiting", "woken", "installing", "fetching", "publishing",
                           "leaving", "returned"}]
    /\ waitsFor \in [Callers -> EventIds \cup {NoEvent}]
    /\ got \in [Callers -> {Nothing, "models", "raised"}]
    /\ expiries \in 0 .. MaxExpiries
    /\ troubled \in BOOLEAN

(* A refresh event that callers will wait for belongs to a fetch under way:    *)
(* no caller is sent to wait for a fetch that has ended, also when fetches     *)
(* overlap and the first to end clears the event of another.                   *)
AnnouncedFetchIsRunning == refreshEvent # NoEvent => Fetching # {}

(* As long as no fetch fails, no wait times out and no catalogue lapses while  *)
(* someone fetches or waits, at most one caller fetches, whatever their order. *)
SingleFlight == ~troubled => Cardinality(Fetching) <= 1

(* Every call of list_models comes back, whether a fetch it waits for succeeds,*)
(* fails or is forgotten by the fetch that overtook it.                        *)
EveryCallReturns == \A c \in Callers : pc[c] = "waiting" ~> pc[c] = "returned"
=============================================================================
