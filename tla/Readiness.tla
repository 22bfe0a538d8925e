----------------------------- MODULE Readiness ------------------------------
(***************************************************************************)
(* What the service says of itself on /ready and /status (readiness.py):   *)
(* the credential probe's background thread, and the report each request   *)
(* builds from the settings, the probe's verdict and the model catalogue.  *)
(*                                                                         *)
(* The provider is the environment: it may come to refuse the key, and to  *)
(* accept it again, and a check may bring no answer at all.                *)
(***************************************************************************)
EXTENDS ModelCatalogue

CONSTANTS
    Switches            \* bound: how often the provider changes its mind

VARIABLES
    settings,           \* [live, key]: the flag is set, a key is there
    accepts,            \* the provider accepts the key
    switches,
    probe,              \* the probe thread: "none", "asking", "recording" or "sleeping"
    verdict,            \* what its check brought: a KeyAuthState
    keyAuth,            \* _key_auth_state
    report              \* of each request: the last ReadinessReport served, or none

readyVars == <<settings, accepts, switches, probe, verdict, keyAuth, report>>
vars == <<catalogueVars, readyVars>>

KeyAuthState == {"unknown", "ok", "unauthorized"}
NoReport == [state |-> "none"]

(* start_key_auth_probe: a thread only where there is a key to prove; the      *)
(* thread may fail to start.                                                   *)
Init ==
    /\ CatalogueInit
    /\ settings \in [live : BOOLEAN, key : BOOLEAN]
    /\ accepts \in BOOLEAN /\ switches = 0
    /\ probe \in IF settings.live /\ settings.key THEN {"asking", "none"} ELSE {"none"}
    /\ verdict = "unknown" /\ keyAuth = "unknown"
    /\ report = [c \in Callers |-> NoReport]

(* probe_key_auth: only a status that speaks of the key is a verdict.          *)
Ask(answered) ==
    /\ probe = "asking"
    /\ verdict' = IF ~answered THEN "unknown"
                  ELSE IF accepts THEN "ok" ELSE "unauthorized"
    /\ probe' = "recording"
    /\ UNCHANGED <<catalogueVars, settings, accepts, switches, keyAuth, report>>

\* Mutant: what the check brought is recorded, whatever it is.
RecordAnything ==
    /\ probe = "recording"
    /\ keyAuth' = verdict
    /\ probe' = "sleeping"
    /\ UNCHANGED <<catalogueVars, settings, accepts, switches, verdict, report>>

(* _probe_once_and_record.                                                     *)
RecordVerdict ==
    /\ probe = "recording"
    /\ keyAuth' = IF verdict = "unknown" THEN keyAuth ELSE verdict
    /\ probe' = "sleeping"
    /\ UNCHANGED <<catalogueVars, settings, accepts, switches, verdict, report>>

ProbeAgain ==
    /\ probe = "sleeping"
    /\ probe' = "asking"
    /\ UNCHANGED <<catalogueVars, settings, accepts, switches, verdict, keyAuth, report>>

ProviderSwitches ==
    /\ switches < Switches
    /\ accepts' = ~accepts /\ switches' = switches + 1
    /\ UNCHANGED <<catalogueVars, settings, probe, verdict, keyAuth, report>>

(* OpenRouterModelCatalogService._entries: a catalogue that cannot be had is   *)
(* replaced by the built-in one, and the exception does not come further.      *)
Entries(c) == IF got[c] = "models" THEN "live" ELSE "built_in"

(* run_startup_probe, with the entries its call of list_models brought.        *)
State == CASE settings.live /\ settings.key /\ keyAuth = "unauthorized" -> "offline_by_bad_key"
           [] settings.live /\ settings.key /\ keyAuth # "unauthorized" -> "live"
           [] settings.live /\ ~settings.key -> "offline_by_no_key"
           [] OTHER -> "offline_by_config"

Report(c, state) ==
    [state |-> state, entries |-> Entries(c), catalog_loaded |-> Entries(c) \in {"live", "built_in"}]

(* The headline is decided before the catalogue is asked for, so a request     *)
(* keeps it while it waits.                                                    *)
BeginReport(c) ==
    /\ pc[c] = "idle" /\ report[c].state = "none"
    /\ report' = [report EXCEPT ![c] = [state |-> "asked", headline |-> State]]
    /\ UNCHANGED <<catalogueVars, settings, accepts, switches, probe, verdict, keyAuth>>

ServeReport(c) ==
    /\ pc[c] = "returned" /\ report[c].state = "asked"
    /\ report' = [report EXCEPT ![c] = Report(c, @.headline)]
    /\ UNCHANGED <<catalogueVars, settings, accepts, switches, probe, verdict, keyAuth>>

(* The request ends; its thread takes another.                                 *)
EndRequest(c) ==
    /\ report[c].state # "asked"
    /\ EndCall(c)
    /\ report' = [report EXCEPT ![c] = NoReport]
    /\ UNCHANGED <<settings, accepts, switches, probe, verdict, keyAuth>>

CatalogueStep == ((\E c \in Callers : ListModels(c)) \/ Expire) /\ UNCHANGED readyVars
ProbeStep == (\E answered \in BOOLEAN : Ask(answered)) \/ RecordVerdict \/ ProbeAgain
RequestStep == \E c \in Callers : BeginReport(c) \/ ServeReport(c) \/ EndRequest(c)
ReadyNext == CatalogueStep \/ ProbeStep \/ RequestStep \/ ProviderSwitches

Spec == Init /\ [][ReadyNext]_vars

(* The probe thread runs for ever, and a check is answered again and again.    *)
Fairness == /\ CatalogueFairness
            /\ WF_vars(RecordVerdict) /\ WF_vars(ProbeAgain)
            /\ SF_vars(Ask(TRUE))
FairSpec == Spec /\ Fairness

-----------------------------------------------------------------------------
ReadyTypeOK ==
    /\ CatalogueTypeOK
    /\ settings \in [live : BOOLEAN, key : BOOLEAN]
    /\ accepts \in BOOLEAN /\ switches \in 0 .. Switches
    /\ probe \in {"none", "sleeping", "asking", "recording"}
    /\ verdict \in KeyAuthState /\ keyAuth \in KeyAuthState
    /\ DOMAIN report = Callers

(* A check that brought no verdict erases none: once the provider has spoken   *)
(* of the key, only its speaking again changes what is reported.               *)
InconclusiveNeverErases == [][keyAuth' # keyAuth => keyAuth' = verdict /\ verdict # "unknown"]_vars

(* A provider that refuses the key for good is reported, and one that accepts  *)
(* it again is as well, as long as the probe's thread could be started.        *)
VerdictCatchesUp ==
    probe # "none" => <>[](keyAuth = (IF accepts THEN "ok" ELSE "unauthorized"))
=============================================================================
