------------------------------ MODULE QueryRuns ------------------------------
(***************************************************************************)
(* The life of a query run: the in-memory repository that holds it, the    *)
(* POST handler that creates, charges and starts it, the pipeline worker   *)
(* thread that drives it, the pool threads that answer its slots, the      *)
(* DELETE handler that cancels it under the worker's feet, and the judge   *)
(* that whoever reads a finished run may pay for.                          *)
(*                                                                         *)
(* One atomic step is one repository call (each holds the repository lock) *)
(* or one use of the semaphore, the ledger or the thread pool.  The id of  *)
(* a run also names the POST that creates it, its worker and its DELETE.   *)
(***************************************************************************)
EXTENDS Naturals, FiniteSets

CONSTANTS
    Runs,               \* the query runs (and POST requests) of a behaviour
    Accounts,           \* the accounts that own them
    LegacyAccounts,     \* accounts served by the inline X-Account-Id path
    Owner,              \* the account of each run
    QuickRuns,          \* runs asked for one quick answer, not a panel
    PanelSize,          \* model slots of a panel run
    Capacity,           \* _MAX_CONCURRENT_RUNS
    PoolSize,           \* _INITIAL_ANSWER_POOL_SIZE
    LiveExecution,      \* openrouter_live_execution_enabled
    ServerKey,          \* an openrouter_api_key is configured
    JudgeConfigured,    \* judge_configured()
    WorkersOutliveTtl,  \* a worker may stay silent past the repository's TTLs
    MaxJudgeCalls,      \* bound on the judge's calls for one run
    MaxClock            \* bound on the wall clock

ASSUME RunsAssumption ==
    /\ IsFiniteSet(Runs)
    /\ LegacyAccounts \subseteq Accounts
    /\ Owner \in [Runs -> Accounts]
    /\ QuickRuns \subseteq Runs
    /\ PanelSize \in Nat \ {0}
    /\ Capacity \in Nat \ {0}
    /\ PoolSize \in Nat \ {0}
    /\ MaxClock \in Nat
    /\ MaxJudgeCalls \in Nat
    /\ {LiveExecution, ServerKey, JudgeConfigured, WorkersOutliveTtl} \subseteq BOOLEAN

VARIABLES
    status,     \* QueryRun.status; "absent" before create, "purged" after the TTL
    stages,     \* QueryRun.progress: the state of each stage
    answers,    \* QueryRun.initial_answers, by slot
    billing,    \* QueryRun.billing_stages
    recorded,   \* usages stored by record_debate_outputs/record_final_synthesis
    updatedAt,  \* QueryRun.updated_at
    charge,     \* what the ledger answered when the run was charged
    bill,       \* cost_source of the receipt the worker settled at the end
    request,    \* the POST handler
    canceller,  \* the DELETE handler
    worker,     \* the pipeline thread
    cursor,     \* the slot whose future the worker waits for
    cut,        \* slots the run deadline cut off
    tasks,      \* the futures in the initial-answer pool
    paid,       \* slots whose answer call was dispatched to the provider
    calls,      \* provider calls made by the debate and synthesis stages
    judge,      \* _judge_verdict_memo and _judge_inflight: what is known of the verdict
    judgeCalls, \* calls of the judge made for the run
    booked,     \* how many of these the receipt settled as measured accounts for
    lapsed,     \* history: the verdict was evicted, or the worker settled without it
    timedOut,   \* DebateResult.timed_out
    expired,    \* the run's wall-clock budget is spent
    permits,    \* free permits of _run_semaphore
    clock       \* the wall clock

repository == <<status, stages, answers, billing, recorded, updatedAt>>
judging == <<judge, judgeCalls, booked, lapsed>>
money == <<charge, bill, paid, calls, judging>>
pool == <<tasks, expired>>
pipeline == <<worker, cursor, cut, timedOut>>
vars == <<repository, money, pool, pipeline, request, canceller, permits, clock>>

-----------------------------------------------------------------------------
(* Statuses, stages and the repository's own rules *)

TERMINAL_STATUSES ==
    {"completed", "partial", "failed", "timed_out", "blocked_by_cost", "cancelled"}

ActiveStatuses ==
    {"accepted", "initial_answers_running", "debate_round_1_running",
     "debate_round_2_running", "synthesis_running"}

QueryRunStatus == ActiveStatuses \cup TERMINAL_STATUSES

ALLOWED_TRANSITIONS ==
    LET stopped == {"partial", "failed", "timed_out", "cancelled"} IN
    [s \in QueryRunStatus |->
        CASE s = "accepted" -> stopped \cup {"initial_answers_running"}
          [] s = "initial_answers_running" ->
                 stopped \cup {"debate_round_1_running", "completed"}
          [] s = "debate_round_1_running" -> stopped \cup {"debate_round_2_running"}
          [] s = "debate_round_2_running" -> stopped \cup {"synthesis_running"}
          [] s = "synthesis_running" -> stopped \cup {"completed"}
          [] OTHER -> {}]

Downstream == {"debate_round_1", "debate_round_2", "synthesis"}
Stages == {"estimate", "initial_answers"} \cup Downstream
StageState == {"pending", "running", "completed", "failed", "skipped"}
BillableStage == {"debate", "synthesis"}
StageBillingState == {"not_entered", "entered", "recorded"}

InitialProgress == [s \in Stages |-> IF s = "estimate" THEN "completed" ELSE "pending"]

\* Progress p with every stage of S in state st.
Mark(p, S, st) == [s \in Stages |-> IF s \in S THEN st ELSE p[s]]

\* The stage a cancel or a crash is blamed on: the running one, else "estimate".
RunningStage(p) ==
    IF \E s \in Stages : p[s] = "running"
    THEN {CHOOSE s \in Stages : p[s] = "running"}
    ELSE {"estimate"}

AllSlots == 1..PanelSize
SlotsOf(r) == IF r \in QuickRuns THEN {1} ELSE AllSlots

Present(r) == status[r] \in QueryRunStatus
IsActive(r) == status[r] \in ActiveStatuses
IsTerminal(r) == status[r] \in TERMINAL_STATUSES

\* _should_stop: cancelled, or gone from the repository.
Stopped(r) == status[r] = "cancelled" \/ ~Present(r)

Legacy(r) == Owner[r] \in LegacyAccounts

\* Mutant: the key is not blanked for a run whose charge was refused.
CanSpendUncharged(r) == LiveExecution /\ ServerKey

\* The key reaches the provider only for a run whose charge was recorded.
CanSpend(r) == LiveExecution /\ ServerKey /\ charge[r] = "recorded"

\* Mutant: no terminal guard.
UpdateStatusUnguarded(r, st, p) ==
    /\ status' = [status EXCEPT ![r] = st]
    /\ stages' = [stages EXCEPT ![r] = p]
    /\ updatedAt' = [updatedAt EXCEPT ![r] = clock]

\* Mutant: the terminal guard keeps the status but lets the progress through.
UpdateStatusKeepsProgress(r, st, p) ==
    /\ status' = [status EXCEPT ![r] = IF IsTerminal(r) THEN @ ELSE st]
    /\ stages' = [stages EXCEPT ![r] = p]
    /\ updatedAt' = [updatedAt EXCEPT ![r] = clock]

\* update_status: refused whole on a terminal run.
UpdateStatus(r, st, p) ==
    IF IsTerminal(r)
    THEN UNCHANGED <<status, stages, updatedAt>>
    ELSE /\ status' = [status EXCEPT ![r] = st]
         /\ stages' = [stages EXCEPT ![r] = p]
         /\ updatedAt' = [updatedAt EXCEPT ![r] = clock]

\* update_status(..., allow_terminal=True): a stage stamp on a finished run.
Annotate(r, p) ==
    /\ stages' = [stages EXCEPT ![r] = p]
    /\ updatedAt' = [updatedAt EXCEPT ![r] = clock]
    /\ UNCHANGED status

\* transition: refused unless ALLOWED_TRANSITIONS has the step.
MayTransition(r, st) == Present(r) /\ st \in ALLOWED_TRANSITIONS[status[r]]
Transition(r, st) ==
    /\ status' = [status EXCEPT ![r] = st]
    /\ updatedAt' = [updatedAt EXCEPT ![r] = clock]
    /\ UNCHANGED stages

Goto(r, pc) == worker' = [worker EXCEPT ![r] = pc]
At(r, pc) == worker[r] = pc /\ Present(r)

-----------------------------------------------------------------------------
(* The POST handler: permit, create, charge, start.  Everything before the  *)
(* permit is read-only for a run, so a request starts where it asks for one. *)

Ask(r, pc) == request' = [request EXCEPT ![r] = pc]

TakePermit(r) ==
    /\ request[r] = "idle"
    /\ Legacy(r) \/ permits > 0
    /\ permits' = IF Legacy(r) THEN permits ELSE permits - 1
    /\ Ask(r, "reserved")
    /\ UNCHANGED <<repository, money, pool, pipeline, canceller, clock>>

\* No permit: 503 RUN_CAPACITY_EXCEEDED.
RefuseForCapacity(r) ==
    /\ request[r] = "idle"
    /\ ~Legacy(r) /\ permits = 0
    /\ Ask(r, "refused")
    /\ UNCHANGED <<repository, money, pool, pipeline, canceller, permits, clock>>

\* Mutant: a run that was created but not started does not hold the account's slot.
HasStartedRun(a) == \E q \in Runs : Owner[q] = a /\ IsActive(q) /\ status[q] # "accepted"

HasActiveRun(a) == \E q \in Runs : Owner[q] = a /\ IsActive(q)

CreateRun(r) ==
    /\ request[r] = "reserved"
    /\ ~HasActiveRun(Owner[r])
    /\ status' = [status EXCEPT ![r] = "accepted"]
    /\ stages' = [stages EXCEPT ![r] = InitialProgress]
    /\ updatedAt' = [updatedAt EXCEPT ![r] = clock]
    /\ Ask(r, "created")
    /\ UNCHANGED <<answers, billing, recorded, money, pool, pipeline,
                   canceller, permits, clock>>

\* 409 ACTIVE_QUERY_EXISTS, or the admit callback's refusal of a late run.
RefuseAtCreate(r) ==
    /\ request[r] = "reserved"
    /\ Ask(r, "unwinding")
    /\ UNCHANGED <<repository, money, pool, pipeline, canceller, permits, clock>>

ChargeOutcome == {"recorded", "over_daily_cap", "over_global_ceiling", "metering_unavailable"}

\* _record_run_billing; over the daily cap is a 402 and the run never starts.
ChargeRun(r) ==
    /\ request[r] = "created"
    /\ \E outcome \in ChargeOutcome :
        /\ charge' = [charge EXCEPT ![r] = outcome]
        /\ Ask(r, IF outcome = "over_daily_cap" THEN "abandoning"
                  ELSE IF outcome = "recorded" THEN "starting" ELSE "marking")
    /\ UNCHANGED <<repository, bill, paid, calls, judging, pool, pipeline,
                   canceller, permits, clock>>

\* The ledger call raised, before or after the charge was written.
ChargeRaises(r) ==
    /\ request[r] = "created"
    /\ \E outcome \in {"none", "recorded"} : charge' = [charge EXCEPT ![r] = outcome]
    /\ Ask(r, IF Legacy(r) THEN "unwinding" ELSE "voiding")
    /\ UNCHANGED <<repository, bill, paid, calls, judging, pool, pipeline,
                   canceller, permits, clock>>

\* mark_global_ceiling_reached / mark_spend_metering_unavailable.
MarkDegraded(r) ==
    /\ request[r] = "marking"
    /\ IF Present(r)
       THEN /\ updatedAt' = [updatedAt EXCEPT ![r] = clock]
            /\ Ask(r, "starting")
       ELSE /\ Ask(r, IF Legacy(r) THEN "unwinding" ELSE "voiding")
            /\ UNCHANGED updatedAt
    /\ UNCHANGED <<status, stages, answers, billing, recorded, money, pool,
                   pipeline, canceller, permits, clock>>

\* Thread(...).start(); the legacy path runs the pipeline in the handler.
StartWorker(r) ==
    /\ request[r] = "starting"
    /\ Goto(r, "begin")
    /\ Ask(r, "done")
    /\ UNCHANGED <<repository, money, pool, cursor, cut, timedOut,
                   canceller, permits, clock>>

\* Thread.start() raised: there will be no worker.
ThreadFailsToStart(r) ==
    /\ request[r] = "starting"
    /\ ~Legacy(r)
    /\ Ask(r, "voiding")
    /\ UNCHANGED <<repository, money, pool, pipeline, canceller, permits, clock>>

VoidCharge(r) ==
    /\ request[r] = "voiding"
    /\ charge' = [charge EXCEPT ![r] = "voided"]
    /\ Ask(r, "abandoning")
    /\ UNCHANGED <<repository, bill, paid, calls, judging, pool, pipeline,
                   canceller, permits, clock>>

\* Mutant: the unstarted run is left as it was.
AbandonRunSilently(r) ==
    /\ request[r] = "abandoning"
    /\ Ask(r, "unwinding")
    /\ UNCHANGED <<repository, money, pool, pipeline, canceller, permits, clock>>

\* _abandon_unstarted_run: FAILED, unless a cancel got there first.
AbandonRun(r) ==
    /\ request[r] = "abandoning"
    /\ IF MayTransition(r, "failed")
       THEN Transition(r, "failed")
       ELSE UNCHANGED <<status, stages, updatedAt>>
    /\ Ask(r, "unwinding")
    /\ UNCHANGED <<answers, billing, recorded, money, pool, pipeline,
                   canceller, permits, clock>>

\* Mutant: a refused request keeps its permit.
ReturnPermitForgotten(r) ==
    /\ request[r] = "unwinding"
    /\ Ask(r, "refused")
    /\ UNCHANGED <<repository, money, pool, pipeline, canceller, permits, clock>>

\* The handler's except clause gives the permit back.
ReturnPermitUnused(r) ==
    /\ request[r] = "unwinding"
    /\ permits' = IF Legacy(r) THEN permits ELSE permits + 1
    /\ Ask(r, "refused")
    /\ UNCHANGED <<repository, money, pool, pipeline, canceller, clock>>

RequestStep(r) ==
    \/ TakePermit(r) \/ RefuseForCapacity(r)
    \/ CreateRun(r) \/ RefuseAtCreate(r)
    \/ ChargeRun(r) \/ ChargeRaises(r) \/ MarkDegraded(r)
    \/ StartWorker(r) \/ ThreadFailsToStart(r)
    \/ VoidCharge(r) \/ AbandonRun(r) \/ ReturnPermitUnused(r)

-----------------------------------------------------------------------------
(* The DELETE handler *)

\* Mutant: the handler goes on to stamp the progress of a run that it could
\* not cancel because it was finished.
UserCancelsFinishedRun(r) ==
    /\ canceller[r] = "idle" /\ Present(r)
    /\ IF MayTransition(r, "cancelled")
       THEN Transition(r, "cancelled")
       ELSE UNCHANGED <<status, stages, updatedAt>>
    /\ canceller' = [canceller EXCEPT ![r] = "stamping"]
    /\ UNCHANGED <<answers, billing, recorded, money, pool, pipeline,
                   request, permits, clock>>

UserCancels(r) ==
    /\ canceller[r] = "idle"
    /\ MayTransition(r, "cancelled")
    /\ Transition(r, "cancelled")
    /\ canceller' = [canceller EXCEPT ![r] = "stamping"]
    /\ UNCHANGED <<answers, billing, recorded, money, pool, pipeline,
                   request, permits, clock>>

\* Stamp the stage that was in flight as SKIPPED.
CancelStampsStage(r) ==
    /\ canceller[r] = "stamping"
    /\ IF Present(r)
       THEN Annotate(r, Mark(stages[r], RunningStage(stages[r]), "skipped"))
       ELSE UNCHANGED <<status, stages, updatedAt>>
    /\ canceller' = [canceller EXCEPT ![r] = "done"]
    /\ UNCHANGED <<answers, billing, recorded, money, pool, pipeline,
                   request, permits, clock>>

-----------------------------------------------------------------------------
(* The initial-answer pool *)

Answered == {"live", "local", "failed"}     \* futures that hold an answer
Settled == Answered \cup {"raised", "timeout"}
Busy == {t \in Runs \X AllSlots : tasks[t[1]][t[2]] = "calling"}

\* A pool thread picks the slot up: a stopped run's slot makes no call.
SlotStarts(r, s) ==
    /\ tasks[r][s] = "queued"
    /\ Cardinality(Busy) < PoolSize
    /\ IF Stopped(r)
       THEN /\ tasks' = [tasks EXCEPT ![r][s] = "failed"]
            /\ UNCHANGED paid
       ELSE /\ tasks' = [tasks EXCEPT ![r][s] = "calling"]
            /\ paid' = IF CanSpend(r) THEN [paid EXCEPT ![r] = @ \cup {s}] ELSE paid
    /\ UNCHANGED <<repository, charge, bill, calls, judging, expired, pipeline,
                   request, canceller, permits, clock>>

\* Only a dispatched call can come back as a live answer.
SlotFinishes(r, s) ==
    /\ tasks[r][s] = "calling"
    /\ \E outcome \in Settled :
        /\ outcome = "live" => s \in paid[r]
        /\ tasks' = [tasks EXCEPT ![r][s] = outcome]
    /\ UNCHANGED <<repository, money, expired, pipeline,
                   request, canceller, permits, clock>>

BudgetExpires(r) ==
    /\ worker[r] \notin {"none", "persist", "release", "done"}
    /\ ~expired[r]
    /\ expired' = [expired EXCEPT ![r] = TRUE]
    /\ UNCHANGED <<repository, money, tasks, pipeline,
                   request, canceller, permits, clock>>

-----------------------------------------------------------------------------
(* The pipeline worker: _execute_query_run, one repository call per step.  *)
(* A step that returns from the pipeline goes to "persist".                *)

\* A pipeline write of status and progress, then on to pc.
WriteAndGo(r, from, st, p, pc) ==
    /\ At(r, from)
    /\ UpdateStatus(r, st, p)
    /\ Goto(r, pc)
    /\ UNCHANGED <<answers, billing, recorded, money, pool, cursor, cut, timedOut,
                   request, canceller, permits, clock>>

\* A write that ends the run: only the party whose write landed stamps the rest.
EndAndGo(r, from, st, p, pc) ==
    WriteAndGo(r, from, st, p, IF IsTerminal(r) THEN "persist" ELSE pc)

\* _degrade_run_for_deadline: TIMED_OUT through the validated transition.
DegradeForDeadline(r, late) ==
    IF MayTransition(r, "timed_out")
    THEN Transition(r, "timed_out") /\ Goto(r, late)
    ELSE UNCHANGED <<status, stages, updatedAt>> /\ Goto(r, "persist")

\* Live execution without a server key: the run fails before any answer.
FailWithoutKey(r) ==
    /\ LiveExecution /\ ~ServerKey
    /\ EndAndGo(r, "begin", "failed", Mark(stages[r], {"initial_answers"}, "failed"),
                "skip_downstream")

StartAnswers(r) ==
    /\ At(r, "begin")
    /\ LiveExecution => ServerKey
    /\ UpdateStatus(r, "initial_answers_running",
                    Mark(stages[r], {"initial_answers"}, "running"))
    /\ tasks' = [tasks EXCEPT ![r] =
                    [s \in AllSlots |-> IF s \in SlotsOf(r) THEN "queued" ELSE "unused"]]
    /\ cursor' = [cursor EXCEPT ![r] = 1]
    /\ Goto(r, "collect")
    /\ UNCHANGED <<answers, billing, recorded, money, expired, cut, timedOut,
                   request, canceller, permits, clock>>

Collecting(r) == At(r, "collect") /\ cursor[r] \in SlotsOf(r)
Awaited(r) == tasks[r][cursor[r]]

\* future.result() answered; a stopped run returns before recording it.
CollectAnswer(r) ==
    /\ Collecting(r)
    /\ Awaited(r) \in Answered
    /\ Goto(r, IF Stopped(r) THEN "persist" ELSE "record")
    /\ UNCHANGED <<repository, money, pool, cursor, cut, timedOut,
                   request, canceller, permits, clock>>

\* The future raised (a timeout of its own included, while budget is left).
SkipRaisedSlot(r) ==
    /\ Collecting(r)
    /\ Awaited(r) = "raised" \/ (Awaited(r) = "timeout" /\ ~expired[r])
    /\ cursor' = [cursor EXCEPT ![r] = @ + 1]
    /\ UNCHANGED <<repository, money, pool, worker, cut, timedOut,
                   request, canceller, permits, clock>>

\* The budget ran out on a future that is not done: a deadline answer.
CutSlotAtDeadline(r) ==
    /\ Collecting(r)
    /\ expired[r]
    /\ Awaited(r) \notin Answered \cup {"raised"}
    /\ cut' = [cut EXCEPT ![r] = @ \cup {cursor[r]}]
    /\ Goto(r, IF Stopped(r) THEN "persist" ELSE "record")
    /\ UNCHANGED <<repository, money, pool, cursor, timedOut,
                   request, canceller, permits, clock>>

\* Mutant: the answer is recorded without bumping updated_at.
RecordAnswerUnstamped(r) ==
    /\ At(r, "record")
    /\ answers' = [answers EXCEPT ![r][cursor[r]] =
                      IF cursor[r] \in cut[r] THEN "cut" ELSE Awaited(r)]
    /\ cursor' = [cursor EXCEPT ![r] = @ + 1]
    /\ Goto(r, "collect")
    /\ UNCHANGED <<status, stages, billing, recorded, updatedAt, money, pool, cut, timedOut,
                   request, canceller, permits, clock>>

\* record_initial_answer has no terminal guard.
RecordAnswer(r) ==
    /\ At(r, "record")
    /\ answers' = [answers EXCEPT ![r][cursor[r]] =
                      IF cursor[r] \in cut[r] THEN "cut" ELSE Awaited(r)]
    /\ updatedAt' = [updatedAt EXCEPT ![r] = clock]
    /\ cursor' = [cursor EXCEPT ![r] = @ + 1]
    /\ Goto(r, "collect")
    /\ UNCHANGED <<status, stages, billing, recorded, money, pool, cut, timedOut,
                   request, canceller, permits, clock>>

Collected(r) == At(r, "collect") /\ cursor[r] \notin SlotsOf(r)
Usable(r) == \E s \in SlotsOf(r) : answers[r][s] \in {"live", "local"}

EndAtDeadline(r) ==
    /\ Collected(r)
    /\ cut[r] # {}
    /\ DegradeForDeadline(r, "late_answers")
    /\ UNCHANGED <<answers, billing, recorded, money, pool, cursor, cut, timedOut,
                   request, canceller, permits, clock>>

EndWithoutAnswers(r) ==
    /\ Collected(r)
    /\ cut[r] = {} /\ ~Usable(r)
    /\ EndAndGo(r, "collect", "partial", Mark(stages[r], {"initial_answers"}, "failed"),
                "skip_downstream")

QuickSkipsStages(r) ==
    /\ Collected(r)
    /\ r \in QuickRuns /\ cut[r] = {} /\ Usable(r)
    /\ WriteAndGo(r, "collect", status[r], Mark(stages[r], Downstream, "skipped"), "quick")

QuickCompletes(r) ==
    WriteAndGo(r, "quick", "completed", Mark(stages[r], {"initial_answers"}, "completed"),
               "persist")

LeaveAnswers(r) ==
    /\ Collected(r)
    /\ r \notin QuickRuns /\ cut[r] = {} /\ Usable(r)
    /\ WriteAndGo(r, "collect", "debate_round_1_running",
                  Mark(stages[r], {"initial_answers"}, "completed"), "round_1")

\* A stage is announced with a progress write, then a stop and budget check.
AnnounceStage(r, from, stage, pc) ==
    WriteAndGo(r, from, status[r], Mark(stages[r], {stage}, "running"), pc)

StageGate(r, from, late, pc) ==
    /\ At(r, from)
    /\ IF Stopped(r) \/ ~expired[r]
       THEN /\ Goto(r, IF Stopped(r) THEN "persist" ELSE pc)
            /\ UNCHANGED <<status, stages, updatedAt>>
       ELSE DegradeForDeadline(r, late)
    /\ UNCHANGED <<answers, billing, recorded, money, pool, cursor, cut, timedOut,
                   request, canceller, permits, clock>>

\* Mutant: the stage makes its calls without having marked itself entered.
EnterStageUnmarked(r, from, b, pc) ==
    /\ At(r, from)
    /\ Goto(r, pc)
    /\ UNCHANGED <<repository, money, pool, cursor, cut, timedOut,
                   request, canceller, permits, clock>>

\* mark_billable_stage_entered: before the stage may make a billed call.
EnterStage(r, from, b, pc) ==
    /\ At(r, from)
    /\ billing' = [billing EXCEPT ![r][b] = "entered"]
    /\ updatedAt' = [updatedAt EXCEPT ![r] = clock]
    /\ Goto(r, pc)
    /\ UNCHANGED <<status, stages, answers, recorded, money, pool, cursor, cut, timedOut,
                   request, canceller, permits, clock>>

\* The stage's provider calls; every one is gated by should_stop and the key.
MakeCalls(r, from, b, pcs) ==
    /\ At(r, from)
    /\ \E n \in 0..1 :
        /\ n > 0 => ~Stopped(r) /\ CanSpend(r)
        /\ calls' = [calls EXCEPT ![r][b] = @ + n]
    /\ \E pc \in pcs :
        /\ Goto(r, pc)
        /\ timedOut' = [timedOut EXCEPT ![r] = @ \/ pc = "round_2_skipped"]
    /\ UNCHANGED <<repository, charge, bill, paid, judging, pool, cursor, cut,
                   request, canceller, permits, clock>>

\* A stopped run that billed nothing is not recorded; anything billed is.
StageReturns(r, from, b, pc) ==
    /\ At(r, from)
    /\ Goto(r, IF Stopped(r) /\ calls[r][b] = 0 THEN "persist" ELSE pc)
    /\ UNCHANGED <<repository, money, pool, cursor, cut, timedOut,
                   request, canceller, permits, clock>>

\* record_debate_outputs / record_final_synthesis: no terminal guard.
RecordStage(r, from, b, pc) ==
    /\ At(r, from)
    /\ billing' = [billing EXCEPT ![r][b] = "recorded"]
    /\ recorded' = [recorded EXCEPT ![r][b] = calls[r][b]]
    /\ updatedAt' = [updatedAt EXCEPT ![r] = clock]
    /\ Goto(r, pc)
    /\ UNCHANGED <<status, stages, answers, money, pool, cursor, cut, timedOut,
                   request, canceller, permits, clock>>

Debate(r) ==
    \/ AnnounceStage(r, "round_1", "debate_round_1", "round_1_gate")
    \/ StageGate(r, "round_1_gate", "late_debate", "enter_debate")
    \/ EnterStage(r, "enter_debate", "debate", "debating_1")
    \/ MakeCalls(r, "debating_1", "debate", {"announce_2", "round_2_skipped"})
    \/ WriteAndGo(r, "announce_2", "debate_round_2_running",
                  Mark(stages[r], {"debate_round_1"}, "completed"), "round_2")
    \/ AnnounceStage(r, "round_2", "debate_round_2", "debating_2")
    \/ MakeCalls(r, "debating_2", "debate", {"debated"})
    \/ \E from \in {"debated", "round_2_skipped"} :
           StageReturns(r, from, "debate", "record_debate")
    \/ RecordStage(r, "record_debate", "debate", "leave_round_1")

LeaveDebate(r) ==
    \/ WriteAndGo(r, "leave_round_1", "debate_round_2_running",
                  Mark(stages[r], {"debate_round_1"}, "completed"),
                  IF timedOut[r] THEN "round_2_late" ELSE "leave_round_2")
    \/ EndAndGo(r, "round_2_late", "partial",
                Mark(stages[r], {"debate_round_2"}, "failed"), "skip_synthesis")
    \/ WriteAndGo(r, "leave_round_2", "synthesis_running",
                  Mark(stages[r], {"debate_round_2"}, "completed"),
                  IF Stopped(r) THEN "persist" ELSE "synthesis")

Synthesis(r) ==
    \/ AnnounceStage(r, "synthesis", "synthesis", "synthesis_gate")
    \/ StageGate(r, "synthesis_gate", "late_synthesis", "enter_synthesis")
    \/ EnterStage(r, "enter_synthesis", "synthesis", "synthesizing")
    \/ MakeCalls(r, "synthesizing", "synthesis", {"synthesized"})
    \/ StageReturns(r, "synthesized", "synthesis", "record_synthesis")
    \/ RecordStage(r, "record_synthesis", "synthesis", "complete")
    \/ WriteAndGo(r, "complete", "completed", Mark(stages[r], {"synthesis"}, "completed"),
                  "persist")

\* The stamps a worker owes a run it has itself just ended.
StampPcs ==
    {"skip_downstream", "skip_synthesis", "late_answers", "late_debate", "late_synthesis"}

OwedStamps(p, pc) ==
    CASE pc = "skip_downstream" -> Mark(p, Downstream, "skipped")
      [] pc = "skip_synthesis" -> Mark(p, {"synthesis"}, "skipped")
      [] pc = "late_answers" ->
             Mark(Mark(p, {"initial_answers"}, "failed"), Downstream, "skipped")
      [] pc = "late_debate" ->
             Mark(Mark(p, {"debate_round_1"}, "failed"),
                  {"debate_round_2", "synthesis"}, "skipped")
      [] OTHER -> Mark(p, {"synthesis"}, "failed")

StampEndedRun(r) ==
    /\ worker[r] \in StampPcs /\ Present(r)
    /\ Annotate(r, OwedStamps(stages[r], worker[r]))
    /\ Goto(r, "persist")
    /\ UNCHANGED <<answers, billing, recorded, money, pool, cursor, cut, timedOut,
                   request, canceller, permits, clock>>

\* Calls into the services are where an unexpected exception comes from.
ServicePcs == {"begin", "debating_1", "debating_2", "synthesizing"}

\* _execute_query_run_safely: FAILED on the running stage.  The legacy path
\* has no such wrapper; the exception reaches the client.
WorkerRaises(r) ==
    /\ worker[r] \in ServicePcs /\ Present(r)
    /\ IF Legacy(r)
       THEN UNCHANGED <<status, stages, updatedAt>>
       ELSE UpdateStatus(r, "failed", Mark(stages[r], RunningStage(stages[r]), "failed"))
    /\ Goto(r, IF Legacy(r) THEN "done" ELSE "persist")
    /\ UNCHANGED <<answers, billing, recorded, money, pool, cursor, cut, timedOut,
                   request, canceller, permits, clock>>

\* The run was purged: every repository call raises KeyError.
WorkerFindsRunGone(r) ==
    /\ worker[r] \notin {"none", "persist", "release", "done"} /\ ~Present(r)
    /\ Goto(r, IF Legacy(r) THEN "done" ELSE "persist")
    /\ UNCHANGED <<repository, money, pool, cursor, cut, timedOut,
                   request, canceller, permits, clock>>

-----------------------------------------------------------------------------
(* The judge of a finished run, paid for by whoever reads it first: a poll, *)
(* or the worker before it settles.  JudgeMemo has the readers' locks.      *)

JudgeAsked == {"worker_asks", "reader_asks"}    \* a call is out, and whose it is
JudgeKnown == {"captured", "uncaptured"}        \* it is over: is its cost known?

\* _request_path_judge: not what was cancelled, may not spend, or shows no
\* answer of a model.
Judged(r) ==
    /\ JudgeConfigured
    /\ status[r] \in TERMINAL_STATUSES \ {"cancelled", "blocked_by_cost"}
    /\ charge[r] \notin {"over_global_ceiling", "metering_unavailable"}
    /\ \E s \in SlotsOf(r) : answers[r][s] = "live"

\* A reader finds no verdict and nobody asking for one, and the rails let it pay.
CallJudge(r) ==
    /\ Judged(r)
    /\ judge[r] = "none" /\ judgeCalls[r] < MaxJudgeCalls
    /\ \E caller \in JudgeAsked :
        /\ caller = "worker_asks" => worker[r] = "persist"
        /\ judge' = [judge EXCEPT ![r] = caller]
    /\ judgeCalls' = [judgeCalls EXCEPT ![r] = @ + 1]
    /\ UNCHANGED <<repository, charge, bill, paid, calls, booked, lapsed, pool, pipeline,
                   request, canceller, permits, clock>>

\* Whatever came back is memoised; its cost is known if the usage came with it,
\* or if the provider refused the call unbilled.
JudgeAnswers(r) ==
    /\ judge[r] \in JudgeAsked
    /\ \E known \in JudgeKnown : judge' = [judge EXCEPT ![r] = known]
    /\ UNCHANGED <<repository, charge, bill, paid, calls, judgeCalls, booked, lapsed, pool,
                   pipeline, request, canceller, permits, clock>>

\* The verdicts of other runs push this one out of the memo.
VerdictEvicted(r) ==
    /\ judge[r] \in JudgeKnown
    /\ judge' = [judge EXCEPT ![r] = "none"]
    /\ lapsed' = [lapsed EXCEPT ![r] = TRUE]
    /\ UNCHANGED <<repository, charge, bill, paid, calls, judgeCalls, booked, pool, pipeline,
                   request, canceller, permits, clock>>

JudgeStep(r) == CallJudge(r) \/ JudgeAnswers(r) \/ VerdictEvicted(r)

\* The worker's own evaluation goes without a verdict: the rails refuse, the
\* reader it waits for is too slow, or is gone without an answer.
Unanswered(r) == judge[r] \in JudgeAsked \/ (judge[r] = "none" /\ Judged(r))

-----------------------------------------------------------------------------
(* The receipt                                                             *)

\* _actual_cost of the pipeline: every slot and every stage is captured.
PipelineCaptured(r) ==
    /\ \A s \in SlotsOf(r) : answers[r][s] = "live"
    /\ \A b \in BillableStage : billing[r][b] # "entered"

\* _actual_cost: measured only if the verdict the memo holds is captured, too.
Measured(r) == PipelineCaptured(r) /\ judge[r] # "uncaptured"

\* _reconcile_run_billing: a measured cost is booked, the judge's with it.
SettleReceipt(r) ==
    IF IsTerminal(r)
    THEN /\ bill' = [bill EXCEPT ![r] = IF Measured(r) THEN "measured" ELSE "estimated"]
         /\ booked' = [booked EXCEPT ![r] = IF Measured(r) /\ judge[r] = "captured" THEN 1 ELSE 0]
    ELSE UNCHANGED <<bill, booked>>

\* Mutant: the receipt is settled before the run is evaluated.
PersistRunUnjudged(r) ==
    /\ worker[r] = "persist"
    /\ SettleReceipt(r)
    /\ Goto(r, IF Legacy(r) THEN "done" ELSE "release")
    /\ UNCHANGED <<repository, charge, paid, calls, judge, judgeCalls, lapsed, pool, cursor, cut,
                   timedOut, request, canceller, permits, clock>>

\* _persist_terminal_run settles the receipt of a run that is terminal, once it
\* has evaluated it: a verdict it asks for itself it waits for.
PersistRun(r) ==
    /\ worker[r] = "persist"
    /\ judge[r] # "worker_asks"
    /\ SettleReceipt(r)
    /\ lapsed' = [lapsed EXCEPT ![r] = @ \/ Unanswered(r)]
    /\ Goto(r, IF Legacy(r) THEN "done" ELSE "release")
    /\ UNCHANGED <<repository, charge, paid, calls, judge, judgeCalls, pool, cursor, cut, timedOut,
                   request, canceller, permits, clock>>

ReleasePermit(r) ==
    /\ worker[r] = "release"
    /\ permits' = permits + 1
    /\ Goto(r, "done")
    /\ UNCHANGED <<repository, money, pool, cursor, cut, timedOut,
                   request, canceller, clock>>

WorkerStep(r) ==
    \/ FailWithoutKey(r) \/ StartAnswers(r)
    \/ CollectAnswer(r) \/ SkipRaisedSlot(r) \/ CutSlotAtDeadline(r) \/ RecordAnswer(r)
    \/ EndAtDeadline(r) \/ EndWithoutAnswers(r) \/ LeaveAnswers(r)
    \/ QuickSkipsStages(r) \/ QuickCompletes(r)
    \/ Debate(r) \/ LeaveDebate(r) \/ Synthesis(r)
    \/ StampEndedRun(r) \/ WorkerRaises(r) \/ WorkerFindsRunGone(r)
    \/ PersistRun(r) \/ ReleasePermit(r)

-----------------------------------------------------------------------------
(* The repository's TTL purge and the clock *)

\* No thread will touch the run again.
Unattended(r) ==
    /\ worker[r] \in {"none", "done"}
    /\ request[r] \in {"refused", "done"}
    /\ canceller[r] # "stamping"

\* _purge_expired_locked, from whichever repository call comes next.
PurgeRun(r) ==
    /\ Present(r)
    /\ Unattended(r) \/ WorkersOutliveTtl
    /\ status' = [status EXCEPT ![r] = "purged"]
    /\ UNCHANGED <<stages, answers, billing, recorded, updatedAt, money, pool,
                   pipeline, request, canceller, permits, clock>>

Tick ==
    /\ clock < MaxClock
    /\ clock' = clock + 1
    /\ UNCHANGED <<repository, money, pool, pipeline, request, canceller, permits>>

-----------------------------------------------------------------------------
Init ==
    /\ status = [r \in Runs |-> "absent"]
    /\ stages = [r \in Runs |-> InitialProgress]
    /\ answers = [r \in Runs |-> [s \in AllSlots |-> "none"]]
    /\ billing = [r \in Runs |-> [b \in BillableStage |-> "not_entered"]]
    /\ recorded = [r \in Runs |-> [b \in BillableStage |-> 0]]
    /\ updatedAt = [r \in Runs |-> 0]
    /\ charge = [r \in Runs |-> "none"]
    /\ bill = [r \in Runs |-> "open"]
    /\ paid = [r \in Runs |-> {}]
    /\ calls = [r \in Runs |-> [b \in BillableStage |-> 0]]
    /\ judge = [r \in Runs |-> "none"]
    /\ judgeCalls = [r \in Runs |-> 0]
    /\ booked = [r \in Runs |-> 0]
    /\ lapsed = [r \in Runs |-> FALSE]
    /\ tasks = [r \in Runs |-> [s \in AllSlots |-> "unused"]]
    /\ expired = [r \in Runs |-> FALSE]
    /\ worker = [r \in Runs |-> "none"]
    /\ cursor = [r \in Runs |-> 1]
    /\ cut = [r \in Runs |-> {}]
    /\ timedOut = [r \in Runs |-> FALSE]
    /\ request = [r \in Runs |-> "idle"]
    /\ canceller = [r \in Runs |-> "idle"]
    /\ permits = Capacity
    /\ clock = 0

RunStep(r) ==
    \/ RequestStep(r) \/ WorkerStep(r)
    \/ UserCancels(r) \/ CancelStampsStage(r)
    \/ \E s \in AllSlots : SlotStarts(r, s) \/ SlotFinishes(r, s)
    \/ BudgetExpires(r) \/ PurgeRun(r) \/ JudgeStep(r)

Next == Tick \/ \E r \in Runs : RunStep(r)

Spec == Init /\ [][Next]_vars

\* Threads that are running keep running; provider calls time out; the
\* deadline clock advances.  Users need not submit, cancel or come back.
Fairness ==
    \A r \in Runs :
        /\ WF_vars(request[r] # "idle" /\ RequestStep(r))
        /\ WF_vars(WorkerStep(r))
        /\ WF_vars(CancelStampsStage(r))
        /\ WF_vars(BudgetExpires(r))
        /\ WF_vars(JudgeAnswers(r))
        /\ \A s \in AllSlots : WF_vars(SlotFinishes(r, s))

FairSpec == Spec /\ Fairness

-----------------------------------------------------------------------------
(* Properties *)

WorkerPcs ==
    {"none", "begin", "collect", "record", "quick", "round_1", "round_1_gate",
     "enter_debate", "debating_1", "announce_2", "round_2", "debating_2", "debated",
     "round_2_skipped", "record_debate", "leave_round_1", "round_2_late",
     "leave_round_2", "synthesis", "synthesis_gate", "enter_synthesis",
     "synthesizing", "synthesized", "record_synthesis", "complete",
     "persist", "release", "done"} \cup StampPcs

RequestPcs ==
    {"idle", "reserved", "created", "marking", "starting", "voiding", "abandoning",
     "unwinding", "refused", "done"}

\* Every variable has its type.
TypeOK ==
    /\ status \in [Runs -> QueryRunStatus \cup {"absent", "purged"}]
    /\ stages \in [Runs -> [Stages -> StageState]]
    /\ answers \in [Runs -> [AllSlots -> {"none", "cut"} \cup Settled]]
    /\ billing \in [Runs -> [BillableStage -> StageBillingState]]
    /\ recorded \in [Runs -> [BillableStage -> Nat]]
    /\ updatedAt \in [Runs -> Nat]
    /\ charge \in [Runs -> ChargeOutcome \cup {"none", "voided"}]
    /\ bill \in [Runs -> {"open", "estimated", "measured"}]
    /\ paid \in [Runs -> SUBSET AllSlots]
    /\ calls \in [Runs -> [BillableStage -> Nat]]
    /\ judge \in [Runs -> {"none"} \cup JudgeAsked \cup JudgeKnown]
    /\ judgeCalls \in [Runs -> Nat]
    /\ booked \in [Runs -> Nat]
    /\ lapsed \in [Runs -> BOOLEAN]
    /\ tasks \in [Runs -> [AllSlots -> {"unused", "queued", "calling"} \cup Settled]]
    /\ expired \in [Runs -> BOOLEAN]
    /\ worker \in [Runs -> WorkerPcs]
    /\ cursor \in [Runs -> Nat]
    /\ cut \in [Runs -> SUBSET Nat]
    /\ timedOut \in [Runs -> BOOLEAN]
    /\ request \in [Runs -> RequestPcs]
    /\ canceller \in [Runs -> {"idle", "stamping", "done"}]
    /\ permits \in Nat
    /\ clock \in Nat

\* InMemoryQueryRunRepository.create: an account has at most one non-terminal
\* run, whatever its workers, cancels and purges do to the older ones.
OneActiveRunPerAccount ==
    \A q, r \in Runs :
        (Owner[q] = Owner[r] /\ IsActive(q) /\ IsActive(r)) => q = r

\* update_status and transition: the status of a finished run never changes
\* again (it can only be purged), though its worker may still be running.
StatusKept == \A r \in Runs : IsTerminal(r) => status'[r] \in {status[r], "purged"}

TerminalIsFinal == [][StatusKept]_vars

\* The permits of _run_semaphore are exactly accounted for by the requests
\* still holding one and the workers they handed one to: none leaks on a
\* refusal, a failed thread start or a crashed pipeline, none comes back twice.
HoldsPermit(r) ==
    /\ ~Legacy(r)
    /\ \/ request[r] \in RequestPcs \ {"idle", "refused", "done"}
       \/ worker[r] \notin {"none", "done"}

PermitsAccountedFor ==
    permits + Cardinality({r \in Runs : HoldsPermit(r)}) = Capacity

\* A provider call is made only for a run whose estimate is booked in the
\* ledger: not over a cap, not unmetered, and not one whose charge was voided
\* because its worker never started.
NoUnbookedSpend ==
    \A r \in Runs :
        (paid[r] # {} \/ \E b \in BillableStage : calls[r][b] > 0)
            => charge[r] = "recorded"

\* _actual_cost: whenever a receipt reads "measured", at any moment and on any
\* status, every debate and synthesis call made for the run is in it, and
\* every slot's call came back with its usage.  (The judge's calls are the
\* matter of SettledBillStaysTrue.)
MeasuredBillIsExact ==
    \A r \in Runs : (Present(r) /\ Measured(r)) =>
        /\ recorded[r] = calls[r]
        /\ paid[r] = SlotsOf(r)

\* _reconcile_run_billing books a run's cost once.  What it booked as measured
\* stays all that the slots and stages cost: none of them makes another call.
\* And every call of the judge is in it, those that readers pay for later
\* included, unless the run's verdict was evicted from the memo or its worker
\* went without one: then a later reader may pay for a call that no ledger
\* shows (issue #216).
SettledBillStaysTrue ==
    \A r \in Runs : (bill[r] = "measured" /\ Present(r)) =>
        /\ PipelineCaptured(r) /\ recorded[r] = calls[r]
        /\ ~lapsed[r] => judgeCalls[r] = booked[r]

\* Once nobody owes it a stamp, a finished run shows no stage in progress:
\* the two halves of a cancel or a deadline, interleaved with the worker's
\* own progress writes, never leave a spinner behind.
OwesStamp(r) == worker[r] \in StampPcs \/ canceller[r] = "stamping"

\* The stages take turns, whoever ends the run and when: at most one is in
\* progress, none once the run is finished and stamped, and synthesis never
\* starts on a debate whose outputs were not recorded.
StagesTakeTurns ==
    \A r \in Runs :
        /\ \A s, t \in Stages : {stages[r][s], stages[r][t]} = {"running"} => s = t
        /\ IsTerminal(r) /\ ~OwesStamp(r) => \A s \in Stages : stages[r][s] # "running"
        /\ billing[r]["synthesis"] # "not_entered" => billing[r]["debate"] = "recorded"

\* A run shown as completed went through every stage it promised: a cancel
\* or deadline that got in between left some other status.
CompletedRunIsWhole(r) ==
    IF r \in QuickRuns
    THEN /\ stages[r] = Mark(Mark(InitialProgress, {"initial_answers"}, "completed"),
                             Downstream, "skipped")
         /\ Usable(r)
    ELSE /\ stages[r] = [s \in Stages |-> "completed"]
         /\ \A b \in BillableStage : billing[r][b] = "recorded"

\* A run that ended at its deadline serves every answer that was ready: only
\* a slot whose future raised is missing (docs/11, "serving the completed
\* portion").
DeadlineKeepsFinishedAnswers(r) ==
    \A s \in SlotsOf(r) : answers[r][s] = "none" => tasks[r][s] \in {"raised", "timeout"}

\* What a finished run shows is what its status promises, whatever raced its
\* last step: all of it when completed, all that was ready at the deadline.
FinishedRunKeepsItsPromise ==
    \A r \in Runs : /\ status[r] = "completed" => CompletedRunIsWhole(r)
                    /\ status[r] = "timed_out" => DeadlineKeepsFinishedAnswers(r)

\* Every accepted run reaches a terminal state (or is purged): the pipeline's
\* "never stuck" contract, and the request's for a run it could not start.
\* And RUN_CAPACITY_EXCEEDED is temporary: when every permit is taken, one
\* comes back, whatever becomes of the runs that hold them.
EveryRunEndsAndFreesItsPermit ==
    /\ \A r \in Runs : (status[r] = "accepted") ~> (IsTerminal(r) \/ status[r] = "purged")
    /\ (permits = 0) ~> (permits > 0)

\* The key of the evaluation memo, comment: every mutator bumps updated_at, so
\* a cached evaluation is dropped exactly when what it was computed from moves.
EveryChangeIsStamped ==
    [][\A r \in Runs :
        \/ updatedAt'[r] = clock
        \/ status'[r] = "purged"
        \/ UNCHANGED <<status[r], stages[r], answers[r], recorded[r]>>]_vars
=============================================================================
