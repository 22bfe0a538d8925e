--------------------------- MODULE QueryRunsProofs ---------------------------
(* What QueryRuns promises for every number of runs, accounts, slots and    *)
(* permits, proved from RunsAssumption alone.                               *)
EXTENDS QueryRuns, FiniteSetTheorems, TLAPS

\* The three fields of a run that update_status and transition write.
RowType ==
    /\ status \in [Runs -> QueryRunStatus \cup {"absent", "purged"}]
    /\ stages \in [Runs -> [Stages -> StageState]]
    /\ updatedAt \in [Runs -> Nat]

-----------------------------------------------------------------------------
(* The inductive invariant, conjunct by conjunct *)

WorkerIdle == {"none", "persist", "release", "done"}

\* Where the worker is between entering a billable stage and recording it.
OpenStagePcs(b) ==
    IF b = "debate"
    THEN {"debating_1", "announce_2", "round_2", "debating_2", "debated",
          "round_2_skipped", "record_debate"}
    ELSE {"synthesizing", "synthesized", "record_synthesis"}

\* A worker exists only once its POST is over.
WorkerAfterRequest == \A r \in Runs : worker[r] # "none" => request[r] = "done"

\* Before its POST creates it, a run is in nobody's sight.
CreatedByRequest == \A r \in Runs : request[r] \in {"idle", "reserved"} => status[r] = "absent"

\* Nothing was dispatched for a run without a worker.
NothingBeforeWorker ==
    \A r \in Runs : worker[r] = "none" =>
        /\ paid[r] = {}
        /\ \A b \in BillableStage : calls[r][b] = 0
        /\ \A s \in AllSlots : tasks[r][s] = "unused"

\* A worker that is about to record the answer of a slot has one in hand: the
\* future's own, or the deadline's for a slot it cut off.
AnswerInHand ==
    \A r \in Runs : worker[r] = "record" =>
        /\ cursor[r] \in SlotsOf(r)
        /\ cursor[r] \in cut[r] \/ Awaited(r) \in Answered

\* A legacy run never reaches the release of a permit.
LegacyReleasesNothing == \A r \in Runs : worker[r] = "release" => ~Legacy(r)

\* Only a worker that is past its pipeline has settled the receipt.
SettledAfterPipeline ==
    \A r \in Runs : bill[r] # "open" => worker[r] \in {"release", "done"}

\* The capture state of a stage tells which of its calls are in the receipt.
CaptureState ==
    \A r \in Runs : \A b \in BillableStage :
        /\ billing[r][b] = "not_entered" => calls[r][b] = 0 /\ recorded[r][b] = 0
        /\ billing[r][b] = "recorded" => recorded[r][b] = calls[r][b]
        /\ worker[r] \in OpenStagePcs(b) => billing[r][b] = "entered"

\* A live answer is the answer of a dispatched call, for a slot of the run.
LiveAnswersWerePaid ==
    \A r \in Runs :
        /\ paid[r] \subseteq SlotsOf(r)
        /\ \A s \in AllSlots :
            /\ tasks[r][s] # "unused" => s \in SlotsOf(r)
            /\ tasks[r][s] = "live" => s \in paid[r]
            /\ answers[r][s] = "live" => s \in paid[r]

\* A pipeline settled as measured was, and nothing has been added to it since.
MeasuredStays ==
    \A r \in Runs : bill[r] = "measured" => PipelineCaptured(r) /\ recorded[r] = calls[r]

-----------------------------------------------------------------------------
(* Type correctness *)

\* Marking stages in a well-formed progress record keeps it well-formed.
LEMMA MarkType ==
    ASSUME NEW p \in [Stages -> StageState], NEW S, NEW st \in StageState
    PROVE  Mark(p, S, st) \in [Stages -> StageState]
BY DEF Mark

\* The statuses the code writes.
LEMMA StatusNames ==
    /\ {"accepted", "initial_answers_running", "debate_round_1_running",
        "debate_round_2_running", "synthesis_running"} \subseteq QueryRunStatus
    /\ {"completed", "partial", "failed", "timed_out", "cancelled"} \subseteq QueryRunStatus
BY DEF QueryRunStatus, ActiveStatuses, TERMINAL_STATUSES

\* The places the worker goes to.
LEMMA PcNames ==
    /\ {"begin", "collect", "record", "quick", "round_1", "round_1_gate", "enter_debate",
        "debating_1", "announce_2", "round_2", "debating_2", "debated",
        "round_2_skipped"} \subseteq WorkerPcs
    /\ {"record_debate", "leave_round_1", "round_2_late", "leave_round_2", "synthesis",
        "synthesis_gate", "enter_synthesis", "synthesizing", "synthesized",
        "record_synthesis", "complete", "persist", "release", "done"} \subseteq WorkerPcs
    /\ StampPcs \subseteq WorkerPcs
    /\ {"skip_downstream", "skip_synthesis", "late_answers", "late_debate",
        "late_synthesis"} \subseteq WorkerPcs
BY DEF WorkerPcs, StampPcs

\* The three ways to write a row, and leaving it alone, keep its type.
LEMMA RowWriteType ==
    ASSUME TypeOK, NEW r \in Runs, NEW st \in QueryRunStatus,
           NEW p \in [Stages -> StageState],
           \/ Transition(r, st) \/ Annotate(r, p) \/ UpdateStatus(r, st, p)
           \/ UNCHANGED <<status, stages, updatedAt>>
    PROVE  RowType'
<1> USE DEF RowType
<1>0. RowType /\ clock \in Nat
    BY DEF TypeOK
<1>1. CASE Transition(r, st)
    BY <1>0, <1>1 DEF Transition
<1>2. CASE Annotate(r, p)
    BY <1>0, <1>2 DEF Annotate
<1>3. CASE UNCHANGED <<status, stages, updatedAt>>
    BY <1>0, <1>3
<1>4. CASE UpdateStatus(r, st, p)
    <2>1. CASE IsTerminal(r)
        BY <1>0, <1>4, <2>1 DEF UpdateStatus
    <2>2. CASE ~IsTerminal(r)
        BY <1>0, <1>4, <2>2 DEF UpdateStatus
    <2> QED
        BY <2>1, <2>2
<1> QED
    BY <1>1, <1>2, <1>3, <1>4

\* Every write of the worker that goes through update_status is well typed.
LEMMA WriteType ==
    ASSUME TypeOK, NEW r \in Runs, NEW from, NEW st \in QueryRunStatus,
           NEW p \in [Stages -> StageState], NEW pc \in WorkerPcs,
           WriteAndGo(r, from, st, p, pc)
    PROVE  TypeOK'
<1>1. RowType'
    BY RowWriteType DEF WriteAndGo
<1>2. worker' \in [Runs -> WorkerPcs]
    BY DEF WriteAndGo, Goto, TypeOK
<1>3. UNCHANGED <<answers, billing, recorded, money, pool, cursor, cut, timedOut, request,
                  canceller, permits, clock>>
    BY DEF WriteAndGo
<1> QED
    BY <1>1, <1>2, <1>3 DEF TypeOK, RowType, money, judging, pool

\* Ending a run at its deadline keeps the types.
LEMMA DegradeType ==
    ASSUME TypeOK, NEW r \in Runs, NEW late \in WorkerPcs, DegradeForDeadline(r, late)
    PROVE  RowType' /\ worker' \in [Runs -> WorkerPcs]
<1>1. /\ stages[r] \in [Stages -> StageState]
      /\ worker \in [Runs -> WorkerPcs]
    BY DEF TypeOK
<1>2. CASE MayTransition(r, "timed_out")
    BY <1>1, <1>2, RowWriteType, StatusNames DEF DegradeForDeadline, Goto
<1>3. CASE ~MayTransition(r, "timed_out")
    BY <1>1, <1>3, RowWriteType, StatusNames, PcNames DEF DegradeForDeadline, Goto
<1> QED
    BY <1>2, <1>3

\* The POST handler keeps the types.
LEMMA RequestType ==
    ASSUME TypeOK, NEW r \in Runs, RequestStep(r)
    PROVE  TypeOK'
<1> USE DEF TypeOK, Ask, repository, money, judging, pool, pipeline, RequestPcs, ChargeOutcome
<1>1. CASE TakePermit(r)
    BY <1>1 DEF TakePermit
<1>2. CASE RefuseForCapacity(r)
    BY <1>2 DEF RefuseForCapacity
<1>3. CASE CreateRun(r)
    BY <1>3 DEF CreateRun, InitialProgress, QueryRunStatus, ActiveStatuses, StageState
<1>4. CASE RefuseAtCreate(r)
    BY <1>4 DEF RefuseAtCreate
<1>5. CASE ChargeRun(r)
    BY <1>5 DEF ChargeRun
<1>6. CASE ChargeRaises(r)
    BY <1>6 DEF ChargeRaises
<1>7. CASE MarkDegraded(r)
    <2>1. updatedAt' \in [Runs -> Nat]
        <3>1. updatedAt' = updatedAt \/ updatedAt' = [updatedAt EXCEPT ![r] = clock]
            BY <1>7 DEF MarkDegraded
        <3> QED
            BY <3>1
    <2>2. request' \in [Runs -> RequestPcs]
        <3>1. \E pc \in {"starting", "unwinding", "voiding"} :
                  request' = [request EXCEPT ![r] = pc]
            BY <1>7 DEF MarkDegraded
        <3> QED
            BY <3>1
    <2> QED
        BY <1>7, <2>1, <2>2 DEF MarkDegraded
<1>8. CASE StartWorker(r)
    BY <1>8 DEF StartWorker, Goto, WorkerPcs
<1>9. CASE ThreadFailsToStart(r)
    BY <1>9 DEF ThreadFailsToStart
<1>10. CASE VoidCharge(r)
    BY <1>10 DEF VoidCharge
<1>11. CASE AbandonRun(r)
    <2>1. RowType'
        BY <1>11, RowWriteType, StatusNames, stages[r] \in [Stages -> StageState]
        DEF AbandonRun
    <2>2. request' \in [Runs -> RequestPcs]
        BY <1>11 DEF AbandonRun
    <2> QED
        BY <1>11, <2>1, <2>2 DEF AbandonRun, RowType
<1>12. CASE ReturnPermitUnused(r)
    BY <1>12 DEF ReturnPermitUnused
<1> QED
    BY <1>1, <1>2, <1>3, <1>4, <1>5, <1>6, <1>7, <1>8, <1>9, <1>10, <1>11, <1>12
    DEF RequestStep

\* The judge of a run touches nothing of what the other threads work on.
LEMMA JudgeTouches ==
    ASSUME NEW r \in Runs, JudgeStep(r)
    PROVE  /\ UNCHANGED <<repository, charge, bill, paid, calls, booked, pool, pipeline>>
           /\ UNCHANGED <<request, canceller, permits, clock>>
BY DEF JudgeStep, CallJudge, JudgeAnswers, VerdictEvicted

\* And keeps the types of its own.
LEMMA JudgeTypes ==
    ASSUME TypeOK, NEW r \in Runs, JudgeStep(r)
    PROVE  /\ judge' \in [Runs -> {"none"} \cup JudgeAsked \cup JudgeKnown]
           /\ judgeCalls' \in [Runs -> Nat] /\ lapsed' \in [Runs -> BOOLEAN]
<1>1. \E v \in {"none"} \cup JudgeAsked \cup JudgeKnown : judge' = [judge EXCEPT ![r] = v]
    BY DEF JudgeStep, CallJudge, JudgeAnswers, VerdictEvicted
<1>2. judgeCalls' = judgeCalls \/ judgeCalls' = [judgeCalls EXCEPT ![r] = @ + 1]
    BY DEF JudgeStep, CallJudge, JudgeAnswers, VerdictEvicted
<1>3. lapsed' = lapsed \/ lapsed' = [lapsed EXCEPT ![r] = TRUE]
    BY DEF JudgeStep, CallJudge, JudgeAnswers, VerdictEvicted
<1>4. judge' \in [Runs -> {"none"} \cup JudgeAsked \cup JudgeKnown]
    BY <1>1 DEF TypeOK
<1>5. judgeCalls' \in [Runs -> Nat]
    <2>1. judgeCalls \in [Runs -> Nat]
        BY DEF TypeOK
    <2>2. judgeCalls[r] + 1 \in Nat
        BY <2>1
    <2> QED
        BY <1>2, <2>1, <2>2
<1>6. lapsed' \in [Runs -> BOOLEAN]
    <2>1. lapsed \in [Runs -> BOOLEAN]
        BY DEF TypeOK
    <2> QED
        BY <1>3, <2>1
<1> QED
    BY <1>4, <1>5, <1>6

\* The DELETE handler, the thread pool, the purge and the clock keep the types.
LEMMA EnvironmentType ==
    ASSUME TypeOK, NEW r \in Runs,
           \/ UserCancels(r) \/ CancelStampsStage(r)
           \/ \E s \in AllSlots : SlotStarts(r, s) \/ SlotFinishes(r, s)
           \/ BudgetExpires(r) \/ PurgeRun(r) \/ JudgeStep(r) \/ Tick
    PROVE  TypeOK'
<1> USE DEF TypeOK, repository, money, judging, pool, pipeline
<1>1. CASE UserCancels(r)
    BY <1>1 DEF UserCancels, Transition, QueryRunStatus, TERMINAL_STATUSES
<1>2. CASE CancelStampsStage(r)
    <2>1. Mark(stages[r], RunningStage(stages[r]), "skipped") \in [Stages -> StageState]
        BY MarkType DEF StageState
    <2>2. RowType'
        BY <1>2, <2>1, RowWriteType, StatusNames DEF CancelStampsStage
    <2> QED
        BY <1>2, <2>2 DEF CancelStampsStage, RowType
<1>3. ASSUME NEW s \in AllSlots, SlotStarts(r, s)
      PROVE  TypeOK'
    <2>1. tasks' \in [Runs -> [AllSlots -> {"unused", "queued", "calling"} \cup Settled]]
        <3>1. \E x \in {"calling", "failed"} : tasks' = [tasks EXCEPT ![r][s] = x]
            BY <1>3 DEF SlotStarts
        <3> QED
            BY <3>1 DEF Settled, Answered
    <2>2. paid' \in [Runs -> SUBSET AllSlots]
        <3>1. CASE Stopped(r)
            BY <1>3, <3>1 DEF SlotStarts
        <3>2. CASE ~Stopped(r)
            <4>1. paid' = IF CanSpend(r) THEN [paid EXCEPT ![r] = @ \cup {s}] ELSE paid
                BY <1>3, <3>2 DEF SlotStarts
            <4> QED
                BY <4>1
        <3> QED
            BY <3>1, <3>2
    <2> QED
        BY <1>3, <2>1, <2>2 DEF SlotStarts
<1>4. ASSUME NEW s \in AllSlots, SlotFinishes(r, s)
      PROVE  TypeOK'
    BY <1>4 DEF SlotFinishes
<1>5. CASE BudgetExpires(r)
    BY <1>5 DEF BudgetExpires
<1>6. CASE PurgeRun(r)
    BY <1>6 DEF PurgeRun
<1>7. CASE Tick
    BY <1>7, RunsAssumption DEF Tick
<1>8. CASE JudgeStep(r)
    BY <1>8, JudgeTouches, JudgeTypes
<1> QED
    BY <1>1, <1>2, <1>3, <1>4, <1>5, <1>6, <1>7, <1>8

\* The steps that collect the answers keep the types.
LEMMA AnswersType ==
    ASSUME TypeOK, AnswerInHand, NEW r \in Runs,
           \/ FailWithoutKey(r) \/ StartAnswers(r)
           \/ CollectAnswer(r) \/ SkipRaisedSlot(r) \/ CutSlotAtDeadline(r)
           \/ RecordAnswer(r) \/ EndAtDeadline(r) \/ EndWithoutAnswers(r)
           \/ LeaveAnswers(r) \/ QuickSkipsStages(r) \/ QuickCompletes(r)
    PROVE  TypeOK'
<1> USE DEF repository, money, judging, pool, pipeline
<1> DEFINE P(S, st) == Mark(stages[r], S, st)
<1>0. /\ stages[r] \in [Stages -> StageState]
      /\ \A S : \A st \in StageState : P(S, st) \in [Stages -> StageState]
    BY MarkType DEF TypeOK
<1>2. CASE FailWithoutKey(r)
    BY <1>0, <1>2, WriteType, StatusNames, PcNames DEF FailWithoutKey, EndAndGo, StageState
<1>3. CASE StartAnswers(r)
    <2>1. RowType'
        BY <1>0, <1>3, RowWriteType, StatusNames DEF StartAnswers, StageState
    <2>2. tasks' \in [Runs -> [AllSlots -> {"unused", "queued", "calling"} \cup Settled]]
        BY <1>3 DEF StartAnswers, TypeOK
    <2> QED
        BY <1>3, <2>1, <2>2, PcNames DEF StartAnswers, Goto, RowType, TypeOK
<1>4. CASE CollectAnswer(r)
    BY <1>4, PcNames DEF CollectAnswer, Goto, TypeOK
<1>5. CASE SkipRaisedSlot(r)
    BY <1>5 DEF SkipRaisedSlot, TypeOK
<1>6. CASE CutSlotAtDeadline(r)
    BY <1>6, PcNames DEF CutSlotAtDeadline, Goto, TypeOK
<1>7. CASE RecordAnswer(r)
    <2>1. cursor[r] \in cut[r] \/ Awaited(r) \in Answered
        BY <1>7 DEF RecordAnswer, At, AnswerInHand
    <2>2. PICK x \in {"cut"} \cup Settled : answers' = [answers EXCEPT ![r][cursor[r]] = x]
        BY <1>7, <2>1 DEF RecordAnswer, Settled
    <2>3. answers' \in [Runs -> [AllSlots -> {"none", "cut"} \cup Settled]]
        BY <2>2 DEF TypeOK
    <2> QED
        BY <1>7, <2>3, PcNames DEF RecordAnswer, Goto, TypeOK
<1>8. CASE EndAtDeadline(r)
    BY <1>8, DegradeType, PcNames DEF EndAtDeadline, RowType, TypeOK
<1>9. CASE EndWithoutAnswers(r)
    BY <1>0, <1>9, WriteType, StatusNames, PcNames DEF EndWithoutAnswers, EndAndGo, StageState
<1>10. CASE LeaveAnswers(r)
    BY <1>0, <1>10, WriteType, StatusNames, PcNames DEF LeaveAnswers, StageState
<1>11. CASE QuickSkipsStages(r)
    BY <1>0, <1>11, WriteType, PcNames DEF QuickSkipsStages, Collected, At, Present, StageState
<1>12. CASE QuickCompletes(r)
    BY <1>0, <1>12, WriteType, StatusNames, PcNames DEF QuickCompletes, StageState
<1> QED
    BY <1>2, <1>3, <1>4, <1>5, <1>6, <1>7, <1>8, <1>9, <1>10, <1>11, <1>12

\* The steps of the debate and synthesis stages keep the types.
LEMMA StagesType ==
    ASSUME TypeOK, NEW r \in Runs, Debate(r) \/ LeaveDebate(r) \/ Synthesis(r)
    PROVE  TypeOK'
<1>0. /\ stages[r] \in [Stages -> StageState]
      /\ \A S : \A st \in StageState : Mark(stages[r], S, st) \in [Stages -> StageState]
    BY MarkType DEF TypeOK
<1>1. ASSUME NEW from, NEW stage, NEW pc \in WorkerPcs, AnnounceStage(r, from, stage, pc)
      PROVE  TypeOK'
    BY <1>0, <1>1, WriteType DEF AnnounceStage, WriteAndGo, At, Present, StageState
<1>2. ASSUME NEW from, NEW late \in WorkerPcs, NEW pc \in WorkerPcs,
             StageGate(r, from, late, pc)
      PROVE  TypeOK'
    <2>1. RowType' /\ worker' \in [Runs -> WorkerPcs]
        <3>1. CASE Stopped(r) \/ ~expired[r]
            BY <1>2, <3>1, PcNames DEF StageGate, Goto, TypeOK, RowType
        <3>2. CASE ~(Stopped(r) \/ ~expired[r])
            BY <1>2, <3>2, DegradeType DEF StageGate
        <3> QED
            BY <3>1, <3>2
    <2> QED
        BY <1>2, <2>1 DEF StageGate, RowType, TypeOK, money, judging, pool
<1>3. ASSUME NEW from, NEW b \in BillableStage, NEW pc \in WorkerPcs,
             EnterStage(r, from, b, pc) \/ RecordStage(r, from, b, pc)
      PROVE  TypeOK'
    <2>1. CASE EnterStage(r, from, b, pc)
        BY <2>1, <1>3 DEF EnterStage, Goto, StageBillingState, TypeOK, money, judging, pool
    <2>2. CASE RecordStage(r, from, b, pc)
        BY <2>2, <1>3 DEF RecordStage, Goto, StageBillingState, TypeOK, money, judging, pool
    <2> QED
        BY <1>3, <2>1, <2>2
<1>4. ASSUME NEW from, NEW b \in BillableStage, NEW pcs \in SUBSET WorkerPcs,
             MakeCalls(r, from, b, pcs)
      PROVE  TypeOK'
    <2>1. PICK n \in 0..1 : calls' = [calls EXCEPT ![r][b] = @ + n]
        BY <1>4 DEF MakeCalls
    <2>2. calls' \in [Runs -> [BillableStage -> Nat]]
        BY <2>1, <1>4 DEF TypeOK
    <2>3. PICK pc \in pcs :
              /\ Goto(r, pc)
              /\ timedOut' = [timedOut EXCEPT ![r] = @ \/ pc = "round_2_skipped"]
        BY <1>4 DEF MakeCalls
    <2>4. worker' \in [Runs -> WorkerPcs] /\ timedOut' \in [Runs -> BOOLEAN]
        <3>1. worker' \in [Runs -> WorkerPcs]
            BY <2>3, <1>4 DEF Goto, TypeOK
        <3>2. timedOut' \in [Runs -> BOOLEAN]
            BY <2>3, Zenon DEF TypeOK
        <3> QED
            BY <3>1, <3>2
    <2> QED
        BY <1>4, <2>2, <2>4 DEF MakeCalls, TypeOK, repository, judging, pool
<1>5. ASSUME NEW from, NEW b, NEW pc \in WorkerPcs, StageReturns(r, from, b, pc)
      PROVE  TypeOK'
    BY <1>5, PcNames DEF StageReturns, Goto, TypeOK, repository, money, judging, pool
<1>6. {"debate", "synthesis"} \subseteq BillableStage
    BY DEF BillableStage
<1>7. \A S : \A st \in {"failed", "skipped", "completed"} :
          Mark(stages[r], S, st) \in [Stages -> StageState]
    BY <1>0 DEF StageState
<1>8. CASE Debate(r)
    <2>1. CASE WriteAndGo(r, "announce_2", "debate_round_2_running",
                          Mark(stages[r], {"debate_round_1"}, "completed"), "round_2")
        BY <2>1, <1>7, WriteType, StatusNames, PcNames
    <2>2. CASE \E from \in {"debated", "round_2_skipped"} :
                  StageReturns(r, from, "debate", "record_debate")
        BY <2>2, <1>5, PcNames
    <2>3. CASE \/ MakeCalls(r, "debating_1", "debate", {"announce_2", "round_2_skipped"})
               \/ MakeCalls(r, "debating_2", "debate", {"debated"})
        BY <2>3, <1>4, <1>6, PcNames
    <2> QED
        BY <1>8, <2>1, <2>2, <2>3, <1>1, <1>2, <1>3, <1>6, PcNames DEF Debate
<1>9. CASE LeaveDebate(r)
    BY <1>9, <1>7, WriteType, StatusNames, PcNames DEF LeaveDebate, EndAndGo
<1>10. CASE Synthesis(r)
    <2>1. CASE WriteAndGo(r, "complete", "completed",
                          Mark(stages[r], {"synthesis"}, "completed"), "persist")
        BY <2>1, <1>7, WriteType, StatusNames, PcNames
    <2>2. CASE MakeCalls(r, "synthesizing", "synthesis", {"synthesized"})
        BY <2>2, <1>4, <1>6, PcNames
    <2> QED
        BY <1>10, <2>1, <2>2, <1>1, <1>2, <1>3, <1>5, <1>6, PcNames DEF Synthesis
<1> QED
    BY <1>8, <1>9, <1>10

\* The steps that end and settle a run keep the types.
LEMMA SettlingType ==
    ASSUME TypeOK, NEW r \in Runs,
           \/ StampEndedRun(r) \/ WorkerRaises(r) \/ WorkerFindsRunGone(r)
           \/ PersistRun(r) \/ ReleasePermit(r)
    PROVE  TypeOK'
<1> USE DEF repository, money, judging, pool
<1>0. \A S : \A st \in {"failed", "skipped"} :
          Mark(stages[r], S, st) \in [Stages -> StageState]
    BY MarkType DEF TypeOK, StageState
<1>1. CASE StampEndedRun(r)
    <2>1. OwedStamps(stages[r], worker[r]) \in [Stages -> StageState]
        BY <1>0, MarkType DEF OwedStamps, StageState
    <2>2. RowType'
        BY <1>1, <2>1, RowWriteType, StatusNames DEF StampEndedRun
    <2> QED
        BY <1>1, <2>2, PcNames DEF StampEndedRun, Goto, RowType, TypeOK
<1>2. CASE WorkerRaises(r)
    <2>1. RowType'
        <3>1. CASE Legacy(r)
            BY <1>2, <3>1 DEF WorkerRaises, RowType, TypeOK
        <3>2. CASE ~Legacy(r)
            BY <1>0, <1>2, <3>2, RowWriteType, StatusNames DEF WorkerRaises
        <3> QED
            BY <3>1, <3>2
    <2> QED
        BY <1>2, <2>1, PcNames DEF WorkerRaises, Goto, RowType, TypeOK
<1>3. CASE WorkerFindsRunGone(r)
    BY <1>3, PcNames DEF WorkerFindsRunGone, Goto, TypeOK
<1>4. CASE PersistRun(r)
    <2>1. bill' \in [Runs -> {"open", "estimated", "measured"}]
        BY <1>4 DEF PersistRun, SettleReceipt, TypeOK
    <2>2. booked' \in [Runs -> Nat]
        <3>1. booked' = booked \/ \E n \in Nat : booked' = [booked EXCEPT ![r] = n]
            <4>1. CASE IsTerminal(r)
                BY <1>4, <4>1 DEF PersistRun, SettleReceipt
            <4>2. CASE ~IsTerminal(r)
                BY <1>4, <4>2 DEF PersistRun, SettleReceipt
            <4> QED
                BY <4>1, <4>2
        <3>2. booked \in [Runs -> Nat]
            BY DEF TypeOK
        <3> QED
            BY <3>1, <3>2
    <2>3. lapsed' \in [Runs -> BOOLEAN]
        BY <1>4, Zenon DEF PersistRun, TypeOK
    <2>4. worker' \in [Runs -> WorkerPcs]
        BY <1>4, PcNames DEF PersistRun, Goto, TypeOK
    <2> QED
        BY <1>4, <2>1, <2>2, <2>3, <2>4 DEF PersistRun, TypeOK
<1>5. CASE ReleasePermit(r)
    BY <1>5, PcNames DEF ReleasePermit, Goto, TypeOK
<1> QED
    BY <1>1, <1>2, <1>3, <1>4, <1>5

-----------------------------------------------------------------------------
(* The steps of a run, classed by what they touch                          *)

\* What the pipeline has collected and spent so far, and where it looks for it.
Work == <<answers, billing, recorded, bill, paid, calls, tasks, cursor, cut>>

\* A step of the worker that only moves it on and writes status or progress.
PlainWorkerStep(r) ==
    /\ worker[r] \notin WorkerIdle
    /\ UNCHANGED <<Work, charge, judging, request, permits>>
    /\ \E pc \in WorkerPcs \ {"none", "record", "release"} :
        /\ worker' = [worker EXCEPT ![r] = pc]
        /\ pc = "done" => Legacy(r)
        /\ \A b \in BillableStage : pc \in OpenStagePcs(b) => worker[r] \in OpenStagePcs(b)

\* A step of a handler, a clock or the purge, outside the worker and the pool.
OutsideStep == UNCHANGED <<Work, worker>>

\* The three kinds of step of a billable stage b.
BilledStep(r, b) ==
    \/ \E from \in {"enter_debate", "enter_synthesis"}, pc \in OpenStagePcs(b) :
           EnterStage(r, from, b, pc)
    \/ \E from \in OpenStagePcs(b), pcs \in SUBSET OpenStagePcs(b) :
           MakeCalls(r, from, b, pcs)
    \/ \E from \in OpenStagePcs(b), pc \in {"leave_round_1", "complete"} :
           RecordStage(r, from, b, pc)

\* The steps of the worker on the answers of its slots.
SlotStep(r) ==
    \/ StartAnswers(r) \/ CollectAnswer(r) \/ SkipRaisedSlot(r)
    \/ CutSlotAtDeadline(r) \/ RecordAnswer(r)

\* A progress or status write is a plain step.
LEMMA WriteIsPlain ==
    ASSUME NEW r \in Runs, NEW from, NEW st, NEW p, NEW pc \in WorkerPcs,
           pc \notin {"none", "record", "release", "done"}, from \notin WorkerIdle,
           \A b \in BillableStage : pc \in OpenStagePcs(b) => from \in OpenStagePcs(b),
           WriteAndGo(r, from, st, p, pc)
    PROVE  PlainWorkerStep(r)
BY DEF WriteAndGo, At, Goto, PlainWorkerStep, Work, money, pool

\* So is ending a run, whoever ends it.
LEMMA DegradeIsPlain ==
    ASSUME NEW r \in Runs, NEW late \in StampPcs, DegradeForDeadline(r, late),
           worker[r] \notin WorkerIdle,
           UNCHANGED <<Work, charge, judging, request, permits>>
    PROVE  PlainWorkerStep(r)
<1>1. \E pc \in StampPcs \cup {"persist"} : worker' = [worker EXCEPT ![r] = pc]
    BY DEF DegradeForDeadline, Goto
<1>2. \A pc \in StampPcs \cup {"persist"} :
          /\ pc \in WorkerPcs \ {"none", "record", "release", "done"}
          /\ \A b \in BillableStage : pc \notin OpenStagePcs(b)
    BY DEF StampPcs, WorkerPcs, OpenStagePcs
<1> QED
    BY <1>1, <1>2 DEF PlainWorkerStep

\* Every step of the worker is of one of these classes.
LEMMA WorkerStepClasses ==
    ASSUME NEW r \in Runs, WorkerStep(r)
    PROVE  \/ PlainWorkerStep(r) \/ SlotStep(r)
           \/ \E b \in BillableStage : BilledStep(r, b)
           \/ PersistRun(r) \/ ReleasePermit(r)
<1> USE DEF repository, money, pool, Work
<1>0. /\ \A pc \in WorkerPcs \ WorkerIdle : \A b \in BillableStage :
             (pc \notin OpenStagePcs("debate") /\ pc \notin OpenStagePcs("synthesis"))
                => pc \notin OpenStagePcs(b)
      /\ OpenStagePcs("debate") \cap OpenStagePcs("synthesis") = {}
      /\ BillableStage = {"debate", "synthesis"}
    BY DEF OpenStagePcs, BillableStage
<1>1. ASSUME NEW from, NEW st, NEW p, NEW pc \in WorkerPcs,
             pc \notin {"none", "record", "release", "done"}, from \notin WorkerIdle,
             \A b \in BillableStage : pc \notin OpenStagePcs(b),
             EndAndGo(r, from, st, p, pc)
      PROVE  PlainWorkerStep(r)
    <2>1. \A b \in BillableStage : "persist" \notin OpenStagePcs(b)
        BY DEF OpenStagePcs
    <2> QED
        BY <1>1, <2>1, WriteIsPlain, PcNames DEF EndAndGo
<1>2. ASSUME NEW from, NEW late \in StampPcs, NEW pc \in WorkerPcs,
             pc \notin {"none", "record", "release", "done"}, from \notin WorkerIdle,
             \A b \in BillableStage : pc \notin OpenStagePcs(b),
             StageGate(r, from, late, pc)
      PROVE  PlainWorkerStep(r)
    <2>1. \A b \in BillableStage : "persist" \notin OpenStagePcs(b)
        BY DEF OpenStagePcs
    <2>2. CASE Stopped(r) \/ ~expired[r]
        BY <1>2, <2>1, <2>2, PcNames DEF StageGate, At, Goto, PlainWorkerStep
    <2>3. CASE ~(Stopped(r) \/ ~expired[r])
        BY <1>2, <2>3, DegradeIsPlain DEF StageGate, At
    <2> QED
        BY <2>2, <2>3
<1>3. ASSUME FailWithoutKey(r) \/ EndWithoutAnswers(r) \/ LeaveAnswers(r)
             \/ QuickSkipsStages(r) \/ QuickCompletes(r)
      PROVE  PlainWorkerStep(r)
    <2>1. \A b \in BillableStage :
              {"skip_downstream", "quick", "round_1", "persist"} \cap OpenStagePcs(b) = {}
        BY DEF OpenStagePcs
    <2>2. CASE FailWithoutKey(r) \/ EndWithoutAnswers(r)
        BY <1>1, <2>1, <2>2, PcNames DEF FailWithoutKey, EndWithoutAnswers, WorkerIdle
    <2>3. CASE LeaveAnswers(r) \/ QuickSkipsStages(r) \/ QuickCompletes(r)
        BY <2>1, <2>3, WriteIsPlain, PcNames
        DEF LeaveAnswers, QuickSkipsStages, QuickCompletes, WorkerIdle
    <2> QED
        BY <1>3, <2>2, <2>3
<1>4. CASE EndAtDeadline(r)
    BY <1>4, DegradeIsPlain DEF EndAtDeadline, Collected, At, WorkerIdle, StampPcs
<1>5. ASSUME NEW from, NEW b, NEW pc \in WorkerPcs, StageReturns(r, from, b, pc),
             pc \notin {"none", "record", "release", "done"}, from \notin WorkerIdle,
             \A c \in BillableStage : pc \in OpenStagePcs(c) => from \in OpenStagePcs(c)
      PROVE  PlainWorkerStep(r)
    <2>1. \A c \in BillableStage : "persist" \notin OpenStagePcs(c)
        BY DEF OpenStagePcs
    <2> QED
        BY <1>5, <2>1, PcNames DEF StageReturns, At, Goto, PlainWorkerStep
<1>6. CASE Debate(r)
    <2>1. CASE \/ AnnounceStage(r, "round_1", "debate_round_1", "round_1_gate")
               \/ AnnounceStage(r, "round_2", "debate_round_2", "debating_2")
               \/ WriteAndGo(r, "announce_2", "debate_round_2_running",
                             Mark(stages[r], {"debate_round_1"}, "completed"), "round_2")
        BY <2>1, WriteIsPlain, PcNames DEF AnnounceStage, WorkerIdle, OpenStagePcs
    <2>2. CASE StageGate(r, "round_1_gate", "late_debate", "enter_debate")
        BY <2>2, <1>2, PcNames DEF WorkerIdle, OpenStagePcs, StampPcs
    <2>3. CASE \E from \in {"debated", "round_2_skipped"} :
                   StageReturns(r, from, "debate", "record_debate")
        BY <2>3, <1>5, PcNames DEF WorkerIdle, OpenStagePcs
    <2>4. CASE \/ EnterStage(r, "enter_debate", "debate", "debating_1")
               \/ MakeCalls(r, "debating_1", "debate", {"announce_2", "round_2_skipped"})
               \/ MakeCalls(r, "debating_2", "debate", {"debated"})
               \/ RecordStage(r, "record_debate", "debate", "leave_round_1")
        BY <2>4 DEF BilledStep, BillableStage, OpenStagePcs
    <2> QED
        BY <1>6, <2>1, <2>2, <2>3, <2>4 DEF Debate
<1>7. CASE LeaveDebate(r)
    <2>1. \A b \in BillableStage :
              {"round_2_late", "leave_round_2", "persist", "synthesis",
               "skip_synthesis"} \cap OpenStagePcs(b) = {}
        BY DEF OpenStagePcs
    <2> QED
        BY <1>7, <1>1, <2>1, WriteIsPlain, PcNames DEF LeaveDebate, WorkerIdle
<1>8. CASE Synthesis(r)
    <2>1. CASE \/ AnnounceStage(r, "synthesis", "synthesis", "synthesis_gate")
               \/ WriteAndGo(r, "complete", "completed",
                             Mark(stages[r], {"synthesis"}, "completed"), "persist")
        BY <2>1, WriteIsPlain, PcNames DEF AnnounceStage, WorkerIdle, OpenStagePcs
    <2>2. CASE StageGate(r, "synthesis_gate", "late_synthesis", "enter_synthesis")
        BY <2>2, <1>2, PcNames DEF WorkerIdle, OpenStagePcs, StampPcs
    <2>3. CASE StageReturns(r, "synthesized", "synthesis", "record_synthesis")
        BY <2>3, <1>5, PcNames DEF WorkerIdle, OpenStagePcs
    <2>4. CASE \/ EnterStage(r, "enter_synthesis", "synthesis", "synthesizing")
               \/ MakeCalls(r, "synthesizing", "synthesis", {"synthesized"})
               \/ RecordStage(r, "record_synthesis", "synthesis", "complete")
        BY <2>4 DEF BilledStep, BillableStage, OpenStagePcs
    <2> QED
        BY <1>8, <2>1, <2>2, <2>3, <2>4 DEF Synthesis
<1>9. CASE StampEndedRun(r) \/ WorkerRaises(r) \/ WorkerFindsRunGone(r)
    <2>1. \A b \in BillableStage : {"persist", "done"} \cap OpenStagePcs(b) = {}
        BY DEF OpenStagePcs
    <2>2. CASE StampEndedRun(r)
        BY <2>1, <2>2, PcNames DEF StampEndedRun, Goto, PlainWorkerStep, StampPcs, WorkerIdle
    <2>3. CASE WorkerRaises(r)
        BY <2>1, <2>3, PcNames DEF WorkerRaises, Goto, PlainWorkerStep, ServicePcs, WorkerIdle
    <2>4. CASE WorkerFindsRunGone(r)
        BY <2>1, <2>4, PcNames DEF WorkerFindsRunGone, Goto, PlainWorkerStep, WorkerIdle
    <2> QED
        BY <1>9, <2>2, <2>3, <2>4
<1> QED
    BY <1>3, <1>4, <1>6, <1>7, <1>8, <1>9 DEF WorkerStep, SlotStep

\* Every other step leaves the workers and their work alone, but for the POST
\* that starts one and the pool threads.
LEMMA OtherStepClasses ==
    ASSUME NEW r \in Runs, RunStep(r) \/ Tick, ~WorkerStep(r)
    PROVE  \/ OutsideStep
           \/ StartWorker(r)
           \/ \E s \in AllSlots : SlotStarts(r, s) \/ SlotFinishes(r, s)
<1> USE DEF repository, money, pool, pipeline, OutsideStep, Work
<1>1. CASE UserCancels(r) \/ CancelStampsStage(r) \/ BudgetExpires(r) \/ PurgeRun(r) \/ Tick
    BY <1>1 DEF UserCancels, CancelStampsStage, BudgetExpires, PurgeRun, Tick
<1>3. CASE JudgeStep(r)
    BY <1>3, JudgeTouches
<1>2. CASE RequestStep(r)
    BY <1>2 DEF RequestStep, TakePermit, RefuseForCapacity, CreateRun, RefuseAtCreate,
        ChargeRun, ChargeRaises, MarkDegraded, ThreadFailsToStart, VoidCharge,
        AbandonRun, ReturnPermitUnused
<1> QED
    BY <1>1, <1>2, <1>3 DEF RunStep

-----------------------------------------------------------------------------
(* Each conjunct is preserved by each class of step                        *)

RunsInv ==
    /\ TypeOK /\ CreatedByRequest /\ WorkerAfterRequest /\ NothingBeforeWorker
    /\ AnswerInHand /\ LegacyReleasesNothing /\ SettledAfterPipeline
    /\ CaptureState /\ LiveAnswersWerePaid /\ MeasuredStays /\ NoUnbookedSpend

\* A step of a run leaves the worker, slots and bill of every other run alone.
LEMMA OwnRowOnly ==
    ASSUME TypeOK, NEW r \in Runs, NEW q \in Runs, q # r, WorkerStep(r)
    PROVE  /\ worker'[q] = worker[q] /\ cursor'[q] = cursor[q] /\ cut'[q] = cut[q]
           /\ tasks'[q] = tasks[q] /\ answers'[q] = answers[q] /\ paid'[q] = paid[q]
           /\ billing'[q] = billing[q] /\ recorded'[q] = recorded[q]
           /\ calls'[q] = calls[q] /\ bill'[q] = bill[q]
<1> USE DEF TypeOK, repository, money, pool
<1>1. CASE PlainWorkerStep(r)
    BY <1>1 DEF PlainWorkerStep, Work
<1>2. CASE SlotStep(r)
    <2>1. CASE StartAnswers(r)
        BY <2>1 DEF StartAnswers, Goto
    <2>2. CASE CollectAnswer(r)
        BY <2>2 DEF CollectAnswer, Goto
    <2>3. CASE SkipRaisedSlot(r)
        BY <2>3 DEF SkipRaisedSlot
    <2>4. CASE CutSlotAtDeadline(r)
        BY <2>4 DEF CutSlotAtDeadline, Goto
    <2>5. CASE RecordAnswer(r)
        BY <2>5 DEF RecordAnswer, Goto
    <2> QED
        BY <1>2, <2>1, <2>2, <2>3, <2>4, <2>5 DEF SlotStep
<1>3. ASSUME NEW b \in BillableStage, BilledStep(r, b)
      PROVE  /\ worker'[q] = worker[q] /\ cursor'[q] = cursor[q] /\ cut'[q] = cut[q]
             /\ tasks'[q] = tasks[q] /\ answers'[q] = answers[q] /\ paid'[q] = paid[q]
             /\ billing'[q] = billing[q] /\ recorded'[q] = recorded[q]
             /\ calls'[q] = calls[q] /\ bill'[q] = bill[q]
    <2>1. ASSUME NEW from, NEW pc, EnterStage(r, from, b, pc) \/ RecordStage(r, from, b, pc)
          PROVE  /\ worker'[q] = worker[q] /\ billing'[q] = billing[q]
                 /\ recorded'[q] = recorded[q]
                 /\ UNCHANGED <<cursor, cut, tasks, answers, paid, calls, bill>>
        BY <2>1 DEF EnterStage, RecordStage, Goto
    <2>2. ASSUME NEW from, NEW pcs, MakeCalls(r, from, b, pcs)
          PROVE  /\ worker'[q] = worker[q] /\ calls'[q] = calls[q]
                 /\ UNCHANGED <<cursor, cut, tasks, answers, paid, billing, recorded, bill>>
        BY <2>2 DEF MakeCalls, Goto
    <2> QED
        BY <1>3, <2>1, <2>2 DEF BilledStep
<1>4. CASE PersistRun(r)
    BY <1>4 DEF PersistRun, SettleReceipt, Goto
<1>5. CASE ReleasePermit(r)
    BY <1>5 DEF ReleasePermit, Goto
<1> QED
    BY <1>1, <1>2, <1>3, <1>4, <1>5, WorkerStepClasses

\* AnswerInHand: the future the worker looked at stays settled.
LEMMA AnswerInHandStep ==
    ASSUME TypeOK, AnswerInHand, NEW r \in Runs, RunStep(r) \/ Tick
    PROVE  AnswerInHand'
<1> USE DEF AnswerInHand, Awaited, repository, money, pool
<1>0. \A q \in Runs : SlotsOf(q)' = SlotsOf(q)
    BY DEF SlotsOf, AllSlots
<1>1. CASE WorkerStep(r)
    <2>1. /\ worker'[r] = "record" =>
                /\ cursor'[r] \in SlotsOf(r)
                /\ cursor'[r] \in cut'[r] \/ tasks'[r][cursor'[r]] \in Answered
        <3>1. CASE PlainWorkerStep(r)
            BY <3>1 DEF PlainWorkerStep, TypeOK
        <3>2. CASE SlotStep(r)
            BY <3>2 DEF SlotStep, StartAnswers, CollectAnswer, SkipRaisedSlot, Collecting, At,
                CutSlotAtDeadline, RecordAnswer, Goto, TypeOK
        <3>3. CASE \E b \in BillableStage : BilledStep(r, b)
            <4>1. worker'[r] # "record"
                BY <3>3 DEF BilledStep, EnterStage, MakeCalls, RecordStage, OpenStagePcs,
                    Goto, TypeOK
            <4> QED
                BY <4>1
        <3>4. CASE PersistRun(r) \/ ReleasePermit(r)
            BY <3>4 DEF PersistRun, ReleasePermit, Goto, TypeOK
        <3> QED
            BY <1>1, <3>1, <3>2, <3>3, <3>4, WorkerStepClasses
    <2> QED
        BY <1>0, <1>1, <2>1, OwnRowOnly
<1>2. CASE OutsideStep
    BY <1>0, <1>2 DEF OutsideStep, Work
<1>3. CASE StartWorker(r)
    BY <1>0, <1>3 DEF StartWorker, Goto, TypeOK
<1>4. ASSUME NEW s \in AllSlots, SlotStarts(r, s) \/ SlotFinishes(r, s)
      PROVE  AnswerInHand'
    <2>1. PICK x : tasks' = [tasks EXCEPT ![r][s] = x]
        BY <1>4 DEF SlotStarts, SlotFinishes
    <2>2. tasks[r][s] \notin Answered
        BY <1>4 DEF SlotStarts, SlotFinishes, Answered
    <2>3. UNCHANGED <<worker, cursor, cut>>
        BY <1>4 DEF SlotStarts, SlotFinishes, pipeline
    <2> QED
        BY <1>0, <2>1, <2>2, <2>3 DEF TypeOK
<1> QED
    BY <1>1, <1>2, <1>3, <1>4, OtherStepClasses

\* A worker is started by its own POST, as its last step.
LEMMA WorkerAfterRequestStep ==
    ASSUME TypeOK, WorkerAfterRequest, NEW r \in Runs, RunStep(r) \/ Tick
    PROVE  WorkerAfterRequest'
<1> USE DEF WorkerAfterRequest, repository, money, pool, pipeline
<1>1. CASE WorkerStep(r)
    <2>1. worker[r] # "none"
        <3>1. CASE PlainWorkerStep(r)
            BY <3>1 DEF PlainWorkerStep, WorkerIdle
        <3>2. CASE SlotStep(r)
            BY <3>2 DEF SlotStep, StartAnswers, CollectAnswer, SkipRaisedSlot, Collecting,
                CutSlotAtDeadline, RecordAnswer, At
        <3>3. CASE \E b \in BillableStage : BilledStep(r, b)
            BY <3>3 DEF BilledStep, EnterStage, MakeCalls, RecordStage, OpenStagePcs, At
        <3>4. CASE PersistRun(r) \/ ReleasePermit(r)
            BY <3>4 DEF PersistRun, ReleasePermit
        <3> QED
            BY <1>1, <3>1, <3>2, <3>3, <3>4, WorkerStepClasses
    <2>2. UNCHANGED request
        <3>1. CASE PlainWorkerStep(r)
            BY <3>1 DEF PlainWorkerStep
        <3>2. CASE SlotStep(r)
            BY <3>2 DEF SlotStep, StartAnswers, CollectAnswer, SkipRaisedSlot,
                CutSlotAtDeadline, RecordAnswer
        <3>3. CASE \E b \in BillableStage : BilledStep(r, b)
            BY <3>3 DEF BilledStep, EnterStage, MakeCalls, RecordStage
        <3>4. CASE PersistRun(r) \/ ReleasePermit(r)
            BY <3>4 DEF PersistRun, ReleasePermit
        <3> QED
            BY <1>1, <3>1, <3>2, <3>3, <3>4, WorkerStepClasses
    <2> QED
        BY <1>1, <2>1, <2>2, OwnRowOnly
<1>2. CASE RequestStep(r)
    <2>1. request[r] # "done"
        BY <1>2 DEF RequestStep, TakePermit, RefuseForCapacity, CreateRun, RefuseAtCreate,
            ChargeRun, ChargeRaises, MarkDegraded, StartWorker, ThreadFailsToStart,
            VoidCharge, AbandonRun, ReturnPermitUnused
    <2>2. \A q \in Runs \ {r} : request'[q] = request[q]
        BY <1>2 DEF RequestStep, TakePermit, RefuseForCapacity, CreateRun, RefuseAtCreate,
            ChargeRun, ChargeRaises, MarkDegraded, StartWorker, ThreadFailsToStart,
            VoidCharge, AbandonRun, ReturnPermitUnused, Ask, TypeOK
    <2>3. CASE StartWorker(r)
        BY <2>2, <2>3 DEF StartWorker, Goto, Ask, TypeOK
    <2>4. CASE ~StartWorker(r)
        <3>1. UNCHANGED worker
            BY <1>2, <2>4 DEF RequestStep, TakePermit, RefuseForCapacity, CreateRun,
                RefuseAtCreate, ChargeRun, ChargeRaises, MarkDegraded, ThreadFailsToStart,
                VoidCharge, AbandonRun, ReturnPermitUnused
        <3> QED
            BY <2>1, <2>2, <3>1
    <2> QED
        BY <2>3, <2>4
<1>3. CASE ~WorkerStep(r) /\ ~RequestStep(r)
    <2>1. UNCHANGED <<request, worker>>
        BY <1>3, JudgeTouches DEF RunStep, UserCancels, CancelStampsStage, SlotStarts, SlotFinishes,
            BudgetExpires, PurgeRun, Tick
    <2> QED
        BY <2>1
<1> QED
    BY <1>1, <1>2, <1>3

\* Pool threads touch a slot only once a worker has queued it, so a run without
\* a worker has neither calls nor futures.
LEMMA NothingBeforeWorkerStep ==
    ASSUME TypeOK, NothingBeforeWorker, NEW r \in Runs, RunStep(r) \/ Tick
    PROVE  NothingBeforeWorker'
<1> USE DEF NothingBeforeWorker, repository, money, pool
<1>1. CASE WorkerStep(r)
    <2>1. worker'[r] # "none"
        <3>1. CASE PlainWorkerStep(r)
            BY <3>1 DEF PlainWorkerStep, TypeOK
        <3>2. CASE SlotStep(r)
            BY <3>2 DEF SlotStep, StartAnswers, CollectAnswer, SkipRaisedSlot, Collecting,
                CutSlotAtDeadline, RecordAnswer, At, Goto, TypeOK
        <3>3. CASE \E b \in BillableStage : BilledStep(r, b)
            BY <3>3 DEF BilledStep, EnterStage, MakeCalls, RecordStage, OpenStagePcs,
                Goto, TypeOK
        <3>4. CASE PersistRun(r) \/ ReleasePermit(r)
            BY <3>4 DEF PersistRun, ReleasePermit, Goto, TypeOK
        <3> QED
            BY <1>1, <3>1, <3>2, <3>3, <3>4, WorkerStepClasses
    <2> QED
        BY <1>1, <2>1, OwnRowOnly DEF AllSlots
<1>2. CASE OutsideStep
    BY <1>2 DEF OutsideStep, Work, AllSlots
<1>3. CASE StartWorker(r)
    BY <1>3 DEF StartWorker, Goto, TypeOK, AllSlots
<1>4. ASSUME NEW s \in AllSlots, SlotStarts(r, s) \/ SlotFinishes(r, s)
      PROVE  NothingBeforeWorker'
    <2>1. worker[r] # "none" /\ UNCHANGED worker
        BY <1>4 DEF SlotStarts, SlotFinishes, pipeline
    <2>2. /\ \A q \in Runs \ {r} : tasks'[q] = tasks[q] /\ paid'[q] = paid[q]
          /\ UNCHANGED calls
        BY <1>4 DEF SlotStarts, SlotFinishes, TypeOK
    <2> QED
        BY <2>1, <2>2 DEF AllSlots
<1> QED
    BY <1>1, <1>2, <1>3, <1>4, OtherStepClasses

\* A legacy worker goes from its last write to "done".
LEMMA LegacyReleasesNothingStep ==
    ASSUME TypeOK, LegacyReleasesNothing, NEW r \in Runs, RunStep(r) \/ Tick
    PROVE  LegacyReleasesNothing'
<1> USE DEF LegacyReleasesNothing, Legacy, repository, money, pool
<1>1. CASE WorkerStep(r)
    <2>1. worker'[r] = "release" => ~Legacy(r)
        <3>1. CASE PlainWorkerStep(r)
            BY <3>1 DEF PlainWorkerStep, TypeOK
        <3>2. CASE SlotStep(r)
            BY <3>2 DEF SlotStep, StartAnswers, CollectAnswer, SkipRaisedSlot, Collecting,
                CutSlotAtDeadline, RecordAnswer, At, Goto, TypeOK
        <3>3. CASE \E b \in BillableStage : BilledStep(r, b)
            BY <3>3 DEF BilledStep, EnterStage, MakeCalls, RecordStage, OpenStagePcs,
                Goto, TypeOK
        <3>4. CASE PersistRun(r) \/ ReleasePermit(r)
            BY <3>4 DEF PersistRun, ReleasePermit, Goto, TypeOK
        <3> QED
            BY <1>1, <3>1, <3>2, <3>3, <3>4, WorkerStepClasses
    <2> QED
        BY <1>1, <2>1, OwnRowOnly
<1>2. CASE OutsideStep
    BY <1>2 DEF OutsideStep
<1>3. CASE StartWorker(r)
    BY <1>3 DEF StartWorker, Goto, TypeOK
<1>4. ASSUME NEW s \in AllSlots, SlotStarts(r, s) \/ SlotFinishes(r, s)
      PROVE  LegacyReleasesNothing'
    BY <1>4 DEF SlotStarts, SlotFinishes, pipeline
<1> QED
    BY <1>1, <1>2, <1>3, <1>4, OtherStepClasses

\* The receipt is settled by the step that leaves the pipeline.
LEMMA SettledAfterPipelineStep ==
    ASSUME TypeOK, SettledAfterPipeline, WorkerAfterRequest, NEW r \in Runs, RunStep(r) \/ Tick
    PROVE  SettledAfterPipeline'
<1> USE DEF SettledAfterPipeline, repository, money, pool
<1>1. CASE WorkerStep(r)
    <2>1. bill'[r] # "open" => worker'[r] \in {"release", "done"}
        <3>1. CASE PlainWorkerStep(r)
            BY <3>1 DEF PlainWorkerStep, Work, WorkerIdle, TypeOK
        <3>2. CASE SlotStep(r)
            BY <3>2 DEF SlotStep, StartAnswers, CollectAnswer, SkipRaisedSlot, Collecting,
                CutSlotAtDeadline, RecordAnswer, At, Goto, TypeOK
        <3>3. CASE \E b \in BillableStage : BilledStep(r, b)
            <4>1. bill'[r] = bill[r] /\ worker[r] \notin {"release", "done"}
                BY <3>3 DEF BilledStep, EnterStage, MakeCalls, RecordStage, OpenStagePcs, At
            <4> QED
                BY <4>1
        <3>4. CASE PersistRun(r) \/ ReleasePermit(r)
            BY <3>4 DEF PersistRun, ReleasePermit, Goto, TypeOK
        <3> QED
            BY <1>1, <3>1, <3>2, <3>3, <3>4, WorkerStepClasses
    <2> QED
        BY <1>1, <2>1, OwnRowOnly
<1>2. CASE OutsideStep
    BY <1>2 DEF OutsideStep, Work
<1>3. CASE StartWorker(r)
    <2>1. worker[r] = "none"
        BY <1>3 DEF StartWorker, WorkerAfterRequest
    <2> QED
        BY <1>3, <2>1 DEF StartWorker, Goto, TypeOK
<1>4. ASSUME NEW s \in AllSlots, SlotStarts(r, s) \/ SlotFinishes(r, s)
      PROVE  SettledAfterPipeline'
    BY <1>4 DEF SlotStarts, SlotFinishes, pipeline
<1> QED
    BY <1>1, <1>2, <1>3, <1>4, OtherStepClasses

\* Entering a stage is written before its first call, recording it after its
\* last one.
LEMMA CaptureStateStep ==
    ASSUME TypeOK, CaptureState, NEW r \in Runs, RunStep(r) \/ Tick
    PROVE  CaptureState'
<1> USE DEF repository, money, pool
<1>0. \A q \in Runs, b \in BillableStage :
          /\ calls[q][b] \in Nat /\ recorded[q][b] \in Nat
    BY DEF TypeOK
<1>1. CASE WorkerStep(r)
    <2>1. \A b \in BillableStage :
              /\ billing'[r][b] = "not_entered" => calls'[r][b] = 0 /\ recorded'[r][b] = 0
              /\ billing'[r][b] = "recorded" => recorded'[r][b] = calls'[r][b]
              /\ worker'[r] \in OpenStagePcs(b) => billing'[r][b] = "entered"
        <3>1. CASE PlainWorkerStep(r)
            BY <3>1 DEF PlainWorkerStep, Work, CaptureState, TypeOK
        <3>2. CASE SlotStep(r)
            <4>1. worker'[r] \in {worker[r], "collect", "record", "persist"}
                BY <3>2 DEF SlotStep, StartAnswers, CollectAnswer, SkipRaisedSlot,
                    CutSlotAtDeadline, RecordAnswer, Goto, TypeOK
            <4>2. UNCHANGED <<billing, calls, recorded>>
                BY <3>2 DEF SlotStep, StartAnswers, CollectAnswer, SkipRaisedSlot,
                    CutSlotAtDeadline, RecordAnswer
            <4> QED
                BY <4>1, <4>2 DEF CaptureState, OpenStagePcs
        <3>3. ASSUME NEW c \in BillableStage, BilledStep(r, c), NEW b \in BillableStage
              PROVE  /\ billing'[r][b] = "not_entered" => calls'[r][b] = 0 /\ recorded'[r][b] = 0
                     /\ billing'[r][b] = "recorded" => recorded'[r][b] = calls'[r][b]
                     /\ worker'[r] \in OpenStagePcs(b) => billing'[r][b] = "entered"
            <4>0. b # c => OpenStagePcs(b) \cap OpenStagePcs(c) = {}
                BY DEF OpenStagePcs, BillableStage
            <4>1. ASSUME NEW from, NEW pc \in OpenStagePcs(c), EnterStage(r, from, c, pc)
                  PROVE  /\ worker'[r] \in OpenStagePcs(c)
                         /\ billing' = [billing EXCEPT ![r][c] = "entered"]
                         /\ UNCHANGED <<calls, recorded>>
                BY <4>1 DEF EnterStage, Goto, TypeOK
            <4>2. ASSUME NEW from \in OpenStagePcs(c), NEW pcs \in SUBSET OpenStagePcs(c),
                         MakeCalls(r, from, c, pcs)
                  PROVE  /\ worker[r] \in OpenStagePcs(c) /\ worker'[r] \in OpenStagePcs(c)
                         /\ \A d \in BillableStage \ {c} : calls'[r][d] = calls[r][d]
                         /\ UNCHANGED <<billing, recorded>>
                BY <4>2 DEF MakeCalls, Goto, At, TypeOK
            <4>3. ASSUME NEW from \in OpenStagePcs(c), NEW pc \in {"leave_round_1", "complete"},
                         RecordStage(r, from, c, pc)
                  PROVE  /\ worker'[r] \notin OpenStagePcs(b)
                         /\ billing' = [billing EXCEPT ![r][c] = "recorded"]
                         /\ recorded' = [recorded EXCEPT ![r][c] = calls[r][c]]
                         /\ UNCHANGED calls
                BY <4>3 DEF RecordStage, Goto, OpenStagePcs, TypeOK
            <4>4. CASE \E from \in {"enter_debate", "enter_synthesis"}, pc \in OpenStagePcs(c) :
                           EnterStage(r, from, c, pc)
                BY <4>0, <4>1, <4>4 DEF CaptureState, TypeOK
            <4>5. CASE \E from \in OpenStagePcs(c), pcs \in SUBSET OpenStagePcs(c) :
                           MakeCalls(r, from, c, pcs)
                BY <4>0, <4>2, <4>5 DEF CaptureState
            <4>6. CASE \E from \in OpenStagePcs(c), pc \in {"leave_round_1", "complete"} :
                           RecordStage(r, from, c, pc)
                BY <4>0, <4>3, <4>6 DEF CaptureState, TypeOK
            <4> QED
                BY <3>3, <4>4, <4>5, <4>6 DEF BilledStep
        <3>4. CASE PersistRun(r) \/ ReleasePermit(r)
            <4>1. worker'[r] \in {"release", "done"}
                BY <3>4 DEF PersistRun, ReleasePermit, Goto, TypeOK
            <4>2. \A b \in BillableStage : worker'[r] \notin OpenStagePcs(b)
                BY <4>1 DEF OpenStagePcs
            <4>3. UNCHANGED <<billing, calls, recorded>>
                BY <3>4 DEF PersistRun, ReleasePermit
            <4> QED
                BY <4>2, <4>3 DEF CaptureState
        <3> QED
            BY <1>1, <3>1, <3>2, <3>3, <3>4, WorkerStepClasses
    <2> QED
        BY <1>1, <2>1, OwnRowOnly DEF CaptureState
<1>2. CASE OutsideStep
    BY <1>2 DEF OutsideStep, Work, CaptureState
<1>3. CASE StartWorker(r)
    <2>1. \A q \in Runs : worker'[q] \in {worker[q], "begin"}
        BY <1>3 DEF StartWorker, Goto, TypeOK
    <2>2. UNCHANGED <<billing, calls, recorded>>
        BY <1>3 DEF StartWorker
    <2> QED
        BY <2>1, <2>2 DEF CaptureState, OpenStagePcs
<1>4. ASSUME NEW s \in AllSlots, SlotStarts(r, s) \/ SlotFinishes(r, s)
      PROVE  CaptureState'
    BY <1>4 DEF SlotStarts, SlotFinishes, pipeline, CaptureState
<1> QED
    BY <1>1, <1>2, <1>3, <1>4, OtherStepClasses

\* A slot answers live only after its call, and only the run's slots are asked.
LEMMA LiveAnswersWerePaidStep ==
    ASSUME TypeOK, AnswerInHand, LiveAnswersWerePaid, NEW r \in Runs, RunStep(r) \/ Tick
    PROVE  LiveAnswersWerePaid'
<1> USE DEF repository, money, pool
<1>0. \A q \in Runs : SlotsOf(q)' = SlotsOf(q) /\ SlotsOf(q) \subseteq AllSlots
    BY RunsAssumption DEF SlotsOf, AllSlots
<1> DEFINE Sound(q) ==
        /\ paid[q] \subseteq SlotsOf(q)
        /\ \A s \in AllSlots :
            /\ tasks[q][s] # "unused" => s \in SlotsOf(q)
            /\ tasks[q][s] = "live" => s \in paid[q]
            /\ answers[q][s] = "live" => s \in paid[q]
<1>1. CASE WorkerStep(r)
    <2>1. Sound(r)'
        <3>1. CASE PlainWorkerStep(r)
            BY <1>0, <3>1 DEF PlainWorkerStep, Work, LiveAnswersWerePaid, AllSlots
        <3>2. CASE SlotStep(r)
            <4>1. CASE StartAnswers(r)
                BY <1>0, <4>1 DEF StartAnswers, LiveAnswersWerePaid, AllSlots, TypeOK
            <4>2. CASE CollectAnswer(r) \/ SkipRaisedSlot(r) \/ CutSlotAtDeadline(r)
                BY <1>0, <4>2 DEF CollectAnswer, SkipRaisedSlot, CutSlotAtDeadline,
                    LiveAnswersWerePaid, AllSlots
            <4>3. CASE RecordAnswer(r)
                <5>1. PICK x \in {"cut", tasks[r][cursor[r]]} :
                          answers' = [answers EXCEPT ![r][cursor[r]] = x]
                    BY <4>3 DEF RecordAnswer, Awaited
                <5>2. UNCHANGED <<tasks, paid>>
                    BY <4>3 DEF RecordAnswer
                <5> QED
                    BY <1>0, <5>1, <5>2 DEF LiveAnswersWerePaid, AllSlots, TypeOK
            <4> QED
                BY <3>2, <4>1, <4>2, <4>3 DEF SlotStep
        <3>3. CASE \E b \in BillableStage : BilledStep(r, b)
            <4>1. UNCHANGED <<answers, tasks, paid>>
                BY <3>3 DEF BilledStep, EnterStage, MakeCalls, RecordStage
            <4> QED
                BY <1>0, <4>1 DEF LiveAnswersWerePaid, AllSlots
        <3>4. CASE PersistRun(r) \/ ReleasePermit(r)
            BY <1>0, <3>4 DEF PersistRun, ReleasePermit, LiveAnswersWerePaid, AllSlots
        <3> QED
            BY <1>1, <3>1, <3>2, <3>3, <3>4, WorkerStepClasses
    <2> QED
        BY <1>0, <1>1, <2>1, OwnRowOnly DEF LiveAnswersWerePaid, AllSlots
<1>2. CASE OutsideStep \/ StartWorker(r)
    BY <1>0, <1>2 DEF OutsideStep, StartWorker, Work, LiveAnswersWerePaid, AllSlots
<1>3. ASSUME NEW s \in AllSlots, SlotStarts(r, s)
      PROVE  LiveAnswersWerePaid'
    <2>1. PICK x \in {"calling", "failed"} : tasks' = [tasks EXCEPT ![r][s] = x]
        BY <1>3 DEF SlotStarts
    <2>2. s \in SlotsOf(r) /\ UNCHANGED answers
        BY <1>3 DEF SlotStarts, LiveAnswersWerePaid
    <2>3. \A q \in Runs : /\ paid[q] \subseteq paid'[q]
                          /\ paid'[q] \subseteq SlotsOf(q)
        <3>1. CASE Stopped(r)
            BY <1>3, <3>1 DEF SlotStarts, LiveAnswersWerePaid
        <3>2. CASE ~Stopped(r)
            <4>1. paid' = IF CanSpend(r) THEN [paid EXCEPT ![r] = @ \cup {s}] ELSE paid
                BY <1>3, <3>2 DEF SlotStarts
            <4> QED
                BY <2>2, <4>1 DEF LiveAnswersWerePaid, TypeOK
        <3> QED
            BY <3>1, <3>2
    <2> QED
        BY <1>0, <2>1, <2>2, <2>3 DEF LiveAnswersWerePaid, AllSlots, TypeOK
<1>4. ASSUME NEW s \in AllSlots, SlotFinishes(r, s)
      PROVE  LiveAnswersWerePaid'
    <2>1. PICK x : /\ x = "live" => s \in paid[r]
                   /\ tasks' = [tasks EXCEPT ![r][s] = x]
        BY <1>4 DEF SlotFinishes
    <2>2. s \in SlotsOf(r) /\ UNCHANGED <<answers, paid>>
        BY <1>4 DEF SlotFinishes, LiveAnswersWerePaid
    <2> QED
        BY <1>0, <2>1, <2>2 DEF LiveAnswersWerePaid, AllSlots, TypeOK
<1> QED
    BY <1>1, <1>2, <1>3, <1>4, OtherStepClasses

\* Nothing is collected, called or recorded after the receipt is settled.
LEMMA MeasuredStaysStep ==
    ASSUME TypeOK, CaptureState, SettledAfterPipeline, MeasuredStays,
           NEW r \in Runs, RunStep(r) \/ Tick
    PROVE  MeasuredStays'
<1> USE DEF repository, money, pool
<1>0. \A q \in Runs : SlotsOf(q)' = SlotsOf(q)
    BY DEF SlotsOf, AllSlots
<1>1. CASE WorkerStep(r)
    <2>1. bill'[r] = "measured" => PipelineCaptured(r)' /\ recorded'[r] = calls'[r]
        <3>1. CASE PlainWorkerStep(r)
            BY <1>0, <3>1 DEF PlainWorkerStep, Work, MeasuredStays, PipelineCaptured
        <3>2. CASE SlotStep(r)
            BY <3>2 DEF SlotStep, StartAnswers, CollectAnswer, SkipRaisedSlot, Collecting,
                CutSlotAtDeadline, RecordAnswer, At, SettledAfterPipeline
        <3>3. CASE \E b \in BillableStage : BilledStep(r, b)
            <4>1. worker[r] \notin {"release", "done"} /\ UNCHANGED bill
                BY <3>3 DEF BilledStep, EnterStage, MakeCalls, RecordStage, OpenStagePcs, At
            <4> QED
                BY <4>1 DEF SettledAfterPipeline
        <3>4. CASE PersistRun(r)
            <4>1. UNCHANGED <<answers, billing, recorded, calls>>
                BY <3>4 DEF PersistRun
            <4>2. bill'[r] = "measured" => PipelineCaptured(r)
                <5>1. bill[r] = "open"
                    BY <3>4 DEF PersistRun, SettledAfterPipeline
                <5> QED
                    BY <3>4, <5>1 DEF PersistRun, SettleReceipt, Measured, TypeOK
            <4>3. PipelineCaptured(r) => recorded[r] = calls[r]
                <5>1. PipelineCaptured(r) => \A b \in BillableStage : recorded[r][b] = calls[r][b]
                    BY DEF PipelineCaptured, CaptureState, TypeOK, StageBillingState
                <5> QED
                    BY <5>1 DEF TypeOK
            <4> QED
                BY <1>0, <4>1, <4>2, <4>3 DEF PipelineCaptured
        <3>5. CASE ReleasePermit(r)
            BY <1>0, <3>5 DEF ReleasePermit, MeasuredStays, PipelineCaptured
        <3> QED
            BY <1>1, <3>1, <3>2, <3>3, <3>4, <3>5, WorkerStepClasses
    <2> QED
        BY <1>0, <1>1, <2>1, OwnRowOnly DEF MeasuredStays, PipelineCaptured
<1>2. CASE OutsideStep \/ StartWorker(r)
    BY <1>0, <1>2 DEF OutsideStep, StartWorker, Work, MeasuredStays, PipelineCaptured
<1>3. ASSUME NEW s \in AllSlots, SlotStarts(r, s) \/ SlotFinishes(r, s)
      PROVE  MeasuredStays'
    <2>1. UNCHANGED <<answers, billing, recorded, calls, bill>>
        BY <1>3 DEF SlotStarts, SlotFinishes
    <2> QED
        BY <1>0, <2>1 DEF MeasuredStays, PipelineCaptured
<1> QED
    BY <1>1, <1>2, <1>3, OtherStepClasses

\* The key is spent only while the charge stands, and the charge is written
\* only before there is a worker to spend anything.
LEMMA NoUnbookedSpendStep ==
    ASSUME TypeOK, WorkerAfterRequest, NothingBeforeWorker, NoUnbookedSpend,
           NEW r \in Runs, RunStep(r) \/ Tick
    PROVE  NoUnbookedSpend'
<1> USE DEF repository, money, pool
<1> DEFINE Unspent(q) == paid[q] = {} /\ \A b \in BillableStage : calls[q][b] = 0
<1>0. /\ \A q \in Runs : charge[q] = "recorded" \/ Unspent(q)
      /\ \A q \in Runs, b \in BillableStage : calls[q][b] \in Nat
    BY DEF NoUnbookedSpend, TypeOK
<1>1. SUFFICES \A q \in Runs : charge'[q] = "recorded" \/ Unspent(q)'
    BY DEF NoUnbookedSpend
<1>2. CASE WorkerStep(r)
    <2>1. UNCHANGED <<charge, paid>> /\ (UNCHANGED calls \/ CanSpend(r))
        <3>1. CASE PlainWorkerStep(r)
            BY <3>1 DEF PlainWorkerStep, Work
        <3>2. CASE SlotStep(r)
            BY <3>2 DEF SlotStep, StartAnswers, CollectAnswer, SkipRaisedSlot,
                CutSlotAtDeadline, RecordAnswer
        <3>3. ASSUME NEW b \in BillableStage, BilledStep(r, b)
              PROVE  UNCHANGED <<charge, paid>> /\ (UNCHANGED calls \/ CanSpend(r))
            <4>1. ASSUME NEW from, NEW pcs, MakeCalls(r, from, b, pcs)
                  PROVE  UNCHANGED <<charge, paid>> /\ (UNCHANGED calls \/ CanSpend(r))
                <5>1. PICK n \in 0..1 : /\ n > 0 => CanSpend(r)
                                        /\ calls' = [calls EXCEPT ![r][b] = @ + n]
                    BY <4>1 DEF MakeCalls
                <5>2. n = 0 => calls' = calls
                    BY <1>0, <5>1 DEF TypeOK
                <5> QED
                    BY <4>1, <5>1, <5>2 DEF MakeCalls
            <4> QED
                BY <3>3, <4>1 DEF BilledStep, EnterStage, RecordStage
        <3>4. CASE PersistRun(r) \/ ReleasePermit(r)
            BY <3>4 DEF PersistRun, ReleasePermit
        <3> QED
            BY <1>2, <3>1, <3>2, <3>3, <3>4, WorkerStepClasses
    <2> QED
        BY <1>0, <1>2, <2>1, OwnRowOnly DEF CanSpend
<1>3. CASE RequestStep(r)
    <2>1. UNCHANGED <<paid, calls>> /\ \A q \in Runs \ {r} : charge'[q] = charge[q]
        BY <1>3 DEF RequestStep, TakePermit, RefuseForCapacity, CreateRun, RefuseAtCreate,
            ChargeRun, ChargeRaises, MarkDegraded, StartWorker, ThreadFailsToStart,
            VoidCharge, AbandonRun, ReturnPermitUnused, TypeOK
    <2>2. request[r] # "done" \/ UNCHANGED charge
        BY <1>3 DEF RequestStep, TakePermit, RefuseForCapacity, CreateRun, RefuseAtCreate,
            ChargeRun, ChargeRaises, MarkDegraded, StartWorker, ThreadFailsToStart,
            VoidCharge, AbandonRun, ReturnPermitUnused
    <2> QED
        BY <1>0, <2>1, <2>2 DEF WorkerAfterRequest, NothingBeforeWorker
<1>4. ASSUME NEW s \in AllSlots, SlotStarts(r, s) \/ SlotFinishes(r, s)
      PROVE  \A q \in Runs : charge'[q] = "recorded" \/ Unspent(q)'
    <2>1. UNCHANGED <<charge, calls>> /\ \A q \in Runs \ {r} : paid'[q] = paid[q]
        BY <1>4 DEF SlotStarts, SlotFinishes, TypeOK
    <2>2. paid'[r] = paid[r] \/ CanSpend(r)
        BY <1>4 DEF SlotStarts, SlotFinishes
    <2> QED
        BY <1>0, <2>1, <2>2 DEF CanSpend
<1>5. CASE ~WorkerStep(r) /\ ~RequestStep(r) /\
           ~(\E s \in AllSlots : SlotStarts(r, s) \/ SlotFinishes(r, s))
    <2>1. UNCHANGED <<charge, paid, calls>>
        BY <1>5, JudgeTouches DEF RunStep, UserCancels, CancelStampsStage, BudgetExpires,
            PurgeRun, Tick
    <2> QED
        BY <1>0, <2>1
<1> QED
    BY <1>2, <1>3, <1>4, <1>5

-----------------------------------------------------------------------------
(* How a status may change                                                 *)

\* A status is written by create, or over the status of a run that is there:
\* never over a terminal one except by the purge, and never to revive a run.
StatusStep(r) ==
    \/ UNCHANGED status
    \/ /\ Present(r)
       /\ \E st \in QueryRunStatus \cup {"purged"} :
            /\ status' = [status EXCEPT ![r] = st]
            /\ IsTerminal(r) => st \in {status[r], "purged"}
            /\ st \in ActiveStatuses => IsActive(r)

\* Active and terminal statuses do not overlap.
LEMMA StatusesDisjoint ==
    /\ ActiveStatuses \cap TERMINAL_STATUSES = {}
    /\ "purged" \notin QueryRunStatus /\ "absent" \notin QueryRunStatus
    /\ QueryRunStatus = ActiveStatuses \cup TERMINAL_STATUSES
BY DEF ActiveStatuses, TERMINAL_STATUSES, QueryRunStatus

\* update_status respects it.
LEMMA UpdateIsStatusStep ==
    ASSUME NEW r \in Runs, NEW st \in QueryRunStatus, NEW p, Present(r), UpdateStatus(r, st, p)
    PROVE  StatusStep(r)
<1>1. CASE IsTerminal(r)
    BY <1>1 DEF UpdateStatus, StatusStep
<1>2. CASE ~IsTerminal(r)
    BY <1>2, StatusesDisjoint DEF UpdateStatus, StatusStep, Present, IsActive, IsTerminal
<1> QED
    BY <1>1, <1>2

\* So does transition: nothing leads out of a terminal status.
LEMMA TransitionIsStatusStep ==
    ASSUME NEW r \in Runs, NEW st \in QueryRunStatus, MayTransition(r, st), Transition(r, st)
    PROVE  StatusStep(r)
<1>1. ~IsTerminal(r)
    <2>1. \A s \in TERMINAL_STATUSES : ALLOWED_TRANSITIONS[s] = {}
        BY DEF ALLOWED_TRANSITIONS, TERMINAL_STATUSES, QueryRunStatus
    <2> QED
        BY <2>1 DEF MayTransition, IsTerminal
<1> QED
    BY <1>1, StatusesDisjoint DEF Transition, MayTransition, StatusStep, Present, IsActive, IsTerminal

\* And so does every step but the creation of the run.
LEMMA StatusEffect ==
    ASSUME TypeOK, NEW r \in Runs, RunStep(r) \/ Tick
    PROVE  StatusStep(r) \/ CreateRun(r)
<1> USE DEF repository, money, pool, pipeline
<1>1. ASSUME NEW from, NEW st \in QueryRunStatus, NEW p, NEW pc, WriteAndGo(r, from, st, p, pc)
      PROVE  StatusStep(r)
    BY <1>1, UpdateIsStatusStep DEF WriteAndGo, At
<1>2. ASSUME NEW from, NEW st \in QueryRunStatus, NEW p, NEW pc, EndAndGo(r, from, st, p, pc)
      PROVE  StatusStep(r)
    BY <1>1, <1>2 DEF EndAndGo
<1>3. ASSUME NEW late, DegradeForDeadline(r, late)
      PROVE  StatusStep(r)
    <2>1. CASE MayTransition(r, "timed_out")
        BY <1>3, <2>1, TransitionIsStatusStep, StatusNames DEF DegradeForDeadline
    <2>2. CASE ~MayTransition(r, "timed_out")
        BY <1>3, <2>2 DEF DegradeForDeadline, StatusStep
    <2> QED
        BY <2>1, <2>2
<1>4. ASSUME NEW from, NEW stage, NEW pc, AnnounceStage(r, from, stage, pc)
      PROVE  StatusStep(r)
    BY <1>1, <1>4 DEF AnnounceStage, WriteAndGo, At, Present
<1>5. ASSUME NEW from, NEW late, NEW pc, StageGate(r, from, late, pc)
      PROVE  StatusStep(r)
    <2>1. CASE Stopped(r) \/ ~expired[r]
        BY <1>5, <2>1 DEF StageGate, StatusStep
    <2>2. CASE ~(Stopped(r) \/ ~expired[r])
        BY <1>3, <1>5, <2>2 DEF StageGate
    <2> QED
        BY <2>1, <2>2
<1>6. ASSUME NEW from, NEW b, NEW pc, NEW pcs,
             \/ EnterStage(r, from, b, pc) \/ RecordStage(r, from, b, pc)
             \/ MakeCalls(r, from, b, pcs) \/ StageReturns(r, from, b, pc)
      PROVE  StatusStep(r)
    BY <1>6 DEF EnterStage, RecordStage, MakeCalls, StageReturns, StatusStep
<1>7. CASE Debate(r)
    BY <1>7, <1>1, <1>4, <1>5, <1>6, StatusNames DEF Debate
<1>8. CASE LeaveDebate(r)
    BY <1>8, <1>1, <1>2, StatusNames DEF LeaveDebate
<1>9. CASE Synthesis(r)
    BY <1>9, <1>1, <1>4, <1>5, <1>6, StatusNames DEF Synthesis
<1>10. CASE \/ FailWithoutKey(r) \/ EndWithoutAnswers(r) \/ LeaveAnswers(r)
            \/ QuickSkipsStages(r) \/ QuickCompletes(r)
    BY <1>10, <1>1, <1>2, StatusNames DEF FailWithoutKey, EndWithoutAnswers, LeaveAnswers,
        QuickSkipsStages, QuickCompletes, Collected, At, Present
<1>11. CASE StartAnswers(r)
    BY <1>11, UpdateIsStatusStep, StatusNames DEF StartAnswers, At
<1>12. CASE EndAtDeadline(r)
    BY <1>12, <1>3 DEF EndAtDeadline
<1>13. CASE WorkerRaises(r)
    <2>1. CASE Legacy(r)
        BY <1>13, <2>1 DEF WorkerRaises, StatusStep
    <2>2. CASE ~Legacy(r)
        BY <1>13, <2>2, UpdateIsStatusStep, StatusNames DEF WorkerRaises
    <2> QED
        BY <2>1, <2>2
<1>14. CASE \/ CollectAnswer(r) \/ SkipRaisedSlot(r) \/ CutSlotAtDeadline(r) \/ RecordAnswer(r)
            \/ StampEndedRun(r) \/ WorkerFindsRunGone(r) \/ PersistRun(r) \/ ReleasePermit(r)
    BY <1>14 DEF CollectAnswer, SkipRaisedSlot, CutSlotAtDeadline, RecordAnswer, StampEndedRun,
        Annotate, WorkerFindsRunGone, PersistRun, ReleasePermit, StatusStep
<1>15. CASE WorkerStep(r)
    BY <1>7, <1>8, <1>9, <1>10, <1>11, <1>12, <1>13, <1>14, <1>15 DEF WorkerStep
<1>16. CASE RequestStep(r)
    <2>1. CASE AbandonRun(r)
        <3>1. CASE MayTransition(r, "failed")
            BY <2>1, <3>1, TransitionIsStatusStep, StatusNames DEF AbandonRun
        <3>2. CASE ~MayTransition(r, "failed")
            BY <2>1, <3>2 DEF AbandonRun, StatusStep
        <3> QED
            BY <3>1, <3>2
    <2>2. CASE ~AbandonRun(r) /\ ~CreateRun(r)
        BY <1>16, <2>2 DEF RequestStep, TakePermit, RefuseForCapacity, RefuseAtCreate,
            ChargeRun, ChargeRaises, MarkDegraded, StartWorker, ThreadFailsToStart,
            VoidCharge, ReturnPermitUnused, StatusStep
    <2> QED
        BY <2>1, <2>2
<1>17. CASE UserCancels(r)
    BY <1>17, TransitionIsStatusStep, StatusNames DEF UserCancels
<1>18. CASE CancelStampsStage(r)
    BY <1>18 DEF CancelStampsStage, Annotate, StatusStep
<1>19. CASE PurgeRun(r)
    BY <1>19, StatusesDisjoint DEF PurgeRun, StatusStep
<1>20. CASE BudgetExpires(r) \/ Tick \/ (\E s \in AllSlots : SlotStarts(r, s) \/ SlotFinishes(r, s))
    BY <1>20 DEF BudgetExpires, Tick, SlotStarts, SlotFinishes, StatusStep
<1>21. CASE JudgeStep(r)
    BY <1>21, JudgeTouches DEF StatusStep
<1> QED
    BY <1>15, <1>16, <1>17, <1>18, <1>19, <1>20, <1>21 DEF RunStep

\* A request past its creation does not come back, and nobody else creates.
LEMMA CreatedByRequestStep ==
    ASSUME TypeOK, CreatedByRequest, NEW r \in Runs, RunStep(r) \/ Tick
    PROVE  CreatedByRequest'
<1> USE DEF CreatedByRequest
<1>1. \A q \in Runs : request'[q] \in {"idle", "reserved"} => request[q] \in {"idle", "reserved"}
    <2>1. CASE RequestStep(r)
        BY <2>1 DEF RequestStep, TakePermit, RefuseForCapacity, CreateRun, RefuseAtCreate,
            ChargeRun, ChargeRaises, MarkDegraded, StartWorker, ThreadFailsToStart,
            VoidCharge, AbandonRun, ReturnPermitUnused, Ask, TypeOK
    <2>2. CASE WorkerStep(r)
        <3>1. UNCHANGED request
            BY <2>2, WorkerStepClasses DEF PlainWorkerStep, SlotStep, StartAnswers,
                CollectAnswer, SkipRaisedSlot, CutSlotAtDeadline, RecordAnswer, BilledStep,
                EnterStage, MakeCalls, RecordStage, PersistRun, ReleasePermit
        <3> QED
            BY <3>1
    <2>3. CASE ~RequestStep(r) /\ ~WorkerStep(r)
        BY <2>3, JudgeTouches DEF RunStep, UserCancels, CancelStampsStage, SlotStarts,
            SlotFinishes, BudgetExpires, PurgeRun, Tick
    <2> QED
        BY <2>1, <2>2, <2>3
<1>2. CASE StatusStep(r)
    BY <1>1, <1>2, StatusesDisjoint DEF StatusStep, Present, TypeOK
<1>3. CASE CreateRun(r)
    BY <1>1, <1>3 DEF CreateRun, Ask, TypeOK
<1> QED
    BY <1>2, <1>3, StatusEffect

-----------------------------------------------------------------------------
(* The theorems                                                            *)

\* Every step keeps the types.
LEMMA TypeStep ==
    ASSUME TypeOK, AnswerInHand, NEW r \in Runs, RunStep(r) \/ Tick
    PROVE  TypeOK'
BY RequestType, EnvironmentType, AnswersType, StagesType, SettlingType DEF RunStep, WorkerStep

LEMMA InvInit == Init => RunsInv
<1> SUFFICES ASSUME Init PROVE RunsInv
    OBVIOUS
<1>1. TypeOK
    BY RunsAssumption DEF Init, TypeOK, InitialProgress, StageState, StageBillingState,
        WorkerPcs, RequestPcs
<1>2. WorkerAfterRequest /\ CreatedByRequest /\ NothingBeforeWorker /\ AnswerInHand
    BY DEF Init, WorkerAfterRequest, CreatedByRequest, NothingBeforeWorker, AnswerInHand
<1>3. LegacyReleasesNothing /\ SettledAfterPipeline /\ CaptureState
    BY DEF Init, LegacyReleasesNothing, SettledAfterPipeline, CaptureState, OpenStagePcs
<1>4. LiveAnswersWerePaid /\ MeasuredStays /\ NoUnbookedSpend
    BY DEF Init, LiveAnswersWerePaid, MeasuredStays, NoUnbookedSpend
<1> QED
    BY <1>1, <1>2, <1>3, <1>4 DEF RunsInv

LEMMA InvStep == RunsInv /\ [Next]_vars => RunsInv'
<1> SUFFICES ASSUME RunsInv, [Next]_vars PROVE RunsInv'
    OBVIOUS
<1>1. ASSUME NEW r \in Runs, RunStep(r) \/ Tick
      PROVE  RunsInv'
    BY <1>1, TypeStep, CreatedByRequestStep, WorkerAfterRequestStep, NothingBeforeWorkerStep,
        AnswerInHandStep, LegacyReleasesNothingStep, SettledAfterPipelineStep,
        CaptureStateStep, LiveAnswersWerePaidStep, MeasuredStaysStep, NoUnbookedSpendStep
    DEF RunsInv
<1>2. CASE UNCHANGED vars
    <2> USE <1>2 DEF RunsInv, vars, repository, money, judging, pool, pipeline
    <2>1. TypeOK' /\ CreatedByRequest' /\ WorkerAfterRequest' /\ NothingBeforeWorker'
        BY DEF TypeOK, CreatedByRequest, WorkerAfterRequest, NothingBeforeWorker, AllSlots
    <2>2. AnswerInHand' /\ LegacyReleasesNothing' /\ SettledAfterPipeline' /\ CaptureState'
        BY DEF AnswerInHand, Awaited, LegacyReleasesNothing, Legacy, SettledAfterPipeline,
            CaptureState, SlotsOf, AllSlots
    <2>3. LiveAnswersWerePaid' /\ MeasuredStays' /\ NoUnbookedSpend'
        BY DEF LiveAnswersWerePaid, MeasuredStays, PipelineCaptured, NoUnbookedSpend, SlotsOf, AllSlots
    <2> QED
        BY <2>1, <2>2, <2>3
<1>3. CASE Runs = {} /\ Tick
    <2>1. TypeOK'
        BY <1>3, RunsAssumption
        DEF Tick, RunsInv, TypeOK, repository, money, judging, pool, pipeline
    <2> QED
        BY <1>3, <2>1 DEF RunsInv, CreatedByRequest, WorkerAfterRequest, NothingBeforeWorker,
            AnswerInHand, LegacyReleasesNothing, SettledAfterPipeline, CaptureState,
            LiveAnswersWerePaid, MeasuredStays, NoUnbookedSpend
<1> QED
    BY <1>1, <1>2, <1>3 DEF Next

\* The inductive invariant holds in every behaviour.
THEOREM RunsInvariant == Spec => []RunsInv
BY InvInit, InvStep, PTL DEF Spec

\* TypeOK: every variable keeps its type.
THEOREM TypeCorrect == Spec => []TypeOK
<1>1. RunsInv => TypeOK
    BY DEF RunsInv
<1> QED
    BY <1>1, RunsInvariant, PTL

\* NoUnbookedSpend: a provider call is made only for a run whose estimate is
\* booked, through every refused, raised and voided charge of the POST.
THEOREM SpendIsBooked == Spec => []NoUnbookedSpend
<1>1. RunsInv => NoUnbookedSpend
    BY DEF RunsInv
<1> QED
    BY <1>1, RunsInvariant, PTL

\* MeasuredBillIsExact: whatever cancels, crashes and deadlines did to the run,
\* a receipt that reads "measured" leaves no call of any stage out.
THEOREM MeasuredIsExact == Spec => []MeasuredBillIsExact
<1>1. ASSUME RunsInv, NEW r \in Runs, Measured(r)
      PROVE  recorded[r] = calls[r] /\ paid[r] = SlotsOf(r)
    <2>1. \A b \in BillableStage : recorded[r][b] = calls[r][b]
        BY <1>1 DEF RunsInv, Measured, PipelineCaptured, CaptureState, TypeOK, StageBillingState
    <2>2. recorded[r] = calls[r]
        BY <1>1, <2>1 DEF RunsInv, TypeOK
    <2>3. SlotsOf(r) \subseteq AllSlots
        BY RunsAssumption DEF SlotsOf, AllSlots
    <2>4. paid[r] = SlotsOf(r)
        BY <1>1, <2>3 DEF RunsInv, Measured, PipelineCaptured, LiveAnswersWerePaid
    <2> QED
        BY <2>2, <2>4
<1>2. RunsInv => MeasuredBillIsExact
    BY <1>1 DEF MeasuredBillIsExact
<1> QED
    BY <1>2, RunsInvariant, PTL

-----------------------------------------------------------------------------
(* The judge and the receipt                                               *)

\* A receipt is settled for a run that has ended.
SettledHasEnded ==
    \A r \in Runs : bill[r] # "open" => status[r] \in TERMINAL_STATUSES \cup {"purged"}

\* Unless its verdict was evicted or the worker settled without it, a run has
\* at most one call of the judge, and none before the first one is asked for.
JudgedOnce ==
    \A r \in Runs : ~lapsed[r] => judgeCalls[r] = IF judge[r] = "none" THEN 0 ELSE 1

\* And a receipt settled as measured has that call, or the run needs none.
JudgeIsBooked ==
    \A r \in Runs : (bill[r] = "measured" /\ ~lapsed[r]) =>
        \/ judge[r] = "captured" /\ booked[r] = 1
        \/ judge[r] = "none" /\ booked[r] = 0 /\ ~Judged(r)

JudgeInv == SettledHasEnded /\ JudgedOnce /\ JudgeIsBooked

\* The verdicts of a run move by its judge's steps and by its settlement only.
LEMMA JudgingMoves ==
    ASSUME NEW r \in Runs, RunStep(r) \/ Tick, ~JudgeStep(r), ~PersistRun(r)
    PROVE  UNCHANGED <<judging, bill>>
<1> USE DEF repository, money, pool, pipeline
<1>1. CASE WorkerStep(r)
    <2>1. CASE PlainWorkerStep(r)
        BY <2>1 DEF PlainWorkerStep, Work
    <2>2. CASE SlotStep(r) \/ ReleasePermit(r)
        BY <2>2 DEF SlotStep, StartAnswers, CollectAnswer, SkipRaisedSlot, CutSlotAtDeadline,
            RecordAnswer, ReleasePermit
    <2>3. CASE \E b \in BillableStage : BilledStep(r, b)
        BY <2>3 DEF BilledStep, EnterStage, MakeCalls, RecordStage
    <2> QED
        BY <1>1, <2>1, <2>2, <2>3, WorkerStepClasses
<1>2. CASE RequestStep(r)
    BY <1>2 DEF RequestStep, TakePermit, RefuseForCapacity, CreateRun, RefuseAtCreate,
        ChargeRun, ChargeRaises, MarkDegraded, StartWorker, ThreadFailsToStart, VoidCharge,
        AbandonRun, ReturnPermitUnused
<1>3. CASE ~WorkerStep(r) /\ ~RequestStep(r)
    BY <1>3 DEF RunStep, UserCancels, CancelStampsStage, SlotStarts, SlotFinishes,
        BudgetExpires, PurgeRun, Tick
<1> QED
    BY <1>1, <1>2, <1>3

\* A settled run has its answers, charge and end for good.
LEMMA SettledIsFinal ==
    ASSUME RunsInv, SettledHasEnded, NEW r \in Runs, RunStep(r) \/ Tick,
           NEW q \in Runs, bill[q] # "open"
    PROVE  /\ status'[q] \in {status[q], "purged"}
           /\ answers'[q] = answers[q] /\ charge'[q] = charge[q] /\ bill'[q] = bill[q]
<1> USE DEF repository, money, pool, pipeline
<1>0. /\ TypeOK /\ worker[q] \in {"release", "done"} /\ request[q] = "done"
      /\ status[q] \in TERMINAL_STATUSES \cup {"purged"} /\ status[q] # "absent"
    BY StatusesDisjoint DEF RunsInv, SettledAfterPipeline, WorkerAfterRequest, SettledHasEnded,
        TERMINAL_STATUSES
<1>1. status'[q] \in {status[q], "purged"}
    <2>1. CASE StatusStep(r)
        BY <1>0, <2>1, StatusesDisjoint DEF StatusStep, IsTerminal, Present, TypeOK
    <2>2. CASE CreateRun(r)
        <3>1. q # r
            BY <1>0, <2>2 DEF CreateRun
        <3> QED
            BY <1>0, <2>2, <3>1 DEF CreateRun, TypeOK
    <2> QED
        BY <1>0, <2>1, <2>2, StatusEffect
<1>2. answers'[q] = answers[q] /\ charge'[q] = charge[q] /\ bill'[q] = bill[q]
    <2>1. CASE WorkerStep(r)
        <3>1. CASE PlainWorkerStep(r)
            BY <1>0, <3>1 DEF PlainWorkerStep, Work
        <3>2. CASE q # r /\ ~PlainWorkerStep(r)
            <4>1. UNCHANGED charge
                BY <2>1, <3>2, WorkerStepClasses
                DEF SlotStep, StartAnswers, CollectAnswer, SkipRaisedSlot, CutSlotAtDeadline,
                    RecordAnswer, BilledStep, EnterStage, MakeCalls, RecordStage, PersistRun,
                    ReleasePermit
            <4> QED
                BY <1>0, <2>1, <3>2, <4>1, OwnRowOnly
        <3>3. CASE q = r
            <4>1. ~SlotStep(r) /\ ~PersistRun(r)
                BY <1>0, <3>3 DEF SlotStep, StartAnswers, CollectAnswer, SkipRaisedSlot,
                    Collecting, CutSlotAtDeadline, RecordAnswer, At, PersistRun
            <4>2. ASSUME NEW b \in BillableStage
                  PROVE  ~BilledStep(r, b)
                BY <1>0, <3>3 DEF BilledStep, EnterStage, MakeCalls, RecordStage, At,
                    OpenStagePcs
            <4>3. CASE ReleasePermit(r)
                BY <1>0, <4>3 DEF ReleasePermit
            <4> QED
                BY <2>1, <3>1, <4>1, <4>2, <4>3, WorkerStepClasses
        <3> QED
            BY <3>1, <3>2, <3>3
    <2>2. CASE RequestStep(r)
        <3>1. UNCHANGED <<answers, bill>>
            BY <2>2 DEF RequestStep, TakePermit, RefuseForCapacity, CreateRun, RefuseAtCreate,
                ChargeRun, ChargeRaises, MarkDegraded, StartWorker, ThreadFailsToStart,
                VoidCharge, AbandonRun, ReturnPermitUnused
        <3>2. charge'[q] = charge[q]
            <4>1. q # r
                BY <1>0, <2>2 DEF RequestStep, TakePermit, RefuseForCapacity, CreateRun,
                    RefuseAtCreate, ChargeRun, ChargeRaises, MarkDegraded, StartWorker,
                    ThreadFailsToStart, VoidCharge, AbandonRun, ReturnPermitUnused
            <4> QED
                BY <1>0, <2>2, <4>1 DEF RequestStep, TakePermit, RefuseForCapacity, CreateRun,
                    RefuseAtCreate, ChargeRun, ChargeRaises, MarkDegraded, StartWorker,
                    ThreadFailsToStart, VoidCharge, AbandonRun, ReturnPermitUnused, TypeOK
        <3> QED
            BY <1>0, <3>1, <3>2
    <2>3. CASE ~WorkerStep(r) /\ ~RequestStep(r)
        BY <1>0, <2>3, JudgeTouches DEF RunStep, UserCancels, CancelStampsStage, SlotStarts,
            SlotFinishes, BudgetExpires, PurgeRun, Tick
    <2> QED
        BY <2>1, <2>2, <2>3
<1> QED
    BY <1>1, <1>2

\* So whether a settled run wants a judge is settled, too.
LEMMA SettledWantsNoNewJudge ==
    ASSUME RunsInv, SettledHasEnded, NEW r \in Runs, RunStep(r) \/ Tick,
           NEW q \in Runs, bill[q] # "open", ~Judged(q)
    PROVE  ~Judged(q)'
<1>1. /\ status'[q] \in {status[q], "purged"}
      /\ answers'[q] = answers[q] /\ charge'[q] = charge[q]
    BY SettledIsFinal
<1>2. "purged" \notin TERMINAL_STATUSES
    BY DEF TERMINAL_STATUSES
<1> QED
    BY <1>1, <1>2 DEF Judged, SlotsOf, AllSlots

\* The settlement itself books the verdict at hand, or marks that there is none.
LEMMA PersistBooks ==
    ASSUME RunsInv, JudgeInv, NEW r \in Runs, PersistRun(r)
    PROVE  JudgeInv'
<1>0. TypeOK /\ bill[r] = "open" /\ SettledHasEnded
    BY DEF RunsInv, SettledAfterPipeline, PersistRun, JudgeInv
<1>1. /\ UNCHANGED <<status, answers, charge, judge, judgeCalls>>
      /\ \A q \in Runs \ {r} : /\ bill'[q] = bill[q] /\ booked'[q] = booked[q]
                               /\ lapsed'[q] = lapsed[q]
    BY <1>0 DEF PersistRun, SettleReceipt, repository, TypeOK
<1>2. \A q \in Runs : Judged(q)' = Judged(q)
    BY <1>1 DEF Judged, SlotsOf, AllSlots
<1>3. /\ bill'[r] # "open" => IsTerminal(r)
      /\ bill'[r] = "measured" => Measured(r)
      /\ ~lapsed'[r] => ~lapsed[r] /\ ~Unanswered(r)
      /\ bill'[r] = "measured" => booked'[r] = IF judge[r] = "captured" THEN 1 ELSE 0
    <2>1. /\ bill'[r] # "open" => IsTerminal(r)
          /\ bill'[r] = "measured" => Measured(r)
        BY <1>0 DEF PersistRun, SettleReceipt, TypeOK
    <2>2. ~lapsed'[r] => ~lapsed[r] /\ ~Unanswered(r)
        BY <1>0, Zenon DEF PersistRun, TypeOK
    <2>3. bill'[r] = "measured" => booked'[r] = IF judge[r] = "captured" THEN 1 ELSE 0
        BY <1>0 DEF PersistRun, SettleReceipt, TypeOK
    <2> QED
        BY <2>1, <2>2, <2>3
<1>4. SettledHasEnded'
    BY <1>0, <1>1, <1>3 DEF SettledHasEnded, IsTerminal
<1>5. JudgedOnce'
    BY <1>1, <1>3 DEF JudgeInv, JudgedOnce
<1>6. JudgeIsBooked'
    <2>1. judge[r] \in {"none"} \cup JudgeAsked \cup JudgeKnown
        BY <1>0 DEF TypeOK
    <2>2. (bill'[r] = "measured" /\ ~lapsed'[r]) =>
              \/ judge[r] = "captured" /\ booked'[r] = 1
              \/ judge[r] = "none" /\ booked'[r] = 0 /\ ~Judged(r)
        BY <1>3, <2>1 DEF Unanswered, Measured, JudgeAsked, JudgeKnown
    <2> QED
        BY <1>1, <1>2, <2>2 DEF JudgeInv, JudgeIsBooked
<1> QED
    BY <1>4, <1>5, <1>6 DEF JudgeInv

\* A call, an answer and an eviction keep it: a second call takes an eviction.
LEMMA JudgeStepBooks ==
    ASSUME RunsInv, JudgeInv, NEW r \in Runs, JudgeStep(r)
    PROVE  JudgeInv'
<1>0. /\ TypeOK /\ SettledHasEnded
      /\ UNCHANGED <<status, answers, charge, bill, booked>>
    BY JudgeTouches DEF RunsInv, JudgeInv, repository
<1>1. \A q \in Runs : Judged(q)' = Judged(q)
    BY <1>0 DEF Judged, SlotsOf, AllSlots
<1>2. SettledHasEnded'
    BY <1>0 DEF SettledHasEnded
<1>3. \A q \in Runs \ {r} : /\ judge'[q] = judge[q] /\ judgeCalls'[q] = judgeCalls[q]
                            /\ lapsed'[q] = lapsed[q]
    BY <1>0 DEF JudgeStep, CallJudge, JudgeAnswers, VerdictEvicted, TypeOK
<1>4. /\ ~lapsed'[r] => judgeCalls'[r] = IF judge'[r] = "none" THEN 0 ELSE 1
      /\ (bill[r] = "measured" /\ ~lapsed'[r]) =>
              \/ judge'[r] = "captured" /\ booked[r] = 1
              \/ judge'[r] = "none" /\ booked[r] = 0 /\ ~Judged(r)
    <2>1. CASE CallJudge(r)
        <3>1. /\ judge[r] = "none" /\ judge'[r] \in JudgeAsked /\ Judged(r)
              /\ judgeCalls'[r] = judgeCalls[r] + 1 /\ lapsed'[r] = lapsed[r]
            BY <1>0, <2>1 DEF CallJudge, TypeOK
        <3> QED
            BY <3>1 DEF JudgeInv, JudgedOnce, JudgeIsBooked, JudgeAsked
    <2>2. CASE JudgeAnswers(r)
        <3>1. /\ judge[r] \in JudgeAsked /\ judge'[r] \in JudgeKnown
              /\ judgeCalls'[r] = judgeCalls[r] /\ lapsed'[r] = lapsed[r]
            BY <1>0, <2>2 DEF JudgeAnswers, TypeOK
        <3> QED
            BY <3>1 DEF JudgeInv, JudgedOnce, JudgeIsBooked, JudgeAsked, JudgeKnown
    <2>3. CASE VerdictEvicted(r)
        <3>1. lapsed'[r]
            BY <1>0, <2>3 DEF VerdictEvicted, TypeOK
        <3> QED
            BY <3>1
    <2> QED
        BY <2>1, <2>2, <2>3 DEF JudgeStep
<1>5. JudgedOnce'
    BY <1>3, <1>4 DEF JudgeInv, JudgedOnce
<1>6. JudgeIsBooked'
    BY <1>0, <1>1, <1>3, <1>4 DEF JudgeInv, JudgeIsBooked
<1> QED
    BY <1>2, <1>5, <1>6 DEF JudgeInv

\* The judge's invariant holds in every behaviour.
THEOREM JudgeInvariant == Spec => []JudgeInv
<1>1. Init => JudgeInv
    BY DEF Init, JudgeInv, SettledHasEnded, JudgedOnce, JudgeIsBooked
<1>2. RunsInv /\ JudgeInv /\ [Next]_vars => JudgeInv'
    <2> SUFFICES ASSUME RunsInv, JudgeInv, [Next]_vars PROVE JudgeInv'
        OBVIOUS
    <2>1. ASSUME NEW r \in Runs, RunStep(r) \/ Tick
          PROVE  JudgeInv'
        <3>1. CASE ~JudgeStep(r) /\ ~PersistRun(r)
            <4>1. UNCHANGED <<judge, judgeCalls, booked, lapsed, bill>>
                BY <2>1, <3>1, JudgingMoves DEF judging
            <4>2. SettledHasEnded'
                BY <2>1, <4>1, SettledIsFinal DEF JudgeInv, SettledHasEnded
            <4>3. JudgedOnce'
                BY <4>1 DEF JudgeInv, JudgedOnce
            <4>4. JudgeIsBooked'
                <5>1. \A q \in Runs : bill[q] = "measured" /\ ~Judged(q) => ~Judged(q)'
                    BY <2>1, SettledWantsNoNewJudge DEF JudgeInv
                <5> QED
                    BY <4>1, <5>1 DEF JudgeInv, JudgeIsBooked
            <4> QED
                BY <4>2, <4>3, <4>4 DEF JudgeInv
        <3> QED
            BY <3>1, PersistBooks, JudgeStepBooks
    <2>2. CASE UNCHANGED vars
        <3>1. UNCHANGED <<status, answers, charge, bill, judge, judgeCalls, booked, lapsed>>
            BY <2>2 DEF vars, repository, money, judging
        <3>2. \A q \in Runs : Judged(q)' = Judged(q)
            BY <3>1 DEF Judged, SlotsOf, AllSlots
        <3> QED
            BY <3>1, <3>2 DEF JudgeInv, SettledHasEnded, JudgedOnce, JudgeIsBooked
    <2>3. CASE Runs = {} /\ Tick
        BY <2>3 DEF JudgeInv, SettledHasEnded, JudgedOnce, JudgeIsBooked
    <2> QED
        BY <2>1, <2>2, <2>3 DEF Next
<1> QED
    BY <1>1, <1>2, RunsInvariant, PTL DEF Spec

\* SettledBillStaysTrue: no step of any thread adds to the slots and stages of a
\* run after its receipt was settled as measured, and no reader's call of its
\* judge is missing in it, unless the run's verdict was evicted or the worker
\* settled without one.
THEOREM SettledStaysTrue == Spec => []SettledBillStaysTrue
<1>1. RunsInv /\ JudgeInv => SettledBillStaysTrue
    BY DEF RunsInv, MeasuredStays, JudgeInv, JudgedOnce, JudgeIsBooked, SettledBillStaysTrue
<1> QED
    BY <1>1, RunsInvariant, JudgeInvariant, PTL

\* TerminalIsFinal: no handler, worker, pool thread or crash rewrites the status
\* of a finished run.
THEOREM TerminalStatusIsFinal == Spec => TerminalIsFinal
<1>1. ASSUME RunsInv, [Next]_vars, NEW q \in Runs, IsTerminal(q)
      PROVE  status'[q] \in {status[q], "purged"}
    <2>1. ASSUME NEW r \in Runs, RunStep(r) \/ Tick
          PROVE  status'[q] \in {status[q], "purged"}
        <3>1. CASE StatusStep(r)
            BY <1>1, <3>1 DEF StatusStep, RunsInv, TypeOK
        <3>2. CASE CreateRun(r)
            <4>1. status[r] = "absent"
                BY <1>1, <3>2 DEF CreateRun, RunsInv, CreatedByRequest
            <4>2. q # r
                BY <1>1, <4>1, StatusesDisjoint DEF IsTerminal
            <4> QED
                BY <1>1, <3>2, <4>2 DEF CreateRun, RunsInv, TypeOK
        <3> QED
            BY <1>1, <2>1, <3>1, <3>2, StatusEffect DEF RunsInv
    <2> QED
        BY <1>1, <2>1 DEF Next, vars, repository
<1>2. RunsInv /\ [Next]_vars => [StatusKept]_vars
    BY <1>1 DEF StatusKept
<1> QED
    BY <1>2, RunsInvariant, PTL DEF Spec, TerminalIsFinal

\* OneActiveRunPerAccount: create looks and writes under one lock, and no later
\* step of an older run brings it back.
THEOREM OneActiveRun == Spec => []OneActiveRunPerAccount
<1>1. Init => OneActiveRunPerAccount
    BY DEF Init, OneActiveRunPerAccount, IsActive, ActiveStatuses
<1>2. RunsInv /\ OneActiveRunPerAccount /\ [Next]_vars => OneActiveRunPerAccount'
    <2> SUFFICES ASSUME RunsInv, OneActiveRunPerAccount, [Next]_vars
                 PROVE  OneActiveRunPerAccount'
        OBVIOUS
    <2>1. ASSUME NEW r \in Runs, RunStep(r) \/ Tick
          PROVE  OneActiveRunPerAccount'
        <3>1. CASE StatusStep(r)
            BY <3>1 DEF StatusStep, OneActiveRunPerAccount, IsActive, RunsInv, TypeOK
        <3>2. CASE CreateRun(r)
            BY <3>2 DEF CreateRun, HasActiveRun, OneActiveRunPerAccount, IsActive, RunsInv, TypeOK
        <3> QED
            BY <2>1, <3>1, <3>2, StatusEffect DEF RunsInv
    <2>2. CASE UNCHANGED status
        BY <2>2 DEF OneActiveRunPerAccount, IsActive
    <2> QED
        BY <2>1, <2>2 DEF Next, Tick, vars, repository
<1> QED
    BY <1>1, <1>2, RunsInvariant, PTL DEF Spec

-----------------------------------------------------------------------------
(* The permits                                                             *)

Holders == {r \in Runs : HoldsPermit(r)}

\* A permit moves when a request takes it, a refused request returns it or the
\* worker releases it; a worker that is started takes its POST's permit over.
LEMMA PermitMoves ==
    ASSUME RunsInv, NEW r \in Runs, RunStep(r) \/ Tick
    PROVE  \/ UNCHANGED permits /\ Holders' = Holders
           \/ permits' = permits - 1 /\ r \notin Holders /\ Holders' = Holders \cup {r}
           \/ permits' = permits + 1 /\ r \in Holders /\ Holders' = Holders \ {r}
<1> USE DEF Holders, HoldsPermit, RequestPcs, repository, money, pool
<1>0. TypeOK /\ WorkerAfterRequest /\ LegacyReleasesNothing
      /\ \A q \in Runs : Legacy(q)' = Legacy(q)
    BY DEF RunsInv, Legacy
<1>1. CASE WorkerStep(r)
    <2>1. UNCHANGED request
        BY <1>1, WorkerStepClasses DEF PlainWorkerStep, SlotStep, StartAnswers,
            CollectAnswer, SkipRaisedSlot, CutSlotAtDeadline, RecordAnswer, BilledStep,
            EnterStage, MakeCalls, RecordStage, PersistRun, ReleasePermit
    <2>2. \A q \in Runs \ {r} : worker'[q] = worker[q]
        BY <1>0, <1>1, OwnRowOnly
    <2>3. CASE ReleasePermit(r)
        <3>1. ~Legacy(r) /\ request[r] = "done" /\ worker'[r] = "done"
              /\ permits' = permits + 1
            BY <1>0, <2>3 DEF ReleasePermit, Goto, LegacyReleasesNothing, WorkerAfterRequest, TypeOK
        <3>2. r \in Holders /\ r \notin Holders'
            BY <1>0, <2>1, <2>3, <3>1 DEF ReleasePermit
        <3>3. \A q \in Runs \ {r} : q \in Holders' <=> q \in Holders
            BY <1>0, <2>1, <2>2
        <3> QED
            BY <3>1, <3>2, <3>3
    <2>4. CASE ~ReleasePermit(r)
        <3>1. UNCHANGED permits /\ worker[r] \notin {"none", "done"}
              /\ (worker'[r] \notin {"none", "done"} \/ Legacy(r))
            <4>1. CASE PlainWorkerStep(r)
                BY <1>0, <4>1 DEF PlainWorkerStep, WorkerIdle, TypeOK
            <4>2. CASE SlotStep(r)
                BY <1>0, <4>2 DEF SlotStep, StartAnswers, CollectAnswer, SkipRaisedSlot,
                    Collecting, CutSlotAtDeadline, RecordAnswer, At, Goto, TypeOK
            <4>3. ASSUME NEW b \in BillableStage, BilledStep(r, b)
                  PROVE  UNCHANGED permits /\ {worker[r], worker'[r]} \cap {"none", "done"} = {}
                BY <1>0, <4>3 DEF BilledStep, EnterStage, MakeCalls, RecordStage, OpenStagePcs,
                    At, Goto, TypeOK
            <4>4. CASE PersistRun(r)
                BY <1>0, <4>4 DEF PersistRun, Goto, TypeOK
            <4> QED
                BY <1>1, <2>4, <4>1, <4>2, <4>3, <4>4, WorkerStepClasses
        <3>2. \A q \in Runs : q \in Holders' <=> q \in Holders
            BY <1>0, <2>1, <2>2, <3>1
        <3> QED
            BY <3>1, <3>2
    <2> QED
        BY <2>3, <2>4
<1>2. CASE RequestStep(r)
    <2>1. /\ worker[r] = "none" \/ request[r] = "done"
          /\ request[r] # "done"
        BY <1>0, <1>2 DEF WorkerAfterRequest, RequestStep, TakePermit, RefuseForCapacity,
            CreateRun, RefuseAtCreate, ChargeRun, ChargeRaises, MarkDegraded, StartWorker,
            ThreadFailsToStart, VoidCharge, AbandonRun, ReturnPermitUnused
    <2>2. \A q \in Runs \ {r} : request'[q] = request[q] /\ worker'[q] = worker[q]
        BY <1>0, <1>2 DEF RequestStep, TakePermit, RefuseForCapacity, CreateRun, RefuseAtCreate,
            ChargeRun, ChargeRaises, MarkDegraded, StartWorker, ThreadFailsToStart,
            VoidCharge, AbandonRun, ReturnPermitUnused, Ask, Goto, pipeline, TypeOK
    <2>3. \A q \in Runs \ {r} : q \in Holders' <=> q \in Holders
        BY <1>0, <2>2
    <2>4. CASE TakePermit(r)
        <3>1. /\ request[r] = "idle" /\ request'[r] = "reserved" /\ UNCHANGED worker
              /\ permits' = IF Legacy(r) THEN permits ELSE permits - 1
            BY <1>0, <2>4 DEF TakePermit, Ask, pipeline, TypeOK
        <3> QED
            BY <1>0, <2>1, <2>3, <3>1
    <2>5. CASE ReturnPermitUnused(r)
        <3>1. /\ request[r] = "unwinding" /\ request'[r] = "refused" /\ UNCHANGED worker
              /\ permits' = IF Legacy(r) THEN permits ELSE permits + 1
            BY <1>0, <2>5 DEF ReturnPermitUnused, Ask, pipeline, TypeOK
        <3> QED
            BY <1>0, <2>1, <2>3, <3>1
    <2>6. CASE StartWorker(r)
        <3>1. /\ request[r] = "starting" /\ worker'[r] = "begin" /\ UNCHANGED permits
            BY <1>0, <2>6 DEF StartWorker, Goto, TypeOK
        <3> QED
            BY <1>0, <2>3, <3>1
    <2>7. CASE RefuseForCapacity(r)
        <3>1. /\ request[r] = "idle" /\ request'[r] = "refused" /\ UNCHANGED <<worker, permits>>
            BY <1>0, <2>7 DEF RefuseForCapacity, Ask, pipeline, TypeOK
        <3> QED
            BY <1>0, <2>3, <3>1
    <2>8. CASE ~TakePermit(r) /\ ~ReturnPermitUnused(r) /\ ~StartWorker(r) /\ ~RefuseForCapacity(r)
        <3>1. /\ UNCHANGED <<worker, permits>>
              /\ {request[r], request'[r]} \subseteq RequestPcs \ {"idle", "refused", "done"}
            BY <1>0, <1>2, <2>8 DEF RequestStep, CreateRun, RefuseAtCreate,
                ChargeRun, ChargeRaises, MarkDegraded, ThreadFailsToStart,
                VoidCharge, AbandonRun, Ask, pipeline, TypeOK
        <3> QED
            BY <1>0, <2>3, <3>1
    <2> QED
        BY <2>4, <2>5, <2>6, <2>7, <2>8
<1>3. CASE ~WorkerStep(r) /\ ~RequestStep(r)
    <2>1. UNCHANGED <<request, worker, permits>>
        BY <1>3, JudgeTouches DEF RunStep, UserCancels, CancelStampsStage, SlotStarts,
            SlotFinishes, BudgetExpires, PurgeRun, Tick, pipeline
    <2> QED
        BY <1>0, <2>1
<1> QED
    BY <1>1, <1>2, <1>3

\* PermitsAccountedFor: over every refusal, failed start, crash and release, the
\* free permits and the requests and workers holding one add up to the capacity.
THEOREM PermitsConserved == Spec => []PermitsAccountedFor
<1>1. IsFiniteSet(Holders) /\ Cardinality(Holders) \in Nat
    BY RunsAssumption, FS_Subset, FS_CardinalityType DEF Holders
<1>2. Init => PermitsAccountedFor
    <2>1. Init => Holders = {}
        BY DEF Init, Holders, HoldsPermit, RequestPcs
    <2> QED
        <3>1. Init => permits = Capacity /\ Cardinality(Holders) = 0
            BY <2>1, FS_EmptySet DEF Init
        <3>2. Capacity + 0 = Capacity
            BY RunsAssumption
        <3>3. PermitsAccountedFor <=> permits + Cardinality(Holders) = Capacity
            BY DEF PermitsAccountedFor, Holders
        <3> QED
            BY <3>1, <3>2, <3>3
<1>3. RunsInv /\ PermitsAccountedFor /\ [Next]_vars => PermitsAccountedFor'
    <2> SUFFICES ASSUME RunsInv, permits + Cardinality(Holders) = Capacity, [Next]_vars
                 PROVE  permits' + Cardinality(Holders') = Capacity
        BY DEF PermitsAccountedFor, Holders
    <2>1. permits \in Nat
        BY DEF RunsInv, TypeOK
    <2>2. ASSUME NEW r \in Runs, RunStep(r) \/ Tick
          PROVE  permits' + Cardinality(Holders') = Capacity
        <3>1. CASE permits' = permits /\ Holders' = Holders
            BY <3>1
        <3>2. CASE permits' = permits - 1 /\ r \notin Holders /\ Holders' = Holders \cup {r}
            <4>1. Cardinality(Holders') = Cardinality(Holders) + 1
                BY <1>1, <3>2, FS_AddElement
            <4> QED
                BY <1>1, <2>1, <3>2, <4>1
        <3>3. CASE permits' = permits + 1 /\ r \in Holders /\ Holders' = Holders \ {r}
            <4>1. Cardinality(Holders') = Cardinality(Holders) - 1
                BY <1>1, <3>3, FS_RemoveElement
            <4> QED
                BY <1>1, <2>1, <3>3, <4>1
        <3> QED
            BY <2>2, <3>1, <3>2, <3>3, PermitMoves
    <2>3. CASE UNCHANGED <<permits, request, worker>>
        <3>1. Holders' = Holders
            BY <2>3 DEF Holders, HoldsPermit, Legacy
        <3> QED
            BY <2>3, <3>1
    <2> QED
        BY <2>2, <2>3 DEF Next, Tick, vars, pipeline
<1> QED
    BY <1>2, <1>3, RunsInvariant, PTL DEF Spec

-----------------------------------------------------------------------------
(***************************************************************************)
(* Part two: what a run shows of its stages and answers, whoever ends it   *)
(* and when: the worker's own writes, the two halves of a cancel, a        *)
(* deadline and a crash, for every number of runs and slots.               *)
(***************************************************************************)
-----------------------------------------------------------------------------
(* The inductive invariant of one run                                        *)

\* Progress p shows these states of the four stages after the estimate.
Shows(p, answering, round1, round2, synthesis) ==
    /\ p["estimate"] = "completed" /\ p["initial_answers"] = answering
    /\ p["debate_round_1"] = round1 /\ p["debate_round_2"] = round2
    /\ p["synthesis"] = synthesis

AtRest(p) == \A s \in Stages : p[s] # "running"
OneAtMost(p) == \A s, t \in Stages : p[s] = "running" /\ p[t] = "running" => s = t

\* The last two places of the debate are reached from either round.
Round1Pcs == {"round_1_gate", "enter_debate", "debating_1", "announce_2", "round_2_skipped"}
RecordPcs == {"record_debate", "leave_round_1"}
SynthesisPcs ==
    {"synthesis_gate", "enter_synthesis", "synthesizing", "synthesized", "record_synthesis",
     "complete"}
FinalPcs == {"persist", "release", "done"}

\* Progress p is as a worker at pc leaves it; "late" says that round 2 was skipped.
InPlace(p, pc, late) ==
    /\ pc \notin StampPcs \cup {"persist", "release"}
    /\ pc \in {"none", "begin"} => Shows(p, "pending", "pending", "pending", "pending")
    /\ pc \in {"collect", "record"} => Shows(p, "running", "pending", "pending", "pending")
    /\ pc = "quick" => Shows(p, "running", "skipped", "skipped", "skipped")
    /\ pc = "round_1" => Shows(p, "completed", "pending", "pending", "pending")
    /\ pc \in Round1Pcs => Shows(p, "completed", "running", "pending", "pending")
    /\ pc \in {"round_2", "round_2_late"} =>
           Shows(p, "completed", "completed", "pending", "pending")
    /\ pc \in {"debating_2", "debated", "leave_round_2"} =>
           Shows(p, "completed", "completed", "running", "pending")
    /\ pc \in RecordPcs =>
           IF late THEN Shows(p, "completed", "running", "pending", "pending")
           ELSE Shows(p, "completed", "completed", "running", "pending")
    /\ pc = "synthesis" => Shows(p, "completed", "completed", "completed", "pending")
    /\ pc \in SynthesisPcs => Shows(p, "completed", "completed", "completed", "running")

\* While nobody has ended the run, its progress is where its worker is; only a
\* legacy worker can leave a run active behind it.
ProgressFollowsWorker(r) == IsActive(r) => InPlace(stages[r], worker[r], timedOut[r])

\* timedOut says which round the worker comes from.
InTimePcs ==
    {"none", "begin", "collect", "record", "quick", "round_1", "round_1_gate", "enter_debate",
     "debating_1", "announce_2", "round_2", "debating_2", "debated"}
RoundSkipped(r) ==
    /\ worker[r] = "round_2_skipped" => timedOut[r]
    /\ worker[r] \in InTimePcs => ~timedOut[r]

\* The stage a worker that ended its run at a deadline still has to stamp.
LateStage(pc) ==
    CASE pc = "late_answers" -> {"initial_answers"}
      [] pc = "late_debate" -> {"debate_round_1"}
      [] pc = "late_synthesis" -> {"synthesis"}
      [] OTHER -> {}

\* One party ended the run, and it alone stamps what was in progress.
EndedByOne(r) ==
    /\ worker[r] \in StampPcs /\ Present(r) =>
           /\ status[r] \in {"failed", "partial", "timed_out"}
           /\ \A s \in Stages : stages[r][s] = "running" => s \in LateStage(worker[r])
    /\ canceller[r] = "stamping" => status[r] \in {"cancelled", "purged"}
    /\ status[r] \in {"completed", "partial", "timed_out"} =>
           worker[r] \in StampPcs \cup FinalPcs

\* No spinner is left once nobody owes the run a stamp.
SpinnersEnd(r) ==
    /\ OneAtMost(stages[r])
    /\ IsTerminal(r) /\ ~OwesStamp(r) => AtRest(stages[r])

ProgressInv(r) ==
    ProgressFollowsWorker(r) /\ RoundSkipped(r) /\ EndedByOne(r) /\ SpinnersEnd(r)

\* Where the worker is before, between and after the two captures.
BeforeDebatePcs ==
    {"none", "begin", "collect", "record", "quick", "round_1", "round_1_gate", "enter_debate"}
BetweenPcs ==
    {"leave_round_1", "round_2_late", "leave_round_2", "synthesis", "synthesis_gate",
     "enter_synthesis"}

CapturesInOrder(r) ==
    /\ worker[r] \in BeforeDebatePcs => \A b \in BillableStage : billing[r][b] = "not_entered"
    /\ worker[r] \in OpenStagePcs("debate") \cup BetweenPcs =>
           billing[r]["synthesis"] = "not_entered"
    /\ worker[r] \in BetweenPcs \cup OpenStagePcs("synthesis") \cup {"complete"} =>
           billing[r]["debate"] = "recorded"
    /\ worker[r] = "complete" => billing[r]["synthesis"] = "recorded"
    /\ billing[r]["synthesis"] # "not_entered" => billing[r]["debate"] = "recorded"

\* Behind the cursor a slot has its answer, or its future raised.
SlotsBehindCursor(r) ==
    /\ cursor[r] \in Nat \ {0}
    /\ worker[r] \in {"collect", "record"} =>
           \A s \in SlotsOf(r) : (s < cursor[r] /\ answers[r][s] = "none") =>
               tasks[r][s] \in {"raised", "timeout"}

\* What is known once the answers are in: a quick run leaves from "quick".
EarlyPcs == {"none", "begin", "collect", "record", "skip_downstream"}
LeftAnswers(r) ==
    /\ status[r] = "timed_out" \/ worker[r] \notin EarlyPcs \cup FinalPcs =>
           DeadlineKeepsFinishedAnswers(r)
    /\ worker[r] = "quick" => r \in QuickRuns /\ Usable(r)
    /\ worker[r] \notin EarlyPcs \cup FinalPcs \cup {"quick", "late_answers"} =>
           r \notin QuickRuns

AnswersInv(r) == SlotsBehindCursor(r) /\ LeftAnswers(r)

\* A completed run is as its kind of run promises.
CompletedIsWhole(r) == status[r] = "completed" => CompletedRunIsWhole(r)

StageInv ==
    \A r \in Runs :
        ProgressInv(r) /\ CapturesInOrder(r) /\ AnswersInv(r) /\ CompletedIsWhole(r)

-----------------------------------------------------------------------------
(* A step writes the row of its own run                                      *)

\* The fields of a run that the invariant speaks of.
Row(q) == <<status[q], stages[q], answers[q], billing[q], recorded[q], worker[q], cursor[q],
            cut[q], tasks[q], timedOut[q], canceller[q]>>

\* The repository's writes are for one run.
LEMMA UpdateOwnRow ==
    ASSUME TypeOK, NEW r \in Runs, NEW q \in Runs, q # r, NEW st, NEW p,
           \/ UpdateStatus(r, st, p) \/ Transition(r, st) \/ Annotate(r, p)
           \/ UNCHANGED <<status, stages, updatedAt>>
    PROVE  status'[q] = status[q] /\ stages'[q] = stages[q]
<1>1. CASE UpdateStatus(r, st, p)
    BY <1>1 DEF UpdateStatus, TypeOK
<1> QED
    BY <1>1 DEF Transition, Annotate, TypeOK

\* So is ending a run at its deadline.
LEMMA DegradeOwnRow ==
    ASSUME TypeOK, NEW r \in Runs, NEW q \in Runs, q # r, NEW late,
           DegradeForDeadline(r, late)
    PROVE  status'[q] = status[q] /\ stages'[q] = stages[q]
<1>1. CASE MayTransition(r, "timed_out")
    BY <1>1, UpdateOwnRow DEF DegradeForDeadline
<1>2. CASE ~MayTransition(r, "timed_out")
    BY <1>2 DEF DegradeForDeadline
<1> QED
    BY <1>1, <1>2

\* And every step of a worker.
LEMMA WorkerOwnStatus ==
    ASSUME TypeOK, NEW r \in Runs, NEW q \in Runs, q # r, WorkerStep(r)
    PROVE  /\ status'[q] = status[q] /\ stages'[q] = stages[q]
           /\ timedOut'[q] = timedOut[q] /\ canceller'[q] = canceller[q]
<1> USE DEF repository, money, pool
<1> DEFINE Kept == /\ status'[q] = status[q] /\ stages'[q] = stages[q]
                   /\ timedOut'[q] = timedOut[q] /\ canceller'[q] = canceller[q]
<1>1. ASSUME NEW from, NEW st, NEW p, NEW pc, WriteAndGo(r, from, st, p, pc)
      PROVE  Kept
    BY <1>1, UpdateOwnRow DEF WriteAndGo
<1>2. ASSUME NEW from, NEW st, NEW p, NEW pc, EndAndGo(r, from, st, p, pc)
      PROVE  Kept
    BY <1>1, <1>2 DEF EndAndGo
<1>3. ASSUME NEW from, NEW stage, NEW pc, AnnounceStage(r, from, stage, pc)
      PROVE  Kept
    BY <1>1, <1>3 DEF AnnounceStage
<1>4. ASSUME NEW from, NEW late, NEW pc, StageGate(r, from, late, pc)
      PROVE  Kept
    <2>1. CASE Stopped(r) \/ ~expired[r]
        BY <1>4, <2>1 DEF StageGate
    <2>2. CASE ~(Stopped(r) \/ ~expired[r])
        BY <1>4, <2>2, DegradeOwnRow DEF StageGate
    <2> QED
        BY <2>1, <2>2
<1>5. ASSUME NEW from, NEW b, NEW pc,
             EnterStage(r, from, b, pc) \/ RecordStage(r, from, b, pc)
             \/ StageReturns(r, from, b, pc)
      PROVE  Kept
    BY <1>5 DEF EnterStage, RecordStage, StageReturns
<1>6. ASSUME NEW from, NEW b, NEW pcs, MakeCalls(r, from, b, pcs)
      PROVE  Kept
    <2>1. PICK pc \in pcs : timedOut' = [timedOut EXCEPT ![r] = @ \/ pc = "round_2_skipped"]
        BY <1>6 DEF MakeCalls
    <2>2. timedOut'[q] = timedOut[q]
        BY <2>1, Zenon DEF TypeOK
    <2> QED
        BY <1>6, <2>2 DEF MakeCalls
<1>7. CASE Debate(r)
    BY <1>7, <1>1, <1>3, <1>4, <1>5, <1>6 DEF Debate
<1>8. CASE LeaveDebate(r)
    BY <1>8, <1>1, <1>2 DEF LeaveDebate
<1>9. CASE Synthesis(r)
    BY <1>9, <1>1, <1>3, <1>4, <1>5, <1>6 DEF Synthesis
<1>10. CASE \/ FailWithoutKey(r) \/ EndWithoutAnswers(r) \/ LeaveAnswers(r)
            \/ QuickSkipsStages(r) \/ QuickCompletes(r)
    BY <1>10, <1>1, <1>2 DEF FailWithoutKey, EndWithoutAnswers, LeaveAnswers,
        QuickSkipsStages, QuickCompletes
<1>11. CASE StartAnswers(r)
    BY <1>11, UpdateOwnRow DEF StartAnswers
<1>12. CASE EndAtDeadline(r)
    BY <1>12, DegradeOwnRow DEF EndAtDeadline
<1>13. CASE WorkerRaises(r)
    <2>1. CASE Legacy(r)
        BY <1>13, <2>1 DEF WorkerRaises
    <2>2. CASE ~Legacy(r)
        BY <1>13, <2>2, UpdateOwnRow DEF WorkerRaises
    <2> QED
        BY <2>1, <2>2
<1>14. CASE StampEndedRun(r)
    BY <1>14, UpdateOwnRow DEF StampEndedRun
<1>15. CASE \/ CollectAnswer(r) \/ SkipRaisedSlot(r) \/ CutSlotAtDeadline(r) \/ RecordAnswer(r)
            \/ WorkerFindsRunGone(r) \/ PersistRun(r) \/ ReleasePermit(r)
    BY <1>15 DEF CollectAnswer, SkipRaisedSlot, CutSlotAtDeadline, RecordAnswer,
        WorkerFindsRunGone, PersistRun, ReleasePermit
<1> QED
    BY <1>7, <1>8, <1>9, <1>10, <1>11, <1>12, <1>13, <1>14, <1>15 DEF WorkerStep

\* A step of one run leaves the row of every other as it was.
LEMMA StepOwnRow ==
    ASSUME TypeOK, NEW r \in Runs, NEW q \in Runs, q # r, RunStep(r) \/ Tick
    PROVE  Row(q)' = Row(q)
<1> USE DEF Row, repository, money, pool, pipeline
<1>1. CASE WorkerStep(r)
    BY <1>1, OwnRowOnly, WorkerOwnStatus
<1>2. CASE RequestStep(r)
    <2>1. UNCHANGED <<answers, billing, recorded, cursor, cut, tasks, timedOut, canceller>>
        BY <1>2 DEF RequestStep, TakePermit, RefuseForCapacity, CreateRun, RefuseAtCreate,
            ChargeRun, ChargeRaises, MarkDegraded, StartWorker, ThreadFailsToStart,
            VoidCharge, AbandonRun, ReturnPermitUnused
    <2>2. status'[q] = status[q] /\ stages'[q] = stages[q] /\ worker'[q] = worker[q]
        <3>1. CASE AbandonRun(r)
            <4>1. CASE MayTransition(r, "failed")
                BY <3>1, <4>1, UpdateOwnRow DEF AbandonRun
            <4>2. CASE ~MayTransition(r, "failed")
                BY <3>1, <4>2 DEF AbandonRun
            <4> QED
                BY <3>1, <4>1, <4>2 DEF AbandonRun
        <3>2. CASE ~AbandonRun(r)
            BY <1>2, <3>2 DEF RequestStep, TakePermit, RefuseForCapacity, CreateRun,
                RefuseAtCreate, ChargeRun, ChargeRaises, MarkDegraded, StartWorker,
                ThreadFailsToStart, VoidCharge, ReturnPermitUnused, Goto, TypeOK
        <3> QED
            BY <3>1, <3>2
    <2> QED
        BY <2>1, <2>2
<1>3. CASE UserCancels(r)
    BY <1>3, UpdateOwnRow DEF UserCancels, TypeOK
<1>4. CASE CancelStampsStage(r)
    <2>1. status'[q] = status[q] /\ stages'[q] = stages[q]
        <3>1. CASE Present(r)
            BY <1>4, <3>1, UpdateOwnRow DEF CancelStampsStage
        <3>2. CASE ~Present(r)
            BY <1>4, <3>2 DEF CancelStampsStage
        <3> QED
            BY <3>1, <3>2
    <2> QED
        BY <1>4, <2>1 DEF CancelStampsStage, TypeOK
<1>5. ASSUME NEW s \in AllSlots, SlotStarts(r, s) \/ SlotFinishes(r, s)
      PROVE  Row(q)' = Row(q)
    <2>1. PICK x : tasks' = [tasks EXCEPT ![r][s] = x]
        BY <1>5 DEF SlotStarts, SlotFinishes
    <2> QED
        BY <1>5, <2>1 DEF SlotStarts, SlotFinishes, TypeOK
<1>6. CASE BudgetExpires(r) \/ PurgeRun(r) \/ Tick
    BY <1>6 DEF BudgetExpires, PurgeRun, Tick, TypeOK
<1>7. CASE JudgeStep(r)
    BY <1>7, JudgeTouches
<1> QED
    BY <1>1, <1>2, <1>3, <1>4, <1>5, <1>6, <1>7 DEF RunStep

-----------------------------------------------------------------------------
(* Progress: what each kind of write does to it                              *)

\* The row of a run is all that its invariant reads.
LEMMA RowDecides ==
    ASSUME NEW q \in Runs, Row(q)' = Row(q)
    PROVE  /\ ProgressInv(q) => ProgressInv(q)'
           /\ CapturesInOrder(q) => CapturesInOrder(q)'
           /\ AnswersInv(q) => AnswersInv(q)'
           /\ CompletedIsWhole(q) => CompletedIsWhole(q)'
<1>1. /\ status'[q] = status[q] /\ stages'[q] = stages[q] /\ answers'[q] = answers[q]
      /\ billing'[q] = billing[q] /\ worker'[q] = worker[q] /\ cursor'[q] = cursor[q]
      /\ tasks'[q] = tasks[q] /\ timedOut'[q] = timedOut[q] /\ canceller'[q] = canceller[q]
    BY DEF Row
<1>2. SlotsOf(q)' = SlotsOf(q)
    BY DEF SlotsOf, AllSlots
<1>3. ProgressInv(q) => ProgressInv(q)'
    BY <1>1 DEF ProgressInv, ProgressFollowsWorker, IsActive, RoundSkipped, EndedByOne, Present,
        SpinnersEnd, IsTerminal, OwesStamp
<1>4. CapturesInOrder(q) => CapturesInOrder(q)'
    BY <1>1 DEF CapturesInOrder
<1>5. AnswersInv(q) => AnswersInv(q)'
    BY <1>1, <1>2 DEF AnswersInv, SlotsBehindCursor, LeftAnswers, DeadlineKeepsFinishedAnswers,
        Usable
<1>6. CompletedIsWhole(q) => CompletedIsWhole(q)'
    BY <1>1, <1>2 DEF CompletedIsWhole, CompletedRunIsWhole, Usable
<1> QED
    BY <1>3, <1>4, <1>5, <1>6

\* A run in its row is either active, terminal or not there.
LEMMA OneKind ==
    ASSUME NEW r \in Runs
    PROVE  /\ IsActive(r) => Present(r) /\ ~IsTerminal(r)
           /\ IsTerminal(r) => Present(r)
           /\ Present(r) => IsActive(r) \/ IsTerminal(r)
           /\ status[r] \in {"absent", "purged"} => ~Present(r)
BY DEF IsActive, IsTerminal, Present, QueryRunStatus, ActiveStatuses, TERMINAL_STATUSES

\* The two ends of the row's pcs and statuses.
LEMMA PcEnds ==
    /\ StampPcs \cap FinalPcs = {}
    /\ {"failed", "partial", "timed_out", "completed", "cancelled"} \subseteq TERMINAL_STATUSES
    /\ ActiveStatuses \cap TERMINAL_STATUSES = {}
    /\ {"absent", "purged"} \cap QueryRunStatus = {}
    /\ \A pc \in {"persist", "release", "done"} : pc \in FinalPcs /\ pc \notin StampPcs
BY DEF StampPcs, FinalPcs, TERMINAL_STATUSES, ActiveStatuses, QueryRunStatus

\* A worker that trails a run ended by others, or gone, does not disturb it.
LEMMA TrailingWorker ==
    ASSUME TypeOK, NEW r \in Runs, ProgressInv(r), ~IsActive(r),
           worker[r] \notin StampPcs \/ ~Present(r),
           worker'[r] \notin StampPcs, worker[r] \in FinalPcs => worker'[r] \in FinalPcs,
           status'[r] = status[r], stages'[r] = stages[r], canceller'[r] = canceller[r],
           RoundSkipped(r)'
    PROVE  ProgressInv(r)'
<1>1. ProgressFollowsWorker(r)'
    BY DEF ProgressFollowsWorker, IsActive
<1>2. EndedByOne(r)'
    BY PcEnds, StatusNames DEF ProgressInv, EndedByOne, Present
<1>3. SpinnersEnd(r)'
    BY OneKind DEF ProgressInv, SpinnersEnd, IsTerminal, Present, OwesStamp
<1> QED
    BY <1>1, <1>2, <1>3 DEF ProgressInv

\* An active run whose worker moves on within the pipeline.
LEMMA PassingWorker ==
    ASSUME TypeOK, NEW r \in Runs, ProgressInv(r), IsActive(r),
           status'[r] \in ActiveStatuses, OneAtMost(stages'[r]),
           InPlace(stages'[r], worker'[r], timedOut'[r]),
           canceller'[r] = canceller[r], RoundSkipped(r)'
    PROVE  ProgressInv(r)'
<1>1. ProgressFollowsWorker(r)'
    BY DEF ProgressFollowsWorker
<1>2. canceller[r] # "stamping"
    BY PcEnds DEF ProgressInv, EndedByOne, IsActive, ActiveStatuses
<1>3. EndedByOne(r)'
    BY <1>2, PcEnds DEF EndedByOne, InPlace
<1>4. SpinnersEnd(r)'
    BY PcEnds DEF SpinnersEnd, IsTerminal
<1> QED
    BY <1>1, <1>3, <1>4 DEF ProgressInv

\* An active run that its worker ends, owing it the stamps of late stages at most.
LEMMA EndingWorker ==
    ASSUME TypeOK, NEW r \in Runs, ProgressInv(r), IsActive(r),
           status'[r] \in {"completed", "failed", "partial", "timed_out"},
           \/ worker'[r] \in FinalPcs /\ AtRest(stages'[r])
           \/ /\ worker'[r] \in StampPcs /\ status'[r] # "completed"
              /\ \A s \in Stages : stages'[r][s] = "running" => s \in LateStage(worker'[r]),
           canceller'[r] = canceller[r], RoundSkipped(r)'
    PROVE  ProgressInv(r)'
<1>1. ProgressFollowsWorker(r)'
    BY PcEnds DEF ProgressFollowsWorker, IsActive
<1>2. canceller[r] # "stamping"
    BY PcEnds DEF ProgressInv, EndedByOne, IsActive, ActiveStatuses
<1>3. EndedByOne(r)'
    BY <1>2, PcEnds DEF EndedByOne
<1>4. OneAtMost(stages'[r])
    <2>1. \A pc : \A s, t \in LateStage(pc) : s = t
        BY DEF LateStage
    <2> QED
        BY <2>1 DEF OneAtMost, AtRest
<1>5. SpinnersEnd(r)'
    BY <1>4 DEF SpinnersEnd, OwesStamp
<1> QED
    BY <1>1, <1>3, <1>5 DEF ProgressInv

\* What a pipeline write does: all of it on an active run, nothing on another.
LEMMA WriteEffect ==
    ASSUME TypeOK, NEW r \in Runs, NEW from, NEW st, NEW p, NEW pc,
           WriteAndGo(r, from, st, p, pc)
    PROVE  /\ worker[r] = from /\ worker'[r] = pc /\ Present(r)
           /\ timedOut'[r] = timedOut[r] /\ canceller'[r] = canceller[r]
           /\ IsActive(r) => status'[r] = st /\ stages'[r] = p
           /\ ~IsActive(r) => status'[r] = status[r] /\ stages'[r] = stages[r]
<1>1. CASE IsTerminal(r)
    BY <1>1, OneKind DEF WriteAndGo, At, UpdateStatus, Goto, TypeOK
<1>2. CASE ~IsTerminal(r)
    BY <1>2, OneKind DEF WriteAndGo, At, UpdateStatus, Goto, TypeOK
<1> QED
    BY <1>1, <1>2

\* A write within the pipeline.
LEMMA PassingWrite ==
    ASSUME TypeOK, NEW r \in Runs, ProgressInv(r), NEW from, NEW st, NEW p, NEW pc,
           WriteAndGo(r, from, st, p, pc),
           from \notin StampPcs \cup FinalPcs, pc \notin StampPcs, pc # "round_2_skipped",
           pc \in InTimePcs => from \in InTimePcs,
           IsActive(r) => /\ st \in ActiveStatuses /\ OneAtMost(p)
                          /\ InPlace(p, pc, timedOut[r])
    PROVE  ProgressInv(r)'
<1>1. RoundSkipped(r)'
    BY WriteEffect DEF RoundSkipped, ProgressInv
<1>2. CASE IsActive(r)
    BY <1>1, <1>2, WriteEffect, PassingWorker
<1>3. CASE ~IsActive(r)
    BY <1>1, <1>3, WriteEffect, TrailingWorker
<1> QED
    BY <1>2, <1>3

\* A write that ends the run, owing stamps or not.
LEMMA EndingWrite ==
    ASSUME TypeOK, NEW r \in Runs, ProgressInv(r), NEW from, NEW st, NEW p, NEW pc,
           from \notin StampPcs \cup FinalPcs, AtRest(p),
           \/ EndAndGo(r, from, st, p, pc) /\ pc \in StampPcs /\ st \in {"failed", "partial"}
           \/ WriteAndGo(r, from, st, p, pc) /\ pc = "persist" /\ st = "completed"
    PROVE  ProgressInv(r)'
<1>1. \A x \in StampPcs \cup {"persist"} : x \notin InTimePcs /\ x # "round_2_skipped"
    BY DEF StampPcs, InTimePcs
<1>2. CASE IsActive(r)
    <2>1. PICK x \in StampPcs \cup {"persist"} :
              /\ WriteAndGo(r, from, st, p, x)
              /\ x = "persist" \/ st # "completed"
              /\ x = "persist" => x = pc
        BY <1>2, OneKind, PcEnds DEF EndAndGo
    <2>2. RoundSkipped(r)'
        BY <1>1, <2>1, WriteEffect DEF RoundSkipped
    <2>3. st \in {"completed", "failed", "partial", "timed_out"}
        OBVIOUS
    <2>4. status'[r] = st /\ stages'[r] = p /\ worker'[r] = x /\ canceller'[r] = canceller[r]
        BY <1>2, <2>1, WriteEffect
    <2>5. \/ worker'[r] \in FinalPcs /\ AtRest(stages'[r])
          \/ /\ worker'[r] \in StampPcs /\ status'[r] # "completed"
             /\ \A s \in Stages : stages'[r][s] = "running" => s \in LateStage(worker'[r])
        BY <2>1, <2>4, PcEnds DEF AtRest
    <2> QED
        BY <1>2, <2>2, <2>3, <2>4, <2>5, EndingWorker
<1>3. CASE ~IsActive(r)
    <2>1. WriteAndGo(r, from, st, p, "persist")
        BY <1>3, OneKind DEF EndAndGo, WriteAndGo, At
    <2>2. RoundSkipped(r)'
        BY <1>1, <2>1, WriteEffect DEF RoundSkipped
    <2> QED
        BY <1>3, <2>1, <2>2, WriteEffect, TrailingWorker, PcEnds
<1> QED
    BY <1>2, <1>3

\* Ending a run at its deadline: the stage in progress is left for its stamp.
LEMMA DegradeProgress ==
    ASSUME TypeOK, NEW r \in Runs, ProgressInv(r), NEW late \in StampPcs,
           DegradeForDeadline(r, late), Present(r),
           worker[r] \notin StampPcs \cup FinalPcs, UNCHANGED <<timedOut, canceller>>,
           IsActive(r) =>
               \A s \in Stages : stages[r][s] = "running" => s \in LateStage(late)
    PROVE  ProgressInv(r)'
<1>1. \A x \in StampPcs \cup {"persist"} : x \notin InTimePcs /\ x # "round_2_skipped"
    BY DEF StampPcs, InTimePcs
<1>2. MayTransition(r, "timed_out") <=> IsActive(r)
    BY DEF MayTransition, Present, IsActive, ALLOWED_TRANSITIONS, QueryRunStatus, ActiveStatuses,
        TERMINAL_STATUSES
<1>3. CASE IsActive(r)
    <2>1. /\ status'[r] = "timed_out" /\ stages'[r] = stages[r] /\ worker'[r] = late
          /\ timedOut'[r] = timedOut[r] /\ canceller'[r] = canceller[r]
        BY <1>2, <1>3 DEF DegradeForDeadline, Transition, Goto, TypeOK
    <2>2. RoundSkipped(r)'
        BY <1>1, <2>1 DEF RoundSkipped
    <2> QED
        BY <1>3, <2>1, <2>2, EndingWorker
<1>4. CASE ~IsActive(r)
    <2>1. /\ status'[r] = status[r] /\ stages'[r] = stages[r] /\ worker'[r] = "persist"
          /\ canceller'[r] = canceller[r]
        BY <1>2, <1>4 DEF DegradeForDeadline, Goto, TypeOK
    <2>2. RoundSkipped(r)'
        BY <1>1, <2>1 DEF RoundSkipped
    <2> QED
        BY <1>4, <2>1, <2>2, TrailingWorker, PcEnds
<1> QED
    BY <1>3, <1>4

-----------------------------------------------------------------------------
(* Progress: every step of the worker                                        *)

\* What marking one stage does to what is shown.
LEMMA MarkShows ==
    ASSUME NEW p \in [Stages -> StageState], NEW a, NEW b, NEW c, NEW d, Shows(p, a, b, c, d),
           NEW st
    PROVE  /\ Shows(Mark(p, {"initial_answers"}, st), st, b, c, d)
           /\ Shows(Mark(p, {"debate_round_1"}, st), a, st, c, d)
           /\ Shows(Mark(p, {"debate_round_2"}, st), a, b, st, d)
           /\ Shows(Mark(p, {"synthesis"}, st), a, b, c, st)
           /\ Shows(Mark(p, Downstream, st), a, st, st, st)
BY DEF Shows, Mark, Stages, Downstream

\* Progress that shows one running stage at most.
LEMMA ShowsOne ==
    ASSUME NEW p, NEW a, NEW b, NEW c, NEW d, Shows(p, a, b, c, d)
    PROVE  /\ a # "running" /\ b # "running" /\ c # "running" /\ d # "running" => AtRest(p)
           /\ b # "running" /\ c # "running" /\ d # "running" =>
                  OneAtMost(p) /\ \A s \in Stages : p[s] = "running" => s = "initial_answers"
           /\ a # "running" /\ c # "running" /\ d # "running" =>
                  OneAtMost(p) /\ \A s \in Stages : p[s] = "running" => s = "debate_round_1"
           /\ a # "running" /\ b # "running" /\ d # "running" => OneAtMost(p)
           /\ a # "running" /\ b # "running" /\ c # "running" =>
                  OneAtMost(p) /\ \A s \in Stages : p[s] = "running" => s = "synthesis"
BY DEF Shows, AtRest, OneAtMost, Stages, Downstream

\* The steps up to the end of the initial answers.
LEMMA AnswersProgress ==
    ASSUME TypeOK, NEW r \in Runs, ProgressInv(r),
           \/ FailWithoutKey(r) \/ StartAnswers(r)
           \/ CollectAnswer(r) \/ SkipRaisedSlot(r) \/ CutSlotAtDeadline(r)
           \/ RecordAnswer(r) \/ EndAtDeadline(r) \/ EndWithoutAnswers(r)
           \/ LeaveAnswers(r) \/ QuickSkipsStages(r) \/ QuickCompletes(r)
    PROVE  ProgressInv(r)'
<1> DEFINE p == stages[r]
<1>0. /\ p \in [Stages -> StageState]
      /\ IsActive(r) => InPlace(p, worker[r], timedOut[r])
      /\ {"begin", "collect", "record", "quick"} \cap (StampPcs \cup FinalPcs) = {}
      /\ {"skip_downstream", "late_answers"} \subseteq StampPcs
      /\ {"collect", "record", "quick", "round_1"} \cap (StampPcs \cup FinalPcs) = {}
      /\ {"begin", "collect", "record", "quick", "round_1"} \subseteq InTimePcs
      /\ {"initial_answers_running", "debate_round_1_running"} \subseteq ActiveStatuses
    BY DEF TypeOK, ProgressInv, ProgressFollowsWorker, StampPcs, FinalPcs, InTimePcs,
        ActiveStatuses
<1>1. CASE FailWithoutKey(r)
    <2>1. worker[r] = "begin" /\ Present(r)
        BY <1>1 DEF FailWithoutKey, EndAndGo, WriteAndGo, At
    <2>2. CASE IsActive(r)
        <3>1. AtRest(Mark(p, {"initial_answers"}, "failed"))
            BY <1>0, <2>1, <2>2, MarkShows, ShowsOne DEF InPlace
        <3> QED
            BY <1>0, <1>1, <3>1, EndingWrite DEF FailWithoutKey
    <2>3. CASE ~IsActive(r)
        <3>1. WriteAndGo(r, "begin", "failed", Mark(p, {"initial_answers"}, "failed"), "persist")
            BY <1>1, <2>1, <2>3, OneKind DEF FailWithoutKey, EndAndGo
        <3> QED
            BY <1>0, <2>3, <3>1, PassingWrite, PcEnds DEF InTimePcs
    <2> QED
        BY <2>2, <2>3
<1>2. CASE StartAnswers(r)
    <2>2. RoundSkipped(r)'
        BY <1>0, <1>2 DEF StartAnswers, At, Goto, ProgressInv, RoundSkipped, TypeOK
    <2>3. CASE IsActive(r)
        <3>1. Shows(Mark(p, {"initial_answers"}, "running"),
                    "running", "pending", "pending", "pending")
            BY <1>0, <1>2, <2>3, MarkShows DEF StartAnswers, At, InPlace
        <3>2. /\ status'[r] = "initial_answers_running" /\ worker'[r] = "collect"
              /\ stages'[r] = Mark(p, {"initial_answers"}, "running")
              /\ canceller'[r] = canceller[r]
            BY <1>2, <2>3, OneKind DEF StartAnswers, UpdateStatus, Goto, TypeOK
        <3>3. InPlace(stages'[r], worker'[r], timedOut'[r])
            BY <1>0, <3>1, <3>2 DEF InPlace, Round1Pcs, RecordPcs, SynthesisPcs
        <3> QED
            BY <1>0, <2>2, <2>3, <3>1, <3>2, <3>3, ShowsOne, PassingWorker
    <2>4. CASE ~IsActive(r)
        <3>1. /\ status'[r] = status[r] /\ stages'[r] = stages[r]
              /\ worker'[r] = "collect" /\ canceller'[r] = canceller[r] /\ worker[r] = "begin"
            BY <1>2, <2>4, OneKind DEF StartAnswers, At, UpdateStatus, Goto, TypeOK
        <3> QED
            BY <1>0, <2>2, <2>4, <3>1, TrailingWorker
    <2> QED
        BY <2>3, <2>4
<1>3. CASE CollectAnswer(r) \/ SkipRaisedSlot(r) \/ CutSlotAtDeadline(r) \/ RecordAnswer(r)
    <2>1. /\ status'[r] = status[r] /\ stages'[r] = stages[r] /\ canceller'[r] = canceller[r]
          /\ timedOut'[r] = timedOut[r]
          /\ worker[r] \in {"collect", "record"} /\ Present(r)
          /\ worker'[r] \in {"collect", "record", "persist"}
          /\ worker'[r] = "persist" => Stopped(r)
        BY <1>3 DEF CollectAnswer, SkipRaisedSlot, CutSlotAtDeadline, RecordAnswer, Collecting,
            At, Goto, repository, TypeOK
    <2>2. RoundSkipped(r)'
        BY <1>0, <2>1 DEF ProgressInv, RoundSkipped, InTimePcs
    <2>3. CASE IsActive(r)
        <3>1. worker'[r] # "persist"
            BY <2>1, <2>3, PcEnds DEF Stopped, IsActive
        <3>2. Shows(p, "running", "pending", "pending", "pending")
            BY <1>0, <2>1, <2>3 DEF InPlace
        <3>3. InPlace(stages'[r], worker'[r], timedOut'[r])
            BY <1>0, <2>1, <3>1, <3>2 DEF InPlace, Round1Pcs, RecordPcs, SynthesisPcs
        <3> QED
            BY <2>1, <2>2, <2>3, <3>2, <3>3, ShowsOne, PassingWorker DEF IsActive
    <2>4. CASE ~IsActive(r)
        BY <1>0, <2>1, <2>2, <2>4, TrailingWorker, PcEnds
    <2> QED
        BY <2>3, <2>4
<1>4. CASE EndAtDeadline(r)
    <2>1. worker[r] = "collect" /\ Present(r) /\ UNCHANGED <<timedOut, canceller>>
          /\ DegradeForDeadline(r, "late_answers")
        BY <1>4 DEF EndAtDeadline, Collected, At
    <2>2. IsActive(r) => \A s \in Stages : p[s] = "running" => s \in LateStage("late_answers")
        BY <1>0, <2>1, ShowsOne DEF InPlace, LateStage
    <2> QED
        BY <1>0, <2>1, <2>2, DegradeProgress
<1>5. CASE EndWithoutAnswers(r)
    <2>1. worker[r] = "collect" /\ Present(r)
        BY <1>5 DEF EndWithoutAnswers, Collected, At
    <2>2. CASE IsActive(r)
        <3>1. AtRest(Mark(p, {"initial_answers"}, "failed"))
            BY <1>0, <2>1, <2>2, MarkShows, ShowsOne DEF InPlace
        <3> QED
            BY <1>0, <1>5, <3>1, EndingWrite DEF EndWithoutAnswers
    <2>3. CASE ~IsActive(r)
        <3>1. WriteAndGo(r, "collect", "partial", Mark(p, {"initial_answers"}, "failed"),
                         "persist")
            BY <1>5, <2>1, <2>3, OneKind DEF EndWithoutAnswers, EndAndGo
        <3> QED
            BY <1>0, <2>3, <3>1, PassingWrite, PcEnds DEF InTimePcs
    <2> QED
        BY <2>2, <2>3
<1>6. CASE LeaveAnswers(r)
    <2>1. WriteAndGo(r, "collect", "debate_round_1_running",
                     Mark(p, {"initial_answers"}, "completed"), "round_1")
        BY <1>6 DEF LeaveAnswers
    <2>2. IsActive(r) => Shows(Mark(p, {"initial_answers"}, "completed"),
                               "completed", "pending", "pending", "pending")
        BY <1>0, <2>1, MarkShows DEF InPlace, WriteAndGo, At
    <2>3. IsActive(r) => InPlace(Mark(p, {"initial_answers"}, "completed"), "round_1", timedOut[r])
        BY <1>0, <2>2 DEF InPlace, Round1Pcs, RecordPcs, SynthesisPcs
    <2> QED
        BY <1>0, <2>1, <2>2, <2>3, ShowsOne, PassingWrite
<1>7. CASE QuickSkipsStages(r)
    <2>1. WriteAndGo(r, "collect", status[r], Mark(p, Downstream, "skipped"), "quick")
        BY <1>7 DEF QuickSkipsStages
    <2>2. IsActive(r) => Shows(Mark(p, Downstream, "skipped"),
                               "running", "skipped", "skipped", "skipped")
        BY <1>0, <2>1, MarkShows DEF InPlace, WriteAndGo, At
    <2>3. IsActive(r) => InPlace(Mark(p, Downstream, "skipped"), "quick", timedOut[r])
        BY <1>0, <2>2 DEF InPlace, Round1Pcs, RecordPcs, SynthesisPcs
    <2> QED
        BY <1>0, <2>1, <2>2, <2>3, ShowsOne, PassingWrite DEF IsActive
<1>8. CASE QuickCompletes(r)
    <2>1. WriteAndGo(r, "quick", "completed", Mark(p, {"initial_answers"}, "completed"),
                     "persist")
        BY <1>8 DEF QuickCompletes
    <2>2. CASE IsActive(r)
        <3>1. AtRest(Mark(p, {"initial_answers"}, "completed"))
            BY <1>0, <2>1, <2>2, MarkShows, ShowsOne DEF InPlace, WriteAndGo, At
        <3> QED
            BY <1>0, <2>1, <3>1, EndingWrite
    <2>3. CASE ~IsActive(r)
        BY <1>0, <2>1, <2>3, PassingWrite, PcEnds DEF InTimePcs
    <2> QED
        BY <2>2, <2>3
<1> QED
    BY <1>1, <1>2, <1>3, <1>4, <1>5, <1>6, <1>7, <1>8

\* A step of the worker that leaves status and stages alone, within a stage.
LEMMA InnerStep ==
    ASSUME TypeOK, NEW r \in Runs, ProgressInv(r),
           status'[r] = status[r], stages'[r] = stages[r], canceller'[r] = canceller[r],
           worker[r] \notin StampPcs \cup FinalPcs, worker'[r] \notin StampPcs, Present(r),
           RoundSkipped(r)',
           IsActive(r) => InPlace(stages[r], worker'[r], timedOut'[r])
    PROVE  ProgressInv(r)'
<1>1. CASE IsActive(r)
    BY <1>1, PassingWorker DEF IsActive, ProgressInv, SpinnersEnd
<1>2. CASE ~IsActive(r)
    BY <1>2, TrailingWorker
<1> QED
    BY <1>1, <1>2

\* The steps of the debate and synthesis stages.
LEMMA StagesProgress ==
    ASSUME TypeOK, NEW r \in Runs, ProgressInv(r), Debate(r) \/ LeaveDebate(r) \/ Synthesis(r)
    PROVE  ProgressInv(r)'
<1> DEFINE p == stages[r]
<1> USE DEF repository, money, pool
<1>0. /\ p \in [Stages -> StageState]
      /\ IsActive(r) => InPlace(p, worker[r], timedOut[r])
      /\ RoundSkipped(r)
    BY DEF TypeOK, ProgressInv, ProgressFollowsWorker
<1> DEFINE StagePcs == WorkerPcs \ (StampPcs \cup FinalPcs)
<1>1. ASSUME NEW from \in StagePcs, NEW stage, NEW pc \in StagePcs, AnnounceStage(r, from, stage, pc),
             pc # "round_2_skipped", pc \in InTimePcs => from \in InTimePcs,
             IsActive(r) => /\ OneAtMost(Mark(p, {stage}, "running"))
                            /\ InPlace(Mark(p, {stage}, "running"), pc, timedOut[r])
      PROVE  ProgressInv(r)'
    BY <1>1, PassingWrite DEF AnnounceStage, IsActive
<1>2. ASSUME NEW from \in StagePcs, NEW late \in StampPcs, NEW pc \in StagePcs,
             StageGate(r, from, late, pc),
             pc # "round_2_skipped", pc \in InTimePcs => from \in InTimePcs,
             IsActive(r) => /\ InPlace(p, pc, timedOut[r])
                            /\ \A s \in Stages : p[s] = "running" => s \in LateStage(late)
      PROVE  ProgressInv(r)'
    <2>1. CASE Stopped(r) \/ ~expired[r]
        <3>1. /\ status'[r] = status[r] /\ stages'[r] = stages[r]
              /\ timedOut'[r] = timedOut[r] /\ canceller'[r] = canceller[r]
              /\ worker[r] = from /\ Present(r) /\ worker'[r] \in {"persist", pc}
              /\ worker'[r] = "persist" => Stopped(r)
            BY <1>2, <2>1 DEF StageGate, At, Goto, TypeOK, FinalPcs
        <3>2. RoundSkipped(r)'
            BY <1>0, <1>2, <3>1 DEF RoundSkipped, InTimePcs
        <3>3. IsActive(r) => worker'[r] = pc
            BY <3>1 DEF IsActive, Stopped, ActiveStatuses
        <3> QED
            BY <1>2, <3>1, <3>2, <3>3, InnerStep, PcEnds
    <2>2. CASE ~(Stopped(r) \/ ~expired[r])
        BY <1>2, <2>2, DegradeProgress DEF StageGate, At
    <2> QED
        BY <2>1, <2>2
<1>3. ASSUME NEW from \in StagePcs, NEW b, NEW pc \in StagePcs,
             \/ EnterStage(r, from, b, pc) \/ RecordStage(r, from, b, pc)
             \/ StageReturns(r, from, b, pc),
             pc # "round_2_skipped", pc \in InTimePcs => from \in InTimePcs,
             IsActive(r) => InPlace(p, pc, timedOut[r])
      PROVE  ProgressInv(r)'
    <2>1. /\ status'[r] = status[r] /\ stages'[r] = stages[r]
          /\ timedOut'[r] = timedOut[r] /\ canceller'[r] = canceller[r]
          /\ worker[r] = from /\ Present(r) /\ worker'[r] \in {"persist", pc}
          /\ worker'[r] = "persist" => Stopped(r) \/ pc = "persist"
        BY <1>3 DEF EnterStage, RecordStage, StageReturns, At, Goto, TypeOK
    <2>2. RoundSkipped(r)'
        BY <1>0, <1>3, <2>1 DEF RoundSkipped, InTimePcs
    <2>3. IsActive(r) => worker'[r] = pc
        BY <2>1 DEF IsActive, Stopped, ActiveStatuses
    <2> QED
        BY <1>3, <2>1, <2>2, <2>3, InnerStep, PcEnds
<1>4. ASSUME NEW from \in StagePcs \cap InTimePcs, NEW b, NEW pcs \in SUBSET StagePcs,
             MakeCalls(r, from, b, pcs),
             IsActive(r) => \A pc \in pcs : InPlace(p, pc, pc = "round_2_skipped")
      PROVE  ProgressInv(r)'
    <2>1. PICK pc \in pcs :
              /\ Goto(r, pc)
              /\ timedOut' = [timedOut EXCEPT ![r] = @ \/ pc = "round_2_skipped"]
        BY <1>4 DEF MakeCalls
    <2>2. /\ status'[r] = status[r] /\ stages'[r] = stages[r] /\ canceller'[r] = canceller[r]
          /\ worker[r] = from /\ Present(r) /\ worker'[r] = pc
        BY <1>4, <2>1 DEF MakeCalls, At, Goto, TypeOK
    <2>3. ~timedOut[r]
        BY <1>0, <1>4, <2>2 DEF RoundSkipped
    <2>4. timedOut'[r] <=> pc = "round_2_skipped"
        BY <2>1, <2>3, Zenon DEF TypeOK
    <2>5. RoundSkipped(r)'
        BY <2>2, <2>4 DEF RoundSkipped, InTimePcs
    <2>6. IsActive(r) => InPlace(p, pc, timedOut'[r])
        BY <1>4, <2>4 DEF InPlace
    <2> QED
        BY <1>4, <2>1, <2>2, <2>5, <2>6, InnerStep
<1>5. ASSUME NEW from \in StagePcs, NEW st \in ActiveStatuses, NEW q, NEW pc,
             pc \in StagePcs \cup {"persist"},
             WriteAndGo(r, from, st, q, pc), pc # "round_2_skipped",
             pc \in InTimePcs => from \in InTimePcs,
             IsActive(r) => OneAtMost(q) /\ InPlace(q, pc, timedOut[r])
      PROVE  ProgressInv(r)'
    BY <1>5, PassingWrite, PcEnds
<1>6. /\ StagePcs = WorkerPcs \ (StampPcs \cup FinalPcs)
      /\ {"round_1", "round_1_gate", "enter_debate", "debating_1", "announce_2", "round_2",
          "debating_2", "debated", "round_2_skipped"} \subseteq StagePcs
      /\ {"record_debate", "leave_round_1", "round_2_late", "leave_round_2", "synthesis",
          "synthesis_gate", "enter_synthesis", "synthesizing", "synthesized",
          "record_synthesis", "complete"} \subseteq StagePcs
      /\ {"late_debate", "late_synthesis", "skip_synthesis"} \subseteq StampPcs
      /\ {"round_1", "round_1_gate", "enter_debate", "debating_1", "announce_2", "round_2",
          "debating_2", "debated"} \subseteq InTimePcs
      /\ {"debate_round_2_running", "synthesis_running"} \subseteq ActiveStatuses
    BY DEF WorkerPcs, StampPcs, FinalPcs, InTimePcs, ActiveStatuses
<1> HIDE DEF StagePcs
<1>7. \A q : Shows(q, "completed", "running", "pending", "pending") =>
          /\ OneAtMost(q)
          /\ \A s \in Stages : q[s] = "running" => s \in LateStage("late_debate")
          /\ \A pc \in Round1Pcs, late \in BOOLEAN : InPlace(q, pc, late)
    BY ShowsOne DEF LateStage, InPlace, Round1Pcs, RecordPcs, SynthesisPcs, StampPcs
<1>8. \A q : Shows(q, "completed", "completed", "pending", "pending") =>
          /\ OneAtMost(q)
          /\ \A pc \in {"round_2", "round_2_late"}, late \in BOOLEAN : InPlace(q, pc, late)
    BY ShowsOne DEF InPlace, Round1Pcs, RecordPcs, SynthesisPcs, StampPcs
<1>9. \A q : Shows(q, "completed", "completed", "running", "pending") =>
          /\ OneAtMost(q)
          /\ \A pc \in {"debating_2", "debated", "leave_round_2"}, late \in BOOLEAN :
                 InPlace(q, pc, late)
    BY ShowsOne DEF InPlace, Round1Pcs, RecordPcs, SynthesisPcs, StampPcs
<1>10. \A q : Shows(q, "completed", "completed", "completed", "pending") =>
          /\ OneAtMost(q)
          /\ \A late \in BOOLEAN : InPlace(q, "synthesis", late)
    BY ShowsOne DEF InPlace, Round1Pcs, RecordPcs, SynthesisPcs, StampPcs
<1>11. \A q : Shows(q, "completed", "completed", "completed", "running") =>
          /\ OneAtMost(q)
          /\ \A s \in Stages : q[s] = "running" => s \in LateStage("late_synthesis")
          /\ \A pc \in SynthesisPcs, late \in BOOLEAN : InPlace(q, pc, late)
    BY ShowsOne DEF LateStage, InPlace, Round1Pcs, RecordPcs, SynthesisPcs, StampPcs
<1>12. timedOut[r] \in BOOLEAN
    BY DEF TypeOK
<1>13. CASE Debate(r)
    <2>1. CASE AnnounceStage(r, "round_1", "debate_round_1", "round_1_gate")
        <3>1. IsActive(r) =>
                  Shows(Mark(p, {"debate_round_1"}, "running"),
                        "completed", "running", "pending", "pending")
            BY <1>0, <2>1, MarkShows DEF AnnounceStage, WriteAndGo, At, InPlace
        <3> QED
            BY <1>1, <1>6, <1>7, <1>12, <2>1, <3>1 DEF Round1Pcs
    <2>2. CASE StageGate(r, "round_1_gate", "late_debate", "enter_debate")
        <3>1. IsActive(r) => Shows(p, "completed", "running", "pending", "pending")
            BY <1>0, <2>2 DEF StageGate, At, InPlace, Round1Pcs
        <3> QED
            BY <1>2, <1>6, <1>7, <1>12, <2>2, <3>1 DEF Round1Pcs
    <2>3. CASE EnterStage(r, "enter_debate", "debate", "debating_1")
        <3>1. IsActive(r) => Shows(p, "completed", "running", "pending", "pending")
            BY <1>0, <2>3 DEF EnterStage, At, InPlace, Round1Pcs
        <3> QED
            BY <1>3, <1>6, <1>7, <1>12, <2>3, <3>1 DEF Round1Pcs
    <2>4. CASE MakeCalls(r, "debating_1", "debate", {"announce_2", "round_2_skipped"})
        <3>1. IsActive(r) => Shows(p, "completed", "running", "pending", "pending")
            BY <1>0, <2>4 DEF MakeCalls, At, InPlace, Round1Pcs
        <3>2. IsActive(r) => \A pc \in {"announce_2", "round_2_skipped"} :
                  InPlace(p, pc, pc = "round_2_skipped")
            BY <1>7, <3>1 DEF Round1Pcs
        <3> QED
            BY <1>4, <1>6, <2>4, <3>2
    <2>5. CASE WriteAndGo(r, "announce_2", "debate_round_2_running",
                          Mark(p, {"debate_round_1"}, "completed"), "round_2")
        <3>1. IsActive(r) =>
                  Shows(Mark(p, {"debate_round_1"}, "completed"),
                        "completed", "completed", "pending", "pending")
            BY <1>0, <2>5, MarkShows DEF WriteAndGo, At, InPlace, Round1Pcs
        <3> QED
            BY <1>5, <1>6, <1>8, <1>12, <2>5, <3>1
    <2>6. CASE AnnounceStage(r, "round_2", "debate_round_2", "debating_2")
        <3>1. IsActive(r) =>
                  Shows(Mark(p, {"debate_round_2"}, "running"),
                        "completed", "completed", "running", "pending")
            BY <1>0, <2>6, MarkShows DEF AnnounceStage, WriteAndGo, At, InPlace
        <3> QED
            BY <1>1, <1>6, <1>9, <1>12, <2>6, <3>1
    <2>7. CASE MakeCalls(r, "debating_2", "debate", {"debated"})
        <3>1. IsActive(r) => Shows(p, "completed", "completed", "running", "pending")
            BY <1>0, <2>7 DEF MakeCalls, At, InPlace
        <3>2. IsActive(r) => \A pc \in {"debated"} : InPlace(p, pc, pc = "round_2_skipped")
            BY <1>9, <3>1
        <3> QED
            BY <1>4, <1>6, <2>7, <3>2
    <2>8. ASSUME NEW from \in {"debated", "round_2_skipped"},
                 StageReturns(r, from, "debate", "record_debate")
          PROVE  ProgressInv(r)'
        <3>1. timedOut[r] <=> from = "round_2_skipped"
            BY <1>0, <2>8 DEF StageReturns, At, RoundSkipped, InTimePcs
        <3>2. IsActive(r) =>
                  IF timedOut[r] THEN Shows(p, "completed", "running", "pending", "pending")
                  ELSE Shows(p, "completed", "completed", "running", "pending")
            BY <1>0, <2>8, <3>1 DEF StageReturns, At, InPlace, Round1Pcs
        <3>3. IsActive(r) => InPlace(p, "record_debate", timedOut[r])
            BY <3>2 DEF InPlace, Round1Pcs, RecordPcs, SynthesisPcs, StampPcs
        <3> QED
            BY <1>3, <1>6, <2>8, <3>3 DEF InTimePcs
    <2>9. CASE RecordStage(r, "record_debate", "debate", "leave_round_1")
        <3>1. IsActive(r) => InPlace(p, "record_debate", timedOut[r])
            BY <1>0, <2>9 DEF RecordStage, At
        <3>2. IsActive(r) => InPlace(p, "leave_round_1", timedOut[r])
            BY <3>1 DEF InPlace, Round1Pcs, RecordPcs, SynthesisPcs, StampPcs
        <3> QED
            BY <1>3, <1>6, <2>9, <3>2 DEF InTimePcs
    <2> QED
        BY <1>13, <2>1, <2>2, <2>3, <2>4, <2>5, <2>6, <2>7, <2>8, <2>9 DEF Debate
<1>14. CASE LeaveDebate(r)
    <2>1. CASE WriteAndGo(r, "leave_round_1", "debate_round_2_running",
                          Mark(p, {"debate_round_1"}, "completed"),
                          IF timedOut[r] THEN "round_2_late" ELSE "leave_round_2")
        <3>1. IsActive(r) =>
                  IF timedOut[r]
                  THEN Shows(Mark(p, {"debate_round_1"}, "completed"),
                             "completed", "completed", "pending", "pending")
                  ELSE Shows(Mark(p, {"debate_round_1"}, "completed"),
                             "completed", "completed", "running", "pending")
            BY <1>0, <2>1, MarkShows DEF WriteAndGo, At, InPlace, RecordPcs
        <3>2. CASE timedOut[r]
            BY <1>5, <1>6, <1>8, <1>12, <2>1, <3>1, <3>2 DEF InTimePcs
        <3>3. CASE ~timedOut[r]
            BY <1>5, <1>6, <1>9, <1>12, <2>1, <3>1, <3>3 DEF InTimePcs
        <3> QED
            BY <3>2, <3>3
    <2>2. CASE EndAndGo(r, "round_2_late", "partial",
                        Mark(p, {"debate_round_2"}, "failed"), "skip_synthesis")
        <3>1. CASE IsActive(r)
            <4>1. AtRest(Mark(p, {"debate_round_2"}, "failed"))
                BY <1>0, <2>2, <3>1, MarkShows, ShowsOne DEF EndAndGo, WriteAndGo, At, InPlace
            <4> QED
                BY <1>6, <2>2, <4>1, EndingWrite
        <3>2. CASE ~IsActive(r)
            <4>1. WriteAndGo(r, "round_2_late", "partial",
                             Mark(p, {"debate_round_2"}, "failed"), "persist")
                BY <2>2, <3>2, OneKind DEF EndAndGo, WriteAndGo, At
            <4> QED
                BY <1>6, <3>2, <4>1, PassingWrite, PcEnds DEF InTimePcs
        <3> QED
            BY <3>1, <3>2
    <2>3. CASE WriteAndGo(r, "leave_round_2", "synthesis_running",
                          Mark(p, {"debate_round_2"}, "completed"),
                          IF Stopped(r) THEN "persist" ELSE "synthesis")
        <3>1. IsActive(r) =>
                  /\ ~Stopped(r)
                  /\ Shows(Mark(p, {"debate_round_2"}, "completed"),
                           "completed", "completed", "completed", "pending")
            <4>1. IsActive(r) => Shows(p, "completed", "completed", "running", "pending")
                BY <1>0, <2>3 DEF WriteAndGo, At, InPlace
            <4>2. IsActive(r) => ~Stopped(r)
                BY OneKind DEF IsActive, Stopped, ActiveStatuses
            <4> QED
                BY <1>0, <4>1, <4>2, MarkShows
        <3>2. CASE Stopped(r)
            BY <1>6, <2>3, <3>1, <3>2, PassingWrite, PcEnds DEF InTimePcs
        <3>3. CASE ~Stopped(r)
            BY <1>5, <1>6, <1>10, <1>12, <2>3, <3>1, <3>3 DEF InTimePcs
        <3> QED
            BY <3>2, <3>3
    <2> QED
        BY <1>14, <2>1, <2>2, <2>3 DEF LeaveDebate
<1>15. CASE Synthesis(r)
    <2>1. CASE AnnounceStage(r, "synthesis", "synthesis", "synthesis_gate")
        <3>1. IsActive(r) =>
                  Shows(Mark(p, {"synthesis"}, "running"),
                        "completed", "completed", "completed", "running")
            BY <1>0, <2>1, MarkShows DEF AnnounceStage, WriteAndGo, At, InPlace
        <3> QED
            BY <1>1, <1>6, <1>11, <1>12, <2>1, <3>1 DEF SynthesisPcs, InTimePcs
    <2>2. worker[r] \in SynthesisPcs /\ IsActive(r) =>
              Shows(p, "completed", "completed", "completed", "running")
        BY <1>0 DEF InPlace
    <2>3. CASE StageGate(r, "synthesis_gate", "late_synthesis", "enter_synthesis")
        <3>1. worker[r] \in SynthesisPcs
            BY <2>3 DEF StageGate, At, SynthesisPcs
        <3> QED
            BY <1>2, <1>6, <1>11, <1>12, <2>2, <2>3, <3>1 DEF SynthesisPcs, InTimePcs
    <2>4. CASE \/ EnterStage(r, "enter_synthesis", "synthesis", "synthesizing")
               \/ StageReturns(r, "synthesized", "synthesis", "record_synthesis")
               \/ RecordStage(r, "record_synthesis", "synthesis", "complete")
        <3>1. worker[r] \in SynthesisPcs
            BY <2>4 DEF EnterStage, StageReturns, RecordStage, At, SynthesisPcs
        <3>2. IsActive(r) => \A pc \in SynthesisPcs : InPlace(p, pc, timedOut[r])
            BY <1>11, <1>12, <2>2, <3>1
        <3> QED
            BY <1>3, <1>6, <2>4, <3>2 DEF SynthesisPcs, InTimePcs
    <2>5. CASE MakeCalls(r, "synthesizing", "synthesis", {"synthesized"})
        <3>1. /\ status'[r] = status[r] /\ stages'[r] = stages[r] /\ canceller'[r] = canceller[r]
              /\ worker[r] = "synthesizing" /\ Present(r) /\ worker'[r] = "synthesized"
            BY <2>5 DEF MakeCalls, At, Goto, TypeOK
        <3>2. timedOut'[r] \in BOOLEAN
            BY <2>5, StagesType, <1>15 DEF TypeOK
        <3>3. RoundSkipped(r)'
            BY <3>1 DEF RoundSkipped, InTimePcs
        <3>4. IsActive(r) => InPlace(p, "synthesized", timedOut'[r])
            BY <1>11, <2>2, <3>1, <3>2 DEF SynthesisPcs
        <3> QED
            BY <1>6, <3>1, <3>3, <3>4, InnerStep
    <2>6. CASE WriteAndGo(r, "complete", "completed", Mark(p, {"synthesis"}, "completed"),
                          "persist")
        <3>1. CASE IsActive(r)
            <4>1. AtRest(Mark(p, {"synthesis"}, "completed"))
                BY <2>2, <2>6, <3>1, <1>0, MarkShows, ShowsOne DEF WriteAndGo, At, SynthesisPcs
            <4> QED
                BY <1>6, <2>6, <4>1, EndingWrite
        <3>2. CASE ~IsActive(r)
            BY <1>6, <2>6, <3>2, PassingWrite, PcEnds DEF InTimePcs
        <3> QED
            BY <3>1, <3>2
    <2> QED
        BY <1>15, <2>1, <2>3, <2>4, <2>5, <2>6 DEF Synthesis
<1> QED
    BY <1>13, <1>14, <1>15

-----------------------------------------------------------------------------
(* Progress: how a run is settled, and what the others do to it              *)

\* Progress is read off five fields.
LEMMA ProgressReads ==
    ASSUME NEW r \in Runs, ProgressInv(r),
           status'[r] = status[r], stages'[r] = stages[r], worker'[r] = worker[r],
           timedOut'[r] = timedOut[r], canceller'[r] = canceller[r]
    PROVE  ProgressInv(r)'
BY DEF ProgressInv, ProgressFollowsWorker, IsActive, RoundSkipped, EndedByOne, Present,
    SpinnersEnd, IsTerminal, OwesStamp

\* Stamping the stage in progress leaves none in progress.
LEMMA RunningMarked ==
    ASSUME NEW p \in [Stages -> StageState], OneAtMost(p), NEW st, st # "running"
    PROVE  AtRest(Mark(p, RunningStage(p), st))
<1>1. CASE \E s \in Stages : p[s] = "running"
    <2>1. PICK c \in Stages : p[c] = "running" /\ RunningStage(p) = {c}
        BY <1>1 DEF RunningStage
    <2> QED
        BY <2>1 DEF AtRest, OneAtMost, Mark
<1>2. CASE ~\E s \in Stages : p[s] = "running"
    BY <1>2 DEF AtRest, Mark
<1> QED
    BY <1>1, <1>2

\* A worker at the end of its pipeline.
LEMMA SettlingProgress ==
    ASSUME TypeOK, NEW r \in Runs, ProgressInv(r),
           \/ StampEndedRun(r) \/ WorkerRaises(r) \/ WorkerFindsRunGone(r)
           \/ PersistRun(r) \/ ReleasePermit(r)
    PROVE  ProgressInv(r)'
<1> DEFINE p == stages[r]
<1> USE DEF repository, money, pool
<1>0. /\ p \in [Stages -> StageState] /\ OneAtMost(p)
      /\ FinalPcs \cap (InTimePcs \cup StampPcs) = {} /\ "round_2_skipped" \notin FinalPcs
      /\ {"persist", "release", "done"} \subseteq FinalPcs
      /\ ServicePcs \cap (StampPcs \cup FinalPcs) = {}
    BY DEF TypeOK, ProgressInv, SpinnersEnd, FinalPcs, InTimePcs, StampPcs, ServicePcs
<1>1. CASE StampEndedRun(r)
    <2>1. /\ worker[r] \in StampPcs /\ Present(r) /\ worker'[r] = "persist"
          /\ status'[r] = status[r] /\ stages'[r] = OwedStamps(p, worker[r])
          /\ canceller'[r] = canceller[r]
        BY <1>1 DEF StampEndedRun, Annotate, Goto, TypeOK
    <2>2. /\ status[r] \in {"failed", "partial", "timed_out"}
          /\ \A s \in Stages : p[s] = "running" => s \in LateStage(worker[r])
        BY <2>1 DEF ProgressInv, EndedByOne
    <2>3. AtRest(stages'[r])
        <3>1. \A pc \in StampPcs : LateStage(pc) # {} =>
                  pc \in {"late_answers", "late_debate", "late_synthesis"}
            BY DEF StampPcs, LateStage
        <3> QED
            BY <1>0, <2>1, <2>2, <3>1 DEF OwedStamps, LateStage, Mark, AtRest, StampPcs
    <2>4. ProgressFollowsWorker(r)' /\ RoundSkipped(r)'
        BY <1>0, <2>1, <2>2 DEF ProgressFollowsWorker, IsActive, ActiveStatuses, RoundSkipped
    <2>5. EndedByOne(r)'
        BY <1>0, <2>1, <2>2 DEF ProgressInv, EndedByOne
    <2>6. SpinnersEnd(r)'
        BY <2>3 DEF SpinnersEnd, AtRest, OneAtMost
    <2> QED
        BY <2>4, <2>5, <2>6 DEF ProgressInv
<1>2. CASE WorkerRaises(r)
    <2>1. /\ worker[r] \in ServicePcs /\ Present(r)
          /\ worker'[r] \in {"persist", "done"} /\ (worker'[r] = "persist" => ~Legacy(r))
          /\ timedOut'[r] = timedOut[r] /\ canceller'[r] = canceller[r]
        BY <1>2 DEF WorkerRaises, Goto, TypeOK
    <2>2. RoundSkipped(r)'
        BY <1>0, <2>1 DEF RoundSkipped
    <2>3. CASE ~IsActive(r)
        <3>1. status'[r] = status[r] /\ stages'[r] = stages[r]
            BY <1>2, <2>3, OneKind DEF WorkerRaises, UpdateStatus
        <3> QED
            BY <1>0, <2>1, <2>2, <2>3, <3>1, TrailingWorker
    <2>4. CASE IsActive(r) /\ Legacy(r)
        <3>1. status'[r] = status[r] /\ stages'[r] = p /\ worker'[r] = "done"
            BY <1>2, <2>4 DEF WorkerRaises, Goto, TypeOK
        <3>2. InPlace(p, "done", timedOut'[r])
            BY DEF InPlace, StampPcs, Round1Pcs, RecordPcs, SynthesisPcs
        <3> QED
            BY <1>0, <2>1, <2>2, <2>4, <3>1, <3>2, PassingWorker DEF IsActive
    <2>5. CASE IsActive(r) /\ ~Legacy(r)
        <3>1. /\ status'[r] = "failed" /\ worker'[r] = "persist"
              /\ stages'[r] = Mark(p, RunningStage(p), "failed")
            BY <1>2, <2>5, OneKind DEF WorkerRaises, UpdateStatus, Goto, TypeOK
        <3>2. AtRest(stages'[r])
            BY <1>0, <3>1, RunningMarked
        <3> QED
            BY <1>0, <2>1, <2>2, <2>5, <3>1, <3>2, EndingWorker
    <2> QED
        BY <2>3, <2>4, <2>5
<1>3. CASE WorkerFindsRunGone(r)
    <2>1. /\ ~Present(r) /\ worker'[r] \in {"persist", "done"}
          /\ status'[r] = status[r] /\ stages'[r] = stages[r] /\ canceller'[r] = canceller[r]
        BY <1>3 DEF WorkerFindsRunGone, Goto, TypeOK
    <2>2. RoundSkipped(r)'
        BY <1>0, <2>1 DEF RoundSkipped
    <2> QED
        BY <1>0, <2>1, <2>2, TrailingWorker, OneKind
<1>4. CASE PersistRun(r) \/ ReleasePermit(r)
    <2>1. /\ worker[r] \in {"persist", "release"} /\ worker'[r] \in {"release", "done"}
          /\ status'[r] = status[r] /\ stages'[r] = stages[r] /\ canceller'[r] = canceller[r]
        BY <1>4 DEF PersistRun, ReleasePermit, Goto, TypeOK
    <2>2. RoundSkipped(r)'
        BY <1>0, <2>1 DEF RoundSkipped
    <2>3. ~IsActive(r)
        BY <2>1 DEF ProgressInv, ProgressFollowsWorker, InPlace
    <2> QED
        BY <1>0, <2>1, <2>2, <2>3, TrailingWorker
<1> QED
    BY <1>1, <1>2, <1>3, <1>4

\* The POST and DELETE handlers, the pool threads, the purge and the clock.
LEMMA OutsideProgress ==
    ASSUME RunsInv, NEW r \in Runs, ProgressInv(r), RunStep(r) \/ Tick, ~WorkerStep(r)
    PROVE  ProgressInv(r)'
<1> DEFINE p == stages[r]
<1> USE DEF repository, money, pool, pipeline
<1>0. /\ TypeOK /\ CreatedByRequest /\ WorkerAfterRequest
      /\ p \in [Stages -> StageState] /\ OneAtMost(p)
      /\ IsActive(r) => InPlace(p, worker[r], timedOut[r]) /\ canceller[r] # "stamping"
      /\ request[r] # "done" => worker[r] = "none"
    BY DEF RunsInv, WorkerAfterRequest, TypeOK, ProgressInv, ProgressFollowsWorker, SpinnersEnd,
        EndedByOne, IsActive, ActiveStatuses
<1>1. CASE CreateRun(r)
    <2>1. /\ status[r] = "absent" /\ worker[r] = "none"
          /\ status'[r] = "accepted" /\ stages'[r] = InitialProgress /\ worker'[r] = "none"
          /\ canceller'[r] = canceller[r] /\ timedOut'[r] = timedOut[r]
        BY <1>0, <1>1 DEF CreateRun, CreatedByRequest, TypeOK
    <2>2. canceller[r] # "stamping" /\ RoundSkipped(r)'
        BY <2>1 DEF ProgressInv, EndedByOne, RoundSkipped
    <2>3. Shows(stages'[r], "pending", "pending", "pending", "pending")
        BY <2>1 DEF Shows, InitialProgress, Stages, Downstream
    <2>4. InPlace(stages'[r], "none", timedOut'[r])
        BY <2>3 DEF InPlace, StampPcs, Round1Pcs, RecordPcs, SynthesisPcs
    <2>5. EndedByOne(r)'
        BY <2>1, <2>2 DEF EndedByOne, StampPcs
    <2>6. SpinnersEnd(r)'
        BY <2>1, <2>3, ShowsOne DEF SpinnersEnd, AtRest, OneAtMost
    <2> QED
        BY <2>1, <2>2, <2>4, <2>5, <2>6 DEF ProgressInv, ProgressFollowsWorker
<1>2. CASE StartWorker(r)
    <2>1. /\ worker[r] = "none" /\ worker'[r] = "begin" /\ status'[r] = status[r]
          /\ stages'[r] = stages[r] /\ canceller'[r] = canceller[r] /\ timedOut'[r] = timedOut[r]
        BY <1>0, <1>2 DEF StartWorker, Goto, TypeOK
    <2>2. RoundSkipped(r)' /\ "begin" \notin StampPcs /\ "none" \notin StampPcs \cup FinalPcs
        BY <2>1 DEF ProgressInv, RoundSkipped, InTimePcs, StampPcs, FinalPcs
    <2>3. CASE IsActive(r)
        <3>1. InPlace(p, "begin", timedOut'[r])
            BY <1>0, <2>1, <2>3 DEF InPlace, StampPcs, Round1Pcs, RecordPcs, SynthesisPcs
        <3> QED
            BY <1>0, <2>1, <2>2, <2>3, <3>1, PassingWorker DEF IsActive
    <2>4. CASE ~IsActive(r)
        BY <1>0, <2>1, <2>2, <2>4, TrailingWorker
    <2> QED
        BY <2>3, <2>4
<1>3. CASE AbandonRun(r)
    <2>1. worker[r] = "none" /\ UNCHANGED <<worker, canceller, timedOut>>
        BY <1>0, <1>3 DEF AbandonRun
    <2>2. CASE ~IsActive(r)
        <3>1. ~MayTransition(r, "failed")
            BY <2>2 DEF MayTransition, Present, IsActive, ALLOWED_TRANSITIONS, QueryRunStatus,
                ActiveStatuses, TERMINAL_STATUSES
        <3> QED
            BY <1>3, <2>1, <3>1, ProgressReads DEF AbandonRun
    <2>3. CASE IsActive(r)
        <3>1. status'[r] \in {"failed", status[r]} /\ stages'[r] = p
            BY <1>0, <1>3 DEF AbandonRun, Transition, TypeOK
        <3>2. AtRest(p)
            BY <1>0, <2>1, <2>3, ShowsOne DEF InPlace
        <3>3. InPlace(p, "none", timedOut[r])
            BY <1>0, <2>1, <2>3
        <3>4. ProgressFollowsWorker(r)' /\ RoundSkipped(r)'
            BY <2>1, <3>1, <3>3 DEF ProgressInv, ProgressFollowsWorker, RoundSkipped
        <3>5. EndedByOne(r)'
            BY <1>0, <2>1, <2>3, <3>1 DEF ProgressInv, EndedByOne, StampPcs
        <3>6. SpinnersEnd(r)'
            BY <1>0, <3>1, <3>2 DEF SpinnersEnd, AtRest
        <3> QED
            BY <3>4, <3>5, <3>6 DEF ProgressInv
    <2> QED
        BY <2>2, <2>3
<1>4. CASE UserCancels(r)
    <2>1. /\ IsActive(r)
          /\ status'[r] = "cancelled" /\ stages'[r] = p /\ canceller'[r] = "stamping"
          /\ worker'[r] = worker[r] /\ timedOut'[r] = timedOut[r]
        BY <1>0, <1>4 DEF UserCancels, MayTransition, Present, Transition, IsActive,
            ALLOWED_TRANSITIONS, QueryRunStatus, ActiveStatuses, TERMINAL_STATUSES, TypeOK
    <2>2. worker[r] \notin StampPcs
        BY <1>0, <2>1 DEF InPlace
    <2>3. ProgressFollowsWorker(r)' /\ RoundSkipped(r)'
        BY <2>1 DEF ProgressFollowsWorker, IsActive, ActiveStatuses, ProgressInv, RoundSkipped
    <2>4. EndedByOne(r)' /\ SpinnersEnd(r)'
        BY <1>0, <2>1, <2>2 DEF EndedByOne, SpinnersEnd, OwesStamp
    <2> QED
        BY <2>3, <2>4 DEF ProgressInv
<1>5. CASE CancelStampsStage(r)
    <2>1. /\ status[r] \in {"cancelled", "purged"} /\ canceller'[r] = "done"
          /\ status'[r] = status[r] /\ worker'[r] = worker[r] /\ timedOut'[r] = timedOut[r]
          /\ stages'[r] = IF Present(r) THEN Mark(p, RunningStage(p), "skipped") ELSE p
        BY <1>0, <1>5 DEF CancelStampsStage, Annotate, ProgressInv, EndedByOne, TypeOK
    <2>2. Present(r) => AtRest(stages'[r])
        BY <1>0, <2>1, RunningMarked
    <2>3. ProgressFollowsWorker(r)' /\ RoundSkipped(r)'
        BY <2>1 DEF ProgressFollowsWorker, IsActive, ActiveStatuses, ProgressInv, RoundSkipped
    <2>4. EndedByOne(r)'
        <3>1. ~(worker[r] \in StampPcs /\ Present(r))
            BY <2>1, OneKind DEF ProgressInv, EndedByOne
        <3> QED
            BY <2>1, <3>1 DEF EndedByOne, Present
    <2>5. SpinnersEnd(r)'
        <3>1. IsTerminal(r)' => Present(r)
            BY <2>1, OneKind DEF IsTerminal
        <3> QED
            BY <1>0, <2>1, <2>2, <3>1 DEF SpinnersEnd, AtRest, OneAtMost
    <2> QED
        BY <2>3, <2>4, <2>5 DEF ProgressInv
<1>6. CASE PurgeRun(r)
    <2>1. /\ status'[r] = "purged" /\ stages'[r] = p /\ worker'[r] = worker[r]
          /\ timedOut'[r] = timedOut[r] /\ canceller'[r] = canceller[r]
        BY <1>0, <1>6 DEF PurgeRun, TypeOK
    <2>2. ~IsActive(r)' /\ ~Present(r)' /\ ~IsTerminal(r)'
        BY <2>1 DEF IsActive, Present, IsTerminal, QueryRunStatus, ActiveStatuses,
            TERMINAL_STATUSES
    <2>3. ProgressFollowsWorker(r)' /\ RoundSkipped(r)' /\ EndedByOne(r)' /\ SpinnersEnd(r)'
        BY <1>0, <2>1, <2>2 DEF ProgressFollowsWorker, ProgressInv, RoundSkipped, EndedByOne,
            SpinnersEnd
    <2> QED
        BY <2>3 DEF ProgressInv
<1>7. CASE /\ ~CreateRun(r) /\ ~StartWorker(r) /\ ~AbandonRun(r) /\ ~UserCancels(r)
           /\ ~CancelStampsStage(r) /\ ~PurgeRun(r)
    <2>1. UNCHANGED <<status, stages, worker, timedOut, canceller>>
        BY <1>7, JudgeTouches
        DEF RunStep, RequestStep, TakePermit, RefuseForCapacity, RefuseAtCreate, ChargeRun, ChargeRaises, MarkDegraded, ThreadFailsToStart, VoidCharge,
            ReturnPermitUnused, SlotStarts, SlotFinishes, BudgetExpires, Tick
    <2> QED
        BY <2>1, ProgressReads
<1> QED
    BY <1>1, <1>2, <1>3, <1>4, <1>5, <1>6, <1>7

\* Every step of a run keeps its progress in order.
LEMMA ProgressStep ==
    ASSUME RunsInv, NEW r \in Runs, ProgressInv(r), RunStep(r) \/ Tick
    PROVE  ProgressInv(r)'
<1>1. TypeOK
    BY DEF RunsInv
<1> QED
    BY <1>1, AnswersProgress, StagesProgress, SettlingProgress, OutsideProgress DEF WorkerStep

-----------------------------------------------------------------------------
(* Captures: a stage is entered and recorded in the worker's own order       *)

\* The worker moves between these; it leaves one by a capture, or for good.
Phases ==
    {BeforeDebatePcs, OpenStagePcs("debate"), BetweenPcs, OpenStagePcs("synthesis"), {"complete"}}
Within(from, pc) ==
    pc \in FinalPcs \cup StampPcs \/ \E phase \in Phases : from \in phase /\ pc \in phase

\* A step of the worker captures one stage, or stays in its phase.
LEMMA CaptureMoves ==
    ASSUME TypeOK, NEW r \in Runs, WorkerStep(r)
    PROVE  \/ billing'[r] = billing[r] /\ Within(worker[r], worker'[r])
           \/ EnterStage(r, "enter_debate", "debate", "debating_1")
           \/ RecordStage(r, "record_debate", "debate", "leave_round_1")
           \/ EnterStage(r, "enter_synthesis", "synthesis", "synthesizing")
           \/ RecordStage(r, "record_synthesis", "synthesis", "complete")
<1> DEFINE Stays == billing'[r] = billing[r] /\ Within(worker[r], worker'[r])
<1> USE DEF repository, money, pool
<1>0. /\ \A from, pc : pc \in {"persist", "done", "release"} \cup StampPcs => Within(from, pc)
      /\ \A from, pc \in BeforeDebatePcs : Within(from, pc)
      /\ \A from, pc \in OpenStagePcs("debate") : Within(from, pc)
      /\ \A from, pc \in BetweenPcs : Within(from, pc)
      /\ \A from, pc \in OpenStagePcs("synthesis") : Within(from, pc)
    BY DEF Within, Phases, FinalPcs
<1>1. ASSUME NEW from, NEW st, NEW q, NEW pc, Within(from, pc), WriteAndGo(r, from, st, q, pc)
      PROVE  Stays
    BY <1>1 DEF WriteAndGo, At, Goto, TypeOK
<1>2. ASSUME NEW from, NEW st, NEW q, NEW pc, Within(from, pc), EndAndGo(r, from, st, q, pc)
      PROVE  Stays
    BY <1>0, <1>1, <1>2 DEF EndAndGo
<1>3. ASSUME NEW late \in StampPcs, DegradeForDeadline(r, late), UNCHANGED billing
      PROVE  Stays
    BY <1>0, <1>3 DEF DegradeForDeadline, Goto, TypeOK
<1>4. ASSUME NEW from, NEW late \in StampPcs, NEW pc, Within(from, pc),
             StageGate(r, from, late, pc)
      PROVE  Stays
    <2>1. CASE Stopped(r) \/ ~expired[r]
        BY <1>0, <1>4, <2>1 DEF StageGate, At, Goto, TypeOK
    <2>2. CASE ~(Stopped(r) \/ ~expired[r])
        BY <1>3, <1>4, <2>2 DEF StageGate
    <2> QED
        BY <2>1, <2>2
<1>5. ASSUME NEW from, NEW b, NEW pc, Within(from, pc), StageReturns(r, from, b, pc)
      PROVE  Stays
    BY <1>0, <1>5 DEF StageReturns, At, Goto, TypeOK
<1>6. ASSUME NEW from, NEW b, NEW pcs, \A pc \in pcs : Within(from, pc),
             MakeCalls(r, from, b, pcs)
      PROVE  Stays
    BY <1>6 DEF MakeCalls, At, Goto, TypeOK
<1>7. CASE \/ FailWithoutKey(r) \/ EndWithoutAnswers(r) \/ LeaveAnswers(r)
           \/ QuickSkipsStages(r) \/ QuickCompletes(r)
    BY <1>0, <1>1, <1>2, <1>7 DEF FailWithoutKey, EndWithoutAnswers, LeaveAnswers,
        QuickSkipsStages, QuickCompletes, BeforeDebatePcs, StampPcs
<1>8. CASE \/ StartAnswers(r) \/ CollectAnswer(r) \/ SkipRaisedSlot(r)
           \/ CutSlotAtDeadline(r) \/ RecordAnswer(r)
    <2>1. /\ worker[r] \in {"begin", "collect", "record"}
          /\ worker'[r] \in {"collect", "record", "persist"} /\ billing'[r] = billing[r]
        BY <1>8 DEF StartAnswers, CollectAnswer, SkipRaisedSlot, CutSlotAtDeadline, RecordAnswer,
            Collecting, At, Goto, TypeOK
    <2> QED
        BY <1>0, <2>1 DEF BeforeDebatePcs
<1>9. CASE EndAtDeadline(r)
    BY <1>3, <1>9 DEF EndAtDeadline, StampPcs
<1>10. CASE \/ StampEndedRun(r) \/ WorkerRaises(r) \/ WorkerFindsRunGone(r)
            \/ PersistRun(r) \/ ReleasePermit(r)
    BY <1>0, <1>10 DEF StampEndedRun, WorkerRaises, WorkerFindsRunGone, PersistRun,
        ReleasePermit, Goto, TypeOK
<1>11. CASE Debate(r)
    <2>1. CASE \/ AnnounceStage(r, "round_1", "debate_round_1", "round_1_gate")
               \/ AnnounceStage(r, "round_2", "debate_round_2", "debating_2")
               \/ WriteAndGo(r, "announce_2", "debate_round_2_running",
                             Mark(stages[r], {"debate_round_1"}, "completed"), "round_2")
        BY <1>0, <1>1, <2>1 DEF AnnounceStage, BeforeDebatePcs, OpenStagePcs
    <2>2. CASE StageGate(r, "round_1_gate", "late_debate", "enter_debate")
        BY <1>0, <1>4, <2>2 DEF BeforeDebatePcs, StampPcs
    <2>3. CASE \/ MakeCalls(r, "debating_1", "debate", {"announce_2", "round_2_skipped"})
               \/ MakeCalls(r, "debating_2", "debate", {"debated"})
        BY <1>0, <1>6, <2>3 DEF OpenStagePcs
    <2>4. CASE \E from \in {"debated", "round_2_skipped"} :
                   StageReturns(r, from, "debate", "record_debate")
        BY <1>0, <1>5, <2>4 DEF OpenStagePcs
    <2> QED
        BY <1>11, <2>1, <2>2, <2>3, <2>4 DEF Debate
<1>12. CASE LeaveDebate(r)
    BY <1>0, <1>1, <1>2, <1>12 DEF LeaveDebate, BetweenPcs, StampPcs
<1>13. CASE Synthesis(r)
    <2>1. CASE AnnounceStage(r, "synthesis", "synthesis", "synthesis_gate")
        BY <1>0, <1>1, <2>1 DEF AnnounceStage, BetweenPcs
    <2>2. CASE StageGate(r, "synthesis_gate", "late_synthesis", "enter_synthesis")
        BY <1>0, <1>4, <2>2 DEF BetweenPcs, StampPcs
    <2>3. CASE MakeCalls(r, "synthesizing", "synthesis", {"synthesized"})
        BY <1>0, <1>6, <2>3 DEF OpenStagePcs
    <2>4. CASE StageReturns(r, "synthesized", "synthesis", "record_synthesis")
        BY <1>0, <1>5, <2>4 DEF OpenStagePcs
    <2>5. CASE WriteAndGo(r, "complete", "completed",
                          Mark(stages[r], {"synthesis"}, "completed"), "persist")
        BY <1>0, <1>1, <2>5
    <2> QED
        BY <1>13, <2>1, <2>2, <2>3, <2>4, <2>5 DEF Synthesis
<1> QED
    BY <1>7, <1>8, <1>9, <1>10, <1>11, <1>12, <1>13 DEF WorkerStep

\* Every step of a run keeps its captures in order.
LEMMA CapturesStep ==
    ASSUME RunsInv, NEW r \in Runs, CapturesInOrder(r), RunStep(r) \/ Tick
    PROVE  CapturesInOrder(r)'
<1> USE DEF BeforeDebatePcs, BetweenPcs, OpenStagePcs, BillableStage
<1>1. TypeOK
    BY DEF RunsInv
<1>2. billing[r] \in [BillableStage -> StageBillingState]
    BY <1>1 DEF TypeOK
<1>3. CASE WorkerStep(r)
    <2>1. CASE billing'[r] = billing[r] /\ Within(worker[r], worker'[r])
        <3>1. CASE worker'[r] \in FinalPcs \cup StampPcs
            BY <2>1, <3>1 DEF FinalPcs, StampPcs, CapturesInOrder
        <3>2. CASE \E phase \in Phases : worker[r] \in phase /\ worker'[r] \in phase
            BY <2>1, <3>2 DEF Phases, CapturesInOrder
        <3> QED
            BY <2>1, <3>1, <3>2 DEF Within
    <2>2. CASE EnterStage(r, "enter_debate", "debate", "debating_1")
        <3>1. worker[r] = "enter_debate" /\ worker'[r] = "debating_1"
            BY <1>1, <2>2 DEF EnterStage, At, Goto, TypeOK
        <3>2. billing'[r] = [billing[r] EXCEPT !["debate"] = "entered"]
            BY <1>1, <2>2 DEF EnterStage, TypeOK
        <3> QED
            BY <1>2, <3>1, <3>2 DEF CapturesInOrder
    <2>3. CASE RecordStage(r, "record_debate", "debate", "leave_round_1")
        <3>1. worker[r] = "record_debate" /\ worker'[r] = "leave_round_1"
            BY <1>1, <2>3 DEF RecordStage, At, Goto, TypeOK
        <3>2. billing'[r] = [billing[r] EXCEPT !["debate"] = "recorded"]
            BY <1>1, <2>3 DEF RecordStage, TypeOK
        <3> QED
            BY <1>2, <3>1, <3>2 DEF CapturesInOrder
    <2>4. CASE EnterStage(r, "enter_synthesis", "synthesis", "synthesizing")
        <3>1. worker[r] = "enter_synthesis" /\ worker'[r] = "synthesizing"
            BY <1>1, <2>4 DEF EnterStage, At, Goto, TypeOK
        <3>2. billing'[r] = [billing[r] EXCEPT !["synthesis"] = "entered"]
            BY <1>1, <2>4 DEF EnterStage, TypeOK
        <3> QED
            BY <1>2, <3>1, <3>2 DEF CapturesInOrder
    <2>5. CASE RecordStage(r, "record_synthesis", "synthesis", "complete")
        <3>1. worker[r] = "record_synthesis" /\ worker'[r] = "complete"
            BY <1>1, <2>5 DEF RecordStage, At, Goto, TypeOK
        <3>2. billing'[r] = [billing[r] EXCEPT !["synthesis"] = "recorded"]
            BY <1>1, <2>5 DEF RecordStage, TypeOK
        <3> QED
            BY <1>2, <3>1, <3>2 DEF CapturesInOrder
    <2> QED
        BY <1>1, <1>3, <2>1, <2>2, <2>3, <2>4, <2>5, CaptureMoves
<1>4. CASE ~WorkerStep(r)
    <2>1. UNCHANGED billing /\ worker'[r] \in {worker[r], "begin"}
          /\ (worker'[r] = "begin" => worker[r] \in {"none", "begin"})
        <3>1. CASE OutsideStep
            BY <3>1 DEF OutsideStep, Work
        <3>2. CASE StartWorker(r)
            BY <1>1, <3>2 DEF RunsInv, WorkerAfterRequest, StartWorker, repository, Goto, TypeOK
        <3>3. CASE \E s \in AllSlots : SlotStarts(r, s) \/ SlotFinishes(r, s)
            BY <3>3 DEF SlotStarts, SlotFinishes, repository, pipeline
        <3> QED
            BY <1>4, <3>1, <3>2, <3>3, OtherStepClasses
    <2> QED
        BY <2>1 DEF CapturesInOrder
<1> QED
    BY <1>3, <1>4

-----------------------------------------------------------------------------
(* Answers: what was ready when the worker left them is served              *)

\* The stages after the answers leave them, and the pool, as they are.
LEMMA LaterMoves ==
    ASSUME TypeOK, NEW r \in Runs, Debate(r) \/ LeaveDebate(r) \/ Synthesis(r)
    PROVE  /\ UNCHANGED <<answers, tasks, cursor>>
           /\ worker[r] \notin EarlyPcs \cup FinalPcs \cup {"quick", "late_answers"}
           /\ worker'[r] \notin {"collect", "record", "quick"}
<1> DEFINE Later == /\ UNCHANGED <<answers, tasks, cursor>>
                    /\ worker[r] \notin EarlyPcs \cup FinalPcs \cup {"quick", "late_answers"}
                    /\ worker'[r] \notin {"collect", "record", "quick"}
           Earlier == EarlyPcs \cup FinalPcs \cup {"quick", "late_answers"}
           LaterPcs == WorkerPcs \ {"collect", "record", "quick"}
<1> USE DEF repository, money, pool
<1>0. /\ {"persist"} \cup StampPcs \subseteq LaterPcs
      /\ {"round_1", "round_1_gate", "enter_debate", "debating_1", "announce_2", "round_2",
          "debating_2", "debated", "round_2_skipped", "record_debate"} \subseteq LaterPcs \ Earlier
      /\ {"leave_round_1", "round_2_late", "leave_round_2", "synthesis", "synthesis_gate",
          "enter_synthesis", "synthesizing", "synthesized", "record_synthesis", "complete"}
              \subseteq LaterPcs \ Earlier
      /\ {"skip_synthesis", "late_debate", "late_synthesis"} \subseteq StampPcs
    BY DEF WorkerPcs, StampPcs, EarlyPcs, FinalPcs
<1>1. ASSUME NEW from, NEW st, NEW q, NEW pc \in LaterPcs, from \notin Earlier,
             WriteAndGo(r, from, st, q, pc)
      PROVE  Later
    BY <1>1 DEF WriteAndGo, At, Goto, TypeOK
<1>2. ASSUME NEW from, NEW st, NEW q, NEW pc \in LaterPcs, from \notin Earlier,
             EndAndGo(r, from, st, q, pc)
      PROVE  Later
    BY <1>0, <1>1, <1>2 DEF EndAndGo
<1>3. ASSUME NEW from, NEW late \in StampPcs, NEW pc \in LaterPcs, from \notin Earlier,
             StageGate(r, from, late, pc)
      PROVE  Later
    <2>1. worker'[r] \in {pc, late, "persist"}
        BY <1>3 DEF StageGate, DegradeForDeadline, Goto, TypeOK
    <2> QED
        BY <1>0, <1>3, <2>1 DEF StageGate, At
<1>4. ASSUME NEW from, NEW b, NEW pc \in LaterPcs, from \notin Earlier,
             \/ EnterStage(r, from, b, pc) \/ RecordStage(r, from, b, pc)
             \/ StageReturns(r, from, b, pc)
      PROVE  Later
    BY <1>0, <1>4 DEF EnterStage, RecordStage, StageReturns, At, Goto, TypeOK
<1>5. ASSUME NEW from, NEW b, NEW pcs \in SUBSET LaterPcs, from \notin Earlier,
             MakeCalls(r, from, b, pcs)
      PROVE  Later
    BY <1>5 DEF MakeCalls, At, Goto, TypeOK
<1>6. CASE Debate(r)
    <2>1. CASE \/ AnnounceStage(r, "round_1", "debate_round_1", "round_1_gate")
               \/ AnnounceStage(r, "round_2", "debate_round_2", "debating_2")
               \/ WriteAndGo(r, "announce_2", "debate_round_2_running",
                             Mark(stages[r], {"debate_round_1"}, "completed"), "round_2")
        BY <1>0, <1>1, <2>1 DEF AnnounceStage
    <2>2. CASE StageGate(r, "round_1_gate", "late_debate", "enter_debate")
        BY <1>0, <1>3, <2>2
    <2>3. CASE \/ MakeCalls(r, "debating_1", "debate", {"announce_2", "round_2_skipped"})
               \/ MakeCalls(r, "debating_2", "debate", {"debated"})
        BY <1>0, <1>5, <2>3
    <2>4. CASE \/ EnterStage(r, "enter_debate", "debate", "debating_1")
               \/ \E from \in {"debated", "round_2_skipped"} :
                      StageReturns(r, from, "debate", "record_debate")
               \/ RecordStage(r, "record_debate", "debate", "leave_round_1")
        BY <1>0, <1>4, <2>4
    <2> QED
        BY <1>6, <2>1, <2>2, <2>3, <2>4 DEF Debate
<1>7. CASE LeaveDebate(r)
    BY <1>0, <1>1, <1>2, <1>7 DEF LeaveDebate
<1>8. CASE Synthesis(r)
    <2>1. CASE \/ AnnounceStage(r, "synthesis", "synthesis", "synthesis_gate")
               \/ WriteAndGo(r, "complete", "completed",
                             Mark(stages[r], {"synthesis"}, "completed"), "persist")
        BY <1>0, <1>1, <2>1 DEF AnnounceStage
    <2>2. CASE StageGate(r, "synthesis_gate", "late_synthesis", "enter_synthesis")
        BY <1>0, <1>3, <2>2
    <2>3. CASE MakeCalls(r, "synthesizing", "synthesis", {"synthesized"})
        BY <1>0, <1>5, <2>3
    <2>4. CASE \/ EnterStage(r, "enter_synthesis", "synthesis", "synthesizing")
               \/ StageReturns(r, "synthesized", "synthesis", "record_synthesis")
               \/ RecordStage(r, "record_synthesis", "synthesis", "complete")
        BY <1>0, <1>4, <2>4
    <2> QED
        BY <1>8, <2>1, <2>2, <2>3, <2>4 DEF Synthesis
<1> QED
    BY <1>6, <1>7, <1>8

\* A step that leaves the answers and the pool alone.
LEMMA AnswersKept ==
    ASSUME NEW r \in Runs, AnswersInv(r),
           answers'[r] = answers[r], tasks'[r] = tasks[r], cursor'[r] = cursor[r],
           worker'[r] # "quick",
           worker'[r] \in {"collect", "record"} => worker[r] \in {"collect", "record"},
           status'[r] = "timed_out" \/ worker'[r] \notin EarlyPcs \cup FinalPcs =>
               DeadlineKeepsFinishedAnswers(r),
           worker'[r] \notin EarlyPcs \cup FinalPcs \cup {"quick", "late_answers"} =>
               r \notin QuickRuns
    PROVE  AnswersInv(r)'
<1>1. SlotsOf(r)' = SlotsOf(r)
    BY DEF SlotsOf, AllSlots
<1>2. SlotsBehindCursor(r)'
    BY <1>1 DEF AnswersInv, SlotsBehindCursor
<1>3. LeftAnswers(r)'
    BY <1>1 DEF LeftAnswers, DeadlineKeepsFinishedAnswers
<1> QED
    BY <1>2, <1>3 DEF AnswersInv

\* What the handlers, the pool, the purge and the clocks do to a run's status.
LEMMA OutsideStatus ==
    ASSUME TypeOK, NEW r \in Runs, RunStep(r) \/ Tick, ~WorkerStep(r)
    PROVE  /\ status'[r] \in {status[r], "accepted", "failed", "cancelled", "purged"}
           /\ status'[r] = status[r] => stages'[r] = stages[r] \/ canceller[r] = "stamping"
<1> USE DEF repository, money, pool
<1>1. CASE RequestStep(r)
    <2>1. CASE AbandonRun(r)
        <3>1. CASE MayTransition(r, "failed")
            BY <2>1, <3>1 DEF AbandonRun, Transition, TypeOK
        <3>2. CASE ~MayTransition(r, "failed")
            BY <2>1, <3>2 DEF AbandonRun
        <3> QED
            BY <3>1, <3>2
    <2>2. CASE CreateRun(r)
        <3>1. status'[r] = "accepted" /\ ~IsActive(r)
            BY <2>2 DEF CreateRun, HasActiveRun, TypeOK
        <3> QED
            BY <3>1 DEF IsActive, ActiveStatuses
    <2> QED
        BY <1>1, <2>1, <2>2 DEF RequestStep, TakePermit, RefuseForCapacity, RefuseAtCreate,
            ChargeRun, ChargeRaises, MarkDegraded, StartWorker, ThreadFailsToStart, VoidCharge,
            ReturnPermitUnused
<1>2. CASE UserCancels(r)
    BY <1>2 DEF UserCancels, Transition, TypeOK
<1>3. CASE CancelStampsStage(r)
    BY <1>3 DEF CancelStampsStage, Annotate
<1>4. CASE PurgeRun(r)
    BY <1>4 DEF PurgeRun, TypeOK
<1>5. CASE BudgetExpires(r) \/ Tick \/ \E s \in AllSlots : SlotStarts(r, s) \/ SlotFinishes(r, s)
    BY <1>5 DEF BudgetExpires, Tick, SlotStarts, SlotFinishes
<1>6. CASE JudgeStep(r)
    BY <1>6, JudgeTouches
<1> QED
    BY <1>1, <1>2, <1>3, <1>4, <1>5, <1>6 DEF RunStep

\* Every step of a run keeps its answers in order.
LEMMA AnswersStep ==
    ASSUME RunsInv, NEW r \in Runs, ProgressInv(r), AnswersInv(r), RunStep(r) \/ Tick
    PROVE  AnswersInv(r)'
<1> USE DEF repository, money, pool, pipeline
<1>1. TypeOK
    BY DEF RunsInv
<1>2. /\ SlotsOf(r)' = SlotsOf(r) /\ SlotsOf(r) \subseteq Nat \ {0}
      /\ \A s \in SlotsOf(r), c \in Nat \ {0} : c \notin SlotsOf(r) => s < c \/ c = 0 \/ c < s
    BY RunsAssumption DEF SlotsOf, AllSlots
<1>3. status[r] = "timed_out" => worker[r] \in StampPcs \cup FinalPcs
    BY DEF ProgressInv, EndedByOne
<1>4. {"begin", "collect", "record", "quick", "none"} \cap (StampPcs \cup FinalPcs) = {}
    BY DEF StampPcs, FinalPcs
<1>5. status[r] = "timed_out" => DeadlineKeepsFinishedAnswers(r)
    BY DEF AnswersInv, LeftAnswers
<1>6. cursor[r] \in Nat \ {0}
    BY DEF AnswersInv, SlotsBehindCursor
<1>7. Collected(r) => DeadlineKeepsFinishedAnswers(r)
    <2> SUFFICES ASSUME Collected(r), NEW s \in SlotsOf(r), answers[r][s] = "none"
                 PROVE  tasks[r][s] \in {"raised", "timeout"}
        BY DEF DeadlineKeepsFinishedAnswers
    <2>1. s < cursor[r]
        BY <1>6, RunsAssumption DEF Collected, SlotsOf, AllSlots
    <2> QED
        BY <2>1 DEF Collected, At, AnswersInv, SlotsBehindCursor
<1>8. CASE StartAnswers(r)
    <2>1. /\ worker[r] = "begin" /\ worker'[r] = "collect" /\ cursor'[r] = 1
          /\ status'[r] \in {"initial_answers_running", status[r]}
        BY <1>1, <1>8, PcEnds DEF StartAnswers, At, Goto, UpdateStatus, TypeOK
    <2>2. status'[r] # "timed_out" /\ worker'[r] \in EarlyPcs
        BY <1>3, <1>4, <2>1 DEF EarlyPcs
    <2>3. SlotsBehindCursor(r)'
        BY <1>2, <2>1 DEF SlotsBehindCursor
    <2>4. LeftAnswers(r)'
        BY <2>1, <2>2 DEF LeftAnswers
    <2> QED
        BY <2>3, <2>4 DEF AnswersInv
<1>9. CASE CollectAnswer(r) \/ CutSlotAtDeadline(r)
    <2>1. /\ UNCHANGED <<answers, tasks, cursor, status>> /\ worker[r] = "collect"
          /\ worker'[r] \in {"record", "persist"}
        BY <1>1, <1>9 DEF CollectAnswer, CutSlotAtDeadline, Collecting, At, Goto, TypeOK
    <2> QED
        BY <1>5, <2>1, AnswersKept DEF EarlyPcs, FinalPcs
<1>10. CASE SkipRaisedSlot(r)
    <2>1. /\ UNCHANGED <<answers, tasks, worker, status>> /\ worker[r] = "collect"
          /\ cursor'[r] = cursor[r] + 1 /\ tasks[r][cursor[r]] \in {"raised", "timeout"}
        BY <1>1, <1>10 DEF SkipRaisedSlot, Collecting, At, Awaited, TypeOK
    <2>2. SlotsBehindCursor(r)'
        <3>1. ASSUME NEW s \in SlotsOf(r), s < cursor[r] + 1, answers[r][s] = "none"
              PROVE  tasks[r][s] \in {"raised", "timeout"}
            <4>1. s < cursor[r] \/ s = cursor[r]
                BY <1>2, <1>6, <3>1
            <4> QED
                BY <2>1, <3>1, <4>1 DEF AnswersInv, SlotsBehindCursor
        <3> QED
            BY <1>2, <1>6, <2>1, <3>1 DEF SlotsBehindCursor
    <2>3. LeftAnswers(r)'
        BY <1>2, <1>3, <1>4, <2>1 DEF LeftAnswers, EarlyPcs
    <2> QED
        BY <2>2, <2>3 DEF AnswersInv
<1>11. CASE RecordAnswer(r)
    <2>1. /\ UNCHANGED <<tasks, status>> /\ worker[r] = "record" /\ worker'[r] = "collect"
          /\ cursor'[r] = cursor[r] + 1
        BY <1>1, <1>11 DEF RecordAnswer, At, Goto, TypeOK
    <2>2. /\ cursor[r] \in AllSlots /\ answers'[r][cursor[r]] # "none"
          /\ \A s \in SlotsOf(r) : s # cursor[r] => answers'[r][s] = answers[r][s]
        <3>1. cursor[r] \in SlotsOf(r) /\ (cursor[r] \in cut[r] \/ Awaited(r) \in Answered)
            BY <2>1 DEF RunsInv, AnswerInHand
        <3>2. SlotsOf(r) \subseteq AllSlots
            BY RunsAssumption DEF SlotsOf, AllSlots
        <3>3. answers[r] \in [AllSlots -> {"none", "cut"} \cup Settled]
            BY <1>1 DEF TypeOK
        <3>4. answers'[r] = [answers[r] EXCEPT ![cursor[r]] =
                                IF cursor[r] \in cut[r] THEN "cut" ELSE Awaited(r)]
            BY <1>1, <1>11 DEF RecordAnswer, TypeOK
        <3> QED
            BY <3>1, <3>2, <3>3, <3>4 DEF Answered
    <2>3. SlotsBehindCursor(r)'
        <3>1. ASSUME NEW s \in SlotsOf(r), s < cursor[r] + 1, answers'[r][s] = "none"
              PROVE  tasks[r][s] \in {"raised", "timeout"}
            <4>1. s < cursor[r] /\ answers[r][s] = "none"
                BY <1>2, <1>6, <2>2, <3>1
            <4> QED
                BY <2>1, <3>1, <4>1 DEF AnswersInv, SlotsBehindCursor
        <3> QED
            BY <1>2, <1>6, <2>1, <3>1 DEF SlotsBehindCursor
    <2>4. LeftAnswers(r)'
        BY <1>3, <1>4, <2>1 DEF LeftAnswers, EarlyPcs
    <2> QED
        BY <2>3, <2>4 DEF AnswersInv
<1>12. CASE EndAtDeadline(r)
    <2>1. /\ UNCHANGED <<answers, tasks, cursor>> /\ worker'[r] \in {"late_answers", "persist"}
        BY <1>1, <1>12 DEF EndAtDeadline, DegradeForDeadline, Goto, TypeOK
    <2> QED
        BY <1>7, <1>12, <2>1, AnswersKept DEF EndAtDeadline, EarlyPcs, FinalPcs
<1>13. ASSUME NEW from, NEW st, NEW q, NEW pc, WriteAndGo(r, from, st, q, pc),
              st = "timed_out" => status[r] = "timed_out"
       PROVE  /\ UNCHANGED <<answers, tasks, cursor>>
              /\ worker[r] = from /\ worker'[r] = pc
              /\ status'[r] = "timed_out" => DeadlineKeepsFinishedAnswers(r)
    BY <1>1, <1>5, <1>13, WriteEffect DEF WriteAndGo
<1>14. CASE FailWithoutKey(r) \/ EndWithoutAnswers(r)
    <2>1. ASSUME NEW from, NEW st \in {"failed", "partial"}, NEW q, NEW pc,
                 pc \in {"persist", "skip_downstream"}, WriteAndGo(r, from, st, q, pc)
          PROVE  AnswersInv(r)'
        BY <1>13, <2>1, AnswersKept DEF EarlyPcs, FinalPcs
    <2>2. ASSUME NEW from, NEW st \in {"failed", "partial"}, NEW q,
                 EndAndGo(r, from, st, q, "skip_downstream")
          PROVE  AnswersInv(r)'
        BY <2>1, <2>2 DEF EndAndGo
    <2> QED
        BY <1>14, <2>2 DEF FailWithoutKey, EndWithoutAnswers
<1>15. CASE LeaveAnswers(r)
    BY <1>7, <1>13, <1>15, AnswersKept DEF LeaveAnswers
<1>16. CASE QuickSkipsStages(r)
    <2>1. /\ UNCHANGED <<answers, tasks, cursor>> /\ worker'[r] = "quick"
        BY <1>13, <1>16 DEF QuickSkipsStages
    <2>2. SlotsBehindCursor(r)'
        BY <1>6, <2>1 DEF SlotsBehindCursor
    <2>3. DeadlineKeepsFinishedAnswers(r)' /\ Usable(r)' /\ r \in QuickRuns
        BY <1>2, <1>7, <1>16, <2>1 DEF QuickSkipsStages, DeadlineKeepsFinishedAnswers, Usable
    <2>4. LeftAnswers(r)'
        BY <2>1, <2>3 DEF LeftAnswers
    <2> QED
        BY <2>2, <2>4 DEF AnswersInv
<1>17. CASE QuickCompletes(r)
    BY <1>13, <1>17, AnswersKept DEF QuickCompletes, FinalPcs
<1>18. CASE Debate(r) \/ LeaveDebate(r) \/ Synthesis(r)
    <2>1. DeadlineKeepsFinishedAnswers(r) /\ r \notin QuickRuns
        BY <1>1, <1>18, LaterMoves DEF AnswersInv, LeftAnswers
    <2> QED
        BY <1>1, <1>18, <2>1, LaterMoves, AnswersKept
<1>19. CASE \/ StampEndedRun(r) \/ WorkerRaises(r) \/ WorkerFindsRunGone(r)
            \/ PersistRun(r) \/ ReleasePermit(r)
    <2>1. /\ UNCHANGED <<answers, tasks, cursor>> /\ worker'[r] \in FinalPcs
          /\ status'[r] \in {status[r], "failed"}
        BY <1>1, <1>19 DEF StampEndedRun, Annotate, WorkerRaises, UpdateStatus,
            WorkerFindsRunGone, PersistRun, ReleasePermit, FinalPcs, Goto, TypeOK
    <2> QED
        BY <1>5, <2>1, AnswersKept DEF FinalPcs
<1>20. CASE OutsideStep /\ ~WorkerStep(r)
    <2>1. status'[r] = "timed_out" => status[r] = "timed_out"
        BY <1>1, <1>20, OutsideStatus
    <2>2. UNCHANGED <<answers, tasks, cursor, worker>>
        BY <1>20 DEF OutsideStep, Work
    <2>3. SlotsBehindCursor(r)'
        BY <1>2, <2>2 DEF AnswersInv, SlotsBehindCursor
    <2>4. LeftAnswers(r)'
        BY <1>2, <2>1, <2>2 DEF AnswersInv, LeftAnswers, DeadlineKeepsFinishedAnswers, Usable
    <2> QED
        BY <2>3, <2>4 DEF AnswersInv
<1>21. CASE StartWorker(r)
    <2>1. /\ UNCHANGED <<answers, tasks, cursor, status>> /\ worker'[r] = "begin"
        BY <1>1, <1>21 DEF StartWorker, Goto, TypeOK
    <2> QED
        BY <1>5, <2>1, AnswersKept DEF EarlyPcs, FinalPcs
<1>22. ASSUME NEW s \in AllSlots, SlotStarts(r, s) \/ SlotFinishes(r, s)
       PROVE  AnswersInv(r)'
    <2>1. /\ UNCHANGED <<answers, worker, cursor, status>>
          /\ \A t \in AllSlots : tasks[r][t] \in {"raised", "timeout"} => tasks'[r][t] = tasks[r][t]
        BY <1>1, <1>22 DEF SlotStarts, SlotFinishes, TypeOK
    <2>2. \A t \in SlotsOf(r) : tasks[r][t] \in {"raised", "timeout"} => tasks'[r][t] = tasks[r][t]
        BY <2>1, RunsAssumption DEF SlotsOf, AllSlots
    <2>3. SlotsBehindCursor(r)'
        BY <1>2, <2>1, <2>2 DEF AnswersInv, SlotsBehindCursor
    <2>4. LeftAnswers(r)'
        BY <1>2, <2>1, <2>2 DEF AnswersInv, LeftAnswers, DeadlineKeepsFinishedAnswers, Usable
    <2> QED
        BY <2>3, <2>4 DEF AnswersInv
<1>23. CASE WorkerStep(r)
    BY <1>8, <1>9, <1>10, <1>11, <1>12, <1>14, <1>15, <1>16, <1>17, <1>18, <1>19, <1>23
    DEF WorkerStep
<1> QED
    BY <1>20, <1>21, <1>22, <1>23, OtherStepClasses

-----------------------------------------------------------------------------
(* Completion: it is written over a whole run, and nothing is changed after  *)

\* Behind its pipeline a worker settles the run and gives its permit back.
LEMMA FinalWorker ==
    ASSUME NEW r \in Runs, WorkerStep(r), worker[r] \in FinalPcs
    PROVE  PersistRun(r) \/ ReleasePermit(r)
<1>1. CASE PlainWorkerStep(r)
    BY <1>1 DEF PlainWorkerStep, WorkerIdle, FinalPcs
<1>2. CASE SlotStep(r)
    BY <1>2 DEF SlotStep, StartAnswers, CollectAnswer, SkipRaisedSlot, CutSlotAtDeadline,
        RecordAnswer, Collecting, At, FinalPcs
<1>3. ASSUME NEW b \in BillableStage, BilledStep(r, b)
      PROVE  FALSE
    BY <1>3 DEF BilledStep, EnterStage, MakeCalls, RecordStage, At, OpenStagePcs, BillableStage,
        FinalPcs
<1> QED
    BY <1>1, <1>2, <1>3, WorkerStepClasses

\* Only two steps write that a run is completed.
LEMMA CompletingStep ==
    ASSUME TypeOK, NEW r \in Runs, RunStep(r) \/ Tick,
           status[r] # "completed", status'[r] = "completed"
    PROVE  \/ QuickCompletes(r)
           \/ WriteAndGo(r, "complete", "completed",
                         Mark(stages[r], {"synthesis"}, "completed"), "persist")
<1> USE DEF repository, money, pool
<1>1. WorkerStep(r)
    BY OutsideStatus
<1>2. ASSUME NEW from, NEW st, NEW p, NEW pc, WriteAndGo(r, from, st, p, pc), st # "completed"
      PROVE  FALSE
    BY <1>2, WriteEffect
<1>3. ASSUME NEW from, NEW st, NEW p, NEW pc, EndAndGo(r, from, st, p, pc), st # "completed"
      PROVE  FALSE
    BY <1>2, <1>3 DEF EndAndGo
<1>4. ASSUME NEW late, DegradeForDeadline(r, late)
      PROVE  FALSE
    BY <1>4 DEF DegradeForDeadline, Transition, TypeOK
<1>5. ASSUME NEW from, NEW late, NEW pc, StageGate(r, from, late, pc)
      PROVE  FALSE
    BY <1>4, <1>5 DEF StageGate
<1>6. CASE \/ FailWithoutKey(r) \/ EndWithoutAnswers(r) \/ LeaveAnswers(r) \/ QuickSkipsStages(r)
    BY <1>2, <1>3, <1>6 DEF FailWithoutKey, EndWithoutAnswers, LeaveAnswers, QuickSkipsStages
<1>7. CASE StartAnswers(r)
    BY <1>7 DEF StartAnswers, UpdateStatus, TypeOK
<1>8. CASE \/ CollectAnswer(r) \/ SkipRaisedSlot(r) \/ CutSlotAtDeadline(r) \/ RecordAnswer(r)
           \/ WorkerFindsRunGone(r) \/ PersistRun(r) \/ ReleasePermit(r)
    BY <1>8 DEF CollectAnswer, SkipRaisedSlot, CutSlotAtDeadline, RecordAnswer,
        WorkerFindsRunGone, PersistRun, ReleasePermit
<1>9. CASE EndAtDeadline(r)
    BY <1>4, <1>9 DEF EndAtDeadline
<1>10. CASE StampEndedRun(r) \/ WorkerRaises(r)
    BY <1>10 DEF StampEndedRun, Annotate, WorkerRaises, UpdateStatus, TypeOK
<1>11. ASSUME NEW from, NEW b, NEW pc, NEW pcs,
              \/ EnterStage(r, from, b, pc) \/ RecordStage(r, from, b, pc)
              \/ StageReturns(r, from, b, pc) \/ MakeCalls(r, from, b, pcs)
       PROVE  FALSE
    BY <1>11 DEF EnterStage, RecordStage, StageReturns, MakeCalls
<1>12. CASE Debate(r)
    BY <1>2, <1>5, <1>11, <1>12 DEF Debate, AnnounceStage
<1>13. CASE LeaveDebate(r)
    BY <1>2, <1>3, <1>13 DEF LeaveDebate
<1>14. CASE Synthesis(r)
    BY <1>2, <1>5, <1>11, <1>14 DEF Synthesis, AnnounceStage
<1> QED
    BY <1>1, <1>6, <1>7, <1>8, <1>9, <1>10, <1>12, <1>13, <1>14 DEF WorkerStep

\* Every step of a run keeps a completed run whole.
LEMMA CompletedStep ==
    ASSUME RunsInv, NEW r \in Runs, ProgressInv(r), CapturesInOrder(r), AnswersInv(r),
           CompletedIsWhole(r), RunStep(r) \/ Tick
    PROVE  CompletedIsWhole(r)'
<1> USE DEF repository, money, pool, pipeline
<1>1. TypeOK /\ stages[r] \in [Stages -> StageState]
    BY DEF RunsInv, TypeOK
<1>2. SlotsOf(r)' = SlotsOf(r)
    BY DEF SlotsOf, AllSlots
<1> SUFFICES ASSUME status'[r] = "completed"
             PROVE  CompletedRunIsWhole(r)'
    BY DEF CompletedIsWhole
<1>3. CASE status[r] = "completed"
    <2>1. worker[r] \in FinalPcs /\ canceller[r] # "stamping"
        BY <1>3 DEF ProgressInv, EndedByOne, Present, QueryRunStatus, TERMINAL_STATUSES
    <2>2. stages'[r] = stages[r] /\ answers'[r] = answers[r] /\ billing'[r] = billing[r]
        <3>1. CASE WorkerStep(r)
            BY <2>1, <3>1, FinalWorker DEF PersistRun, ReleasePermit
        <3>2. CASE ~WorkerStep(r)
            <4>1. stages'[r] = stages[r]
                BY <1>1, <1>3, <2>1, <3>2, OutsideStatus
            <4>2. UNCHANGED <<answers, billing>>
                BY <3>2, OtherStepClasses DEF OutsideStep, Work, StartWorker, SlotStarts,
                    SlotFinishes
            <4> QED
                BY <4>1, <4>2
        <3> QED
            BY <3>1, <3>2
    <2>3. CompletedRunIsWhole(r)
        BY <1>3 DEF CompletedIsWhole
    <2> QED
        BY <1>2, <2>2, <2>3 DEF CompletedRunIsWhole, Usable
<1>4. CASE status[r] # "completed"
    <2>1. CASE QuickCompletes(r)
        <3>1. /\ worker[r] = "quick" /\ IsActive(r)
              /\ stages'[r] = Mark(stages[r], {"initial_answers"}, "completed")
              /\ UNCHANGED answers
            BY <1>1, <1>4, <2>1, WriteEffect DEF QuickCompletes, WriteAndGo
        <3>2. Shows(stages[r], "running", "skipped", "skipped", "skipped")
            BY <3>1 DEF ProgressInv, ProgressFollowsWorker, InPlace
        <3>3. r \in QuickRuns /\ Usable(r)
            BY <3>1 DEF AnswersInv, LeftAnswers
        <3>4. Usable(r)'
            BY <1>2, <3>1, <3>3 DEF Usable
        <3>5. stages'[r] = Mark(Mark(InitialProgress, {"initial_answers"}, "completed"),
                                Downstream, "skipped")
            BY <3>1, <3>2 DEF Shows, Mark, InitialProgress, Stages, Downstream
        <3> QED
            BY <3>3, <3>4, <3>5 DEF CompletedRunIsWhole
    <2>2. CASE WriteAndGo(r, "complete", "completed",
                          Mark(stages[r], {"synthesis"}, "completed"), "persist")
        <3>1. /\ worker[r] = "complete" /\ IsActive(r)
              /\ stages'[r] = Mark(stages[r], {"synthesis"}, "completed")
              /\ UNCHANGED billing
            BY <1>1, <1>4, <2>2, WriteEffect DEF WriteAndGo
        <3>2. Shows(stages[r], "completed", "completed", "completed", "running")
            BY <3>1 DEF ProgressInv, ProgressFollowsWorker, InPlace, SynthesisPcs
        <3>3. r \notin QuickRuns
            BY <3>1 DEF AnswersInv, LeftAnswers, EarlyPcs, FinalPcs
        <3>4. \A b \in BillableStage : billing[r][b] = "recorded"
            BY <3>1 DEF CapturesInOrder, BillableStage
        <3>5. stages'[r] = [s \in Stages |-> "completed"]
            BY <3>1, <3>2 DEF Shows, Mark, Stages, Downstream
        <3> QED
            BY <3>1, <3>3, <3>4, <3>5 DEF CompletedRunIsWhole
    <2> QED
        BY <1>1, <1>4, <2>1, <2>2, CompletingStep
<1> QED
    BY <1>3, <1>4

-----------------------------------------------------------------------------
(* The theorems                                                              *)

LEMMA StageInit == Init => StageInv
<1> SUFFICES ASSUME Init, NEW r \in Runs
             PROVE  /\ ProgressInv(r) /\ CapturesInOrder(r) /\ AnswersInv(r)
                    /\ CompletedIsWhole(r)
    BY DEF StageInv
<1>1. /\ status[r] = "absent" /\ worker[r] = "none" /\ canceller[r] = "idle"
      /\ timedOut[r] = FALSE /\ cursor[r] = 1 /\ stages[r] = InitialProgress
      /\ \A b \in BillableStage : billing[r][b] = "not_entered"
    BY DEF Init
<1>2. ~IsActive(r) /\ ~IsTerminal(r) /\ ~Present(r)
    BY <1>1, OneKind DEF IsActive, IsTerminal, ActiveStatuses, TERMINAL_STATUSES
<1>3. AtRest(stages[r])
    BY <1>1 DEF AtRest, InitialProgress
<1>4. ProgressInv(r)
    BY <1>1, <1>2, <1>3 DEF ProgressInv, ProgressFollowsWorker, RoundSkipped, EndedByOne,
        SpinnersEnd, OneAtMost, AtRest
<1>5. CapturesInOrder(r)
    BY <1>1 DEF CapturesInOrder, BetweenPcs, OpenStagePcs, BillableStage
<1>6. AnswersInv(r)
    BY <1>1 DEF AnswersInv, SlotsBehindCursor, LeftAnswers, EarlyPcs
<1>7. CompletedIsWhole(r)
    BY <1>1 DEF CompletedIsWhole
<1> QED
    BY <1>4, <1>5, <1>6, <1>7

LEMMA StageStep == RunsInv /\ StageInv /\ [Next]_vars => StageInv'
<1> SUFFICES ASSUME RunsInv, StageInv, [Next]_vars, NEW q \in Runs
             PROVE  /\ ProgressInv(q)' /\ CapturesInOrder(q)' /\ AnswersInv(q)'
                    /\ CompletedIsWhole(q)'
    BY DEF StageInv
<1>1. /\ TypeOK /\ ProgressInv(q) /\ CapturesInOrder(q) /\ AnswersInv(q)
      /\ CompletedIsWhole(q)
    BY DEF RunsInv, StageInv
<1>2. CASE Row(q)' = Row(q)
    BY <1>1, <1>2, RowDecides
<1>3. CASE RunStep(q) \/ Tick
    BY <1>1, <1>3, ProgressStep, CapturesStep, AnswersStep, CompletedStep
<1>4. ASSUME NEW r \in Runs, r # q, RunStep(r)
      PROVE  Row(q)' = Row(q)
    BY <1>1, <1>4, StepOwnRow
<1>5. CASE UNCHANGED vars
    BY <1>2, <1>5 DEF Row, vars, repository, pool, pipeline
<1> QED
    BY <1>2, <1>3, <1>4, <1>5 DEF Next

\* What each run shows of its stages, captures and answers fits where its worker is.
THEOREM StageInvariant == Spec => []StageInv
BY RunsInvariant, StageInit, StageStep, PTL DEF Spec

\* StagesTakeTurns: whoever ends a run and when, one stage at most is in progress, none
\* once the stamps are made, and synthesis waits for the debate's record.
THEOREM StagesInTurn == Spec => []StagesTakeTurns
<1>1. StageInv => StagesTakeTurns
    BY DEF StageInv, StagesTakeTurns, ProgressInv, SpinnersEnd, OneAtMost, AtRest,
        CapturesInOrder
<1> QED
    BY <1>1, StageInvariant, PTL

\* FinishedRunKeepsItsPromise: a completed run is whole, and a run ended at its deadline
\* serves every answer that was ready, whatever raced the last step.
THEOREM PromisesKept == Spec => []FinishedRunKeepsItsPromise
<1>1. StageInv => FinishedRunKeepsItsPromise
    BY DEF StageInv, FinishedRunKeepsItsPromise, CompletedIsWhole, AnswersInv, LeftAnswers
<1> QED
    BY <1>1, StageInvariant, PTL

-----------------------------------------------------------------------------
(* Every change of what is served is stamped                                 *)

\* A step of a run stamps it, purges it or leaves what is served of it.
Stamped(r) ==
    \/ updatedAt'[r] = clock \/ status'[r] = "purged"
    \/ UNCHANGED <<status[r], stages[r], answers[r], recorded[r]>>

LEMMA StepStamps ==
    ASSUME TypeOK, NEW r \in Runs, RunStep(r) \/ Tick
    PROVE  Stamped(r)
<1> USE DEF repository, money, pool, pipeline, Stamped
<1>1. ASSUME NEW st, NEW p,
             \/ UpdateStatus(r, st, p) \/ Transition(r, st) \/ Annotate(r, p)
             \/ UNCHANGED <<status, stages, updatedAt>>,
             UNCHANGED <<answers, recorded>>
      PROVE  Stamped(r)
    BY <1>1 DEF UpdateStatus, Transition, Annotate, TypeOK
<1>2. ASSUME NEW from, NEW st, NEW p, NEW pc, WriteAndGo(r, from, st, p, pc)
      PROVE  Stamped(r)
    BY <1>1, <1>2 DEF WriteAndGo
<1>3. ASSUME NEW from, NEW st, NEW p, NEW pc, EndAndGo(r, from, st, p, pc)
      PROVE  Stamped(r)
    BY <1>2, <1>3 DEF EndAndGo
<1>4. ASSUME NEW late, DegradeForDeadline(r, late), UNCHANGED <<answers, recorded>>
      PROVE  Stamped(r)
    <2>1. Transition(r, "timed_out") \/ UNCHANGED <<status, stages, updatedAt>>
        BY <1>4 DEF DegradeForDeadline
    <2> QED
        BY <1>1, <1>4, <2>1
<1>5. ASSUME NEW from, NEW late, NEW pc, StageGate(r, from, late, pc)
      PROVE  Stamped(r)
    BY <1>4, <1>5 DEF StageGate
<1>6. ASSUME NEW from, NEW b, NEW pc, NEW pcs,
             \/ EnterStage(r, from, b, pc) \/ RecordStage(r, from, b, pc)
             \/ StageReturns(r, from, b, pc) \/ MakeCalls(r, from, b, pcs)
      PROVE  Stamped(r)
    BY <1>6 DEF EnterStage, RecordStage, StageReturns, MakeCalls, TypeOK
<1>7. CASE WorkerStep(r)
    <2>1. CASE \/ FailWithoutKey(r) \/ EndWithoutAnswers(r) \/ LeaveAnswers(r)
               \/ QuickSkipsStages(r) \/ QuickCompletes(r)
        BY <1>2, <1>3, <2>1 DEF FailWithoutKey, EndWithoutAnswers, LeaveAnswers,
            QuickSkipsStages, QuickCompletes
    <2>2. CASE StartAnswers(r)
        BY <1>1, <2>2 DEF StartAnswers
    <2>3. CASE \/ CollectAnswer(r) \/ SkipRaisedSlot(r) \/ CutSlotAtDeadline(r)
               \/ WorkerFindsRunGone(r) \/ PersistRun(r) \/ ReleasePermit(r)
        BY <2>3 DEF CollectAnswer, SkipRaisedSlot, CutSlotAtDeadline, WorkerFindsRunGone,
            PersistRun, ReleasePermit
    <2>4. CASE RecordAnswer(r)
        BY <2>4 DEF RecordAnswer, TypeOK
    <2>5. CASE EndAtDeadline(r)
        BY <1>4, <2>5 DEF EndAtDeadline
    <2>6. CASE StampEndedRun(r) \/ WorkerRaises(r)
        BY <1>1, <2>6 DEF StampEndedRun, WorkerRaises
    <2>7. CASE Debate(r)
        BY <1>2, <1>5, <1>6, <2>7 DEF Debate, AnnounceStage
    <2>8. CASE LeaveDebate(r)
        BY <1>2, <1>3, <2>8 DEF LeaveDebate
    <2>9. CASE Synthesis(r)
        BY <1>2, <1>5, <1>6, <2>9 DEF Synthesis, AnnounceStage
    <2> QED
        BY <1>7, <2>1, <2>2, <2>3, <2>4, <2>5, <2>6, <2>7, <2>8, <2>9 DEF WorkerStep
<1>8. CASE RequestStep(r)
    <2>1. CASE CreateRun(r)
        BY <2>1 DEF CreateRun, TypeOK
    <2>2. CASE AbandonRun(r)
        BY <1>1, <2>2 DEF AbandonRun
    <2> QED
        BY <1>8, <2>1, <2>2 DEF RequestStep, TakePermit, RefuseForCapacity, RefuseAtCreate,
            ChargeRun, ChargeRaises, MarkDegraded, StartWorker, ThreadFailsToStart, VoidCharge,
            ReturnPermitUnused
<1>9. CASE UserCancels(r) \/ CancelStampsStage(r)
    BY <1>1, <1>9 DEF UserCancels, CancelStampsStage
<1>10. CASE PurgeRun(r)
    BY <1>10 DEF PurgeRun, TypeOK
<1>11. CASE BudgetExpires(r) \/ Tick \/ \E s \in AllSlots : SlotStarts(r, s) \/ SlotFinishes(r, s)
    BY <1>11 DEF BudgetExpires, Tick, SlotStarts, SlotFinishes
<1>12. CASE JudgeStep(r)
    BY <1>12, JudgeTouches
<1> QED
    BY <1>7, <1>8, <1>9, <1>10, <1>11, <1>12 DEF RunStep

\* EveryChangeIsStamped: no write of any thread changes what a run serves and leaves its
\* updated_at, the key of the evaluation memo, as it was.
THEOREM ChangesAreStamped == Spec => EveryChangeIsStamped
<1>1. ASSUME TypeOK, [Next]_vars, NEW q \in Runs
      PROVE  Stamped(q)
    <2>1. CASE RunStep(q) \/ Tick
        BY <1>1, <2>1, StepStamps
    <2>2. ASSUME NEW r \in Runs, r # q, RunStep(r)
          PROVE  Stamped(q)
        BY <1>1, <2>2, StepOwnRow DEF Row, Stamped
    <2>3. CASE UNCHANGED vars
        BY <2>3 DEF Stamped, vars, repository
    <2> QED
        BY <1>1, <2>1, <2>2, <2>3 DEF Next
<1>2. TypeOK /\ [Next]_vars => [\A r \in Runs :
                                    \/ updatedAt'[r] = clock
                                    \/ status'[r] = "purged"
                                    \/ UNCHANGED <<status[r], stages[r], answers[r], recorded[r]>>]_vars
    BY <1>1 DEF Stamped
<1> QED
    BY <1>2, TypeCorrect, PTL DEF Spec, EveryChangeIsStamped
=============================================================================
