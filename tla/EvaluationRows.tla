-------------------------- MODULE EvaluationRows --------------------------
(***************************************************************************)
(* What the durable row of a terminal run says of its evaluation           *)
(* (run_history_store.py, _persist_terminal_run and                        *)
(* _persist_run_evaluation of query_run_orchestration.py).                 *)
(*                                                                         *)
(* The worker that persists a run evaluates it twice, once for the figures *)
(* it serves and once for the row, beside the polls of JudgeMemo; between  *)
(* the two the memos may forget, the rails may close and the run may move. *)
(* Every write of the store is best effort.  The docstring promises that a *)
(* second persist of the run is harmless, so there may be one.             *)
(***************************************************************************)
EXTENDS Integers, Sequences, FiniteSets

CONSTANTS
    Readers, Runs, VerdictMax, EvaluationMax, Nobody, NoRun, MaxRevision,
    Facts,          \* of every run: its terminal status, whether it was degraded not to
                    \* spend, whether a model answered, whether it is a quick run
    Workers,        \* the readers that persist: a run's worker, or the request that ran it
    MaxPersists     \* bound: persists of all runs

VARIABLES
    verdicts, inflight, evaluations, revision, railsOpen, paid,
    pc, target, key, sharing, owner, answer, allowed,
    rows,           \* of every run: its row's [held, eval, trust]
    persist,        \* of every thread: what it persists, [phase, run, kind]
    persisted       \* persists begun

\* _request_path_judge: the run settled, was allowed to spend, and a model answered.
RequestPathJudge(fact) ==
    /\ fact.status \notin {"CANCELLED", "BLOCKED_BY_COST"}
    /\ ~fact.degraded
    /\ fact.live

JudgedRuns == {k \in Runs : RequestPathJudge(Facts[k])}

Judge == INSTANCE JudgeMemo WITH Judged <- JudgedRuns, MayRaise <- TRUE

judgeVars == <<verdicts, inflight, evaluations, revision, railsOpen, paid,
               pc, target, key, sharing, owner, answer, allowed>>
rowVars == <<rows, persist, persisted>>

Resting == [phase |-> "no", run |-> NoRun, kind |-> "none"]
Phase(p, phase) == persist' = [persist EXCEPT ![p].phase = phase]
-----------------------------------------------------------------------------
(* The statements of RunHistoryStore.                                       *)

\* Mutant: the row is replaced, its evaluation with it.
ReplaceRow(k) == [rows EXCEPT ![k] = [held |-> TRUE, eval |-> "none", trust |-> "none"]]

\* record_terminal_run: on a conflict the metric columns only.
UpsertRow(k) == [rows EXCEPT ![k].held = TRUE]

\* update_evaluation: both columns, of a row that is there.
UpdateEvaluation(k, kind) ==
    IF rows[k].held THEN [rows EXCEPT ![k].eval = kind, ![k].trust = kind] ELSE rows

\* Mutant: the layer A of a refused evaluation goes over whatever is there.
FillAnyway(k, kind) == IF rows[k].held THEN [rows EXCEPT ![k].eval = kind] ELSE rows

\* fill_layer_a_evaluation_if_absent: never the trust column.
FillIfAbsent(k, kind) ==
    IF rows[k].held /\ rows[k].eval = "none" THEN [rows EXCEPT ![k].eval = kind] ELSE rows

\* The store's wrappers: no store, or a statement that fails, loses the write.
BestEffort(written) == rows' \in {rows, written}
-----------------------------------------------------------------------------
(* _persist_terminal_run                                                    *)

\* The response the row is built from evaluates the run.
Persist(p, k) ==
    /\ persist[p] = Resting /\ persisted < MaxPersists
    /\ Judge!Read(p, k)
    /\ persist' = [persist EXCEPT ![p] = [phase |-> "projecting", run |-> k, kind |-> "none"]]
    /\ persisted' = persisted + 1
    /\ UNCHANGED rows

\* The metrics row; a quick run keeps no evaluation.
RecordRow(p) ==
    LET k == persist[p].run IN
    /\ persist[p].phase = "recording"
    /\ BestEffort(UpsertRow(k))
    /\ IF Facts[k].quick THEN persist' = [persist EXCEPT ![p] = Resting] ELSE Phase(p, "recorded")
    /\ UNCHANGED <<judgeVars, persisted>>

\* _persist_run_evaluation evaluates the run again.
Rate(p) ==
    /\ persist[p].phase = "recorded"
    /\ Judge!Read(p, persist[p].run)
    /\ Phase(p, "rating")
    /\ UNCHANGED <<rows, persisted>>

\* Mutant: a refused evaluation is written like one that was not.
AttachAnyKind(p) ==
    LET k == persist[p].run IN
    /\ persist[p].phase = "attaching"
    /\ BestEffort(UpdateEvaluation(k, persist[p].kind))
    /\ persist' = [persist EXCEPT ![p] = Resting]
    /\ UNCHANGED <<judgeVars, persisted>>

\* A refused evaluation carries no verdict of the run: only its layer A is written.
Attach(p) ==
    LET k == persist[p].run
        kind == persist[p].kind
    IN  /\ persist[p].phase = "attaching"
        /\ BestEffort(IF kind = "suppressed" THEN FillIfAbsent(k, kind)
                      ELSE UpdateEvaluation(k, kind))
        /\ persist' = [persist EXCEPT ![p] = Resting]
        /\ UNCHANGED <<judgeVars, persisted>>
-----------------------------------------------------------------------------
(* The evaluations, as a poll or a persist runs them.                       *)

\* An evaluation that raises costs the response its projection, and the row its evaluation.
Returned(p, kind) ==
    persist' = [persist EXCEPT ![p] =
        CASE @.phase = "projecting" -> [@ EXCEPT !.phase = "recording"]
          [] @.phase = "rating" /\ kind # "raised" -> [@ EXCEPT !.phase = "attaching", !.kind = kind]
          [] OTHER -> Resting]

Evaluate(p) ==
    /\ \/ (Judge!TouchVerdict(p) \/ Judge!Store(p)) /\ Returned(p, answer[p])
       \/ Judge!EvaluationRaises(p) /\ Returned(p, "raised")
       \/ /\ \/ Judge!MissEvaluation(p) \/ Judge!HitEvaluation(p) \/ Judge!Ask(p)
             \/ Judge!CheckRails(p) \/ Judge!Claim(p) \/ Judge!Dispatch(p) \/ Judge!Settle(p)
             \/ Judge!Publish(p) \/ Judge!WaitTimesOut(p)
          /\ UNCHANGED persist
    /\ UNCHANGED <<rows, persisted>>

RowsInit ==
    /\ Judge!Init
    /\ rows = [k \in Runs |-> [held |-> FALSE, eval |-> "none", trust |-> "none"]]
    /\ persist = [p \in Readers |-> Resting]
    /\ persisted = 0

RowsNext ==
    \/ \E p \in Workers : RecordRow(p) \/ Rate(p) \/ Attach(p) \/ \E k \in Runs : Persist(p, k)
    \/ \E p \in Readers : Evaluate(p)
    \/ \E p \in Readers \ Workers, k \in Runs : Judge!Read(p, k) /\ UNCHANGED rowVars
    \/ (\E k \in Runs : Judge!RunMoves(k)) /\ UNCHANGED rowVars
    \/ Judge!RailsMove /\ UNCHANGED rowVars

RowsSpec == RowsInit /\ [][RowsNext]_<<judgeVars, rowVars>>
-----------------------------------------------------------------------------
(* Properties.                                                              *)

\* The two columns of a row never contradict each other; a judged run's trust column is a
\* verdict that was bought, the one the memo holds while it was bought once; and a run that
\* was never judged for was never paid for.
RowTellsWhatWasBought ==
    \A k \in Runs :
        LET row == rows[k] IN
        /\ row.trust # "none" =>
            /\ row.held /\ row.trust = row.eval
            /\ k \in JudgedRuns => row.trust \in Judge!Verdict /\ paid[k] > 0
            /\ paid[k] = 1 /\ Judge!Holds(verdicts, k) =>
                    verdicts[Judge!HeldVerdict(k)].verdict = row.trust
        /\ row.trust = "none" => row.eval \in {"none", "suppressed"}
        /\ k \notin JudgedRuns => paid[k] = 0

\* A verdict on the row stays a verdict, and an evaluation stays an evaluation, whatever
\* a second persist finds and whichever of its writes is lost.
RowOnlyGains ==
    \A k \in Runs : /\ rows[k].trust # "none" => rows'[k].trust # "none"
                    /\ rows[k].eval # "none" => rows'[k].eval # "none"
RowKeepsItsVerdict == [][RowOnlyGains]_<<judgeVars, rowVars>>
=============================================================================
