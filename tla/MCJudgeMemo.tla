---------------------------- MODULE MCJudgeMemo ----------------------------
(***************************************************************************)
(* Three small instances of the paid judge over the same variables.        *)
(* "sharing": two readers of two runs, with room for one verdict.          *)
(* "alone": one reader of three runs, with room for two in each memo,      *)
(* whose evaluations never raise.  "rows": a worker that persists a panel  *)
(* run and a quick run, or one of them twice, beside a thread that polls   *)
(* them, with room for one verdict and one evaluation.                     *)
(***************************************************************************)
EXTENDS JudgeMemo

CONSTANTS p1, p2, a, b, c

VARIABLES part, rows, persist, persisted

Alone == INSTANCE JudgeMemo WITH
            Runs <- {a, b, c}, Judged <- {a, b, c}, VerdictMax <- 2, EvaluationMax <- 2,
            MayRaise <- FALSE

TheFacts == [k \in {a, b} |-> [status |-> IF k = a THEN "PARTIAL" ELSE "COMPLETED",
                               degraded |-> FALSE, live |-> TRUE, quick |-> k = b]]

Rows == INSTANCE EvaluationRows WITH
            VerdictMax <- 1, EvaluationMax <- 1, MaxRevision <- 0, Facts <- TheFacts,
            Workers <- {p1}, MaxPersists <- 2

PartsInit ==
    \/ /\ part = "sharing" /\ Init
       /\ rows = 0 /\ persist = 0 /\ persisted = 0
    \/ /\ part = "alone" /\ Alone!Init
       /\ rows = 0 /\ persist = 0 /\ persisted = 0
    \/ part = "rows" /\ Rows!RowsInit

SharingPart == part = "sharing" /\ Next /\ UNCHANGED <<part, rows, persist, persisted>>
AlonePart ==
    /\ part = "alone"
    /\ \/ Alone!Evaluate(p1)
       \/ \E k \in {a, b, c} : Alone!Read(p1, k) \/ Alone!RunMoves(k)
       \/ Alone!RailsMove
    /\ UNCHANGED <<part, rows, persist, persisted>>
RowsPart == part = "rows" /\ Rows!RowsNext /\ UNCHANGED part

PartsSpec ==
    /\ PartsInit
    /\ [][SharingPart \/ AlonePart \/ RowsPart]_<<part, vars, rows, persist, persisted>>
    /\ WF_vars(part = "alone" /\ Alone!Evaluate(p1))
    /\ \A k \in {a, b, c} : SF_vars(part = "alone" /\ Alone!Read(p1, k))

(* JudgeMemo.StoredVerdictIsTheOnePaid, and EvaluationKeepsVerdict where no    *)
(* two readers overlap: what was paid for is what is stored and kept; and      *)
(* EvaluationRows.RowTellsWhatWasBought and RowOnlyGains: the run's row says   *)
(* what was bought, and goes on saying it.                                     *)
VerdictIsKept ==
    /\ StoredVerdictIsTheOnePaid
    /\ part = "alone" => Alone!EvaluationKeepsVerdict
    /\ part = "rows" => Rows!RowTellsWhatWasBought
RowIsKept == part = "rows" => Rows!RowOnlyGains
PaidVerdictIsKept == [][VerdictIsKept' /\ RowIsKept]_<<part, vars, rows, persist, persisted>>

(* JudgeMemo.VerdictArrives.                                                   *)
LoneReaderGetsItsVerdicts == part = "alone" => Alone!VerdictArrives
=============================================================================
