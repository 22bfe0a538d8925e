----------------------------- MODULE JudgeMemo -----------------------------
(***************************************************************************)
(* The paid judge of a finished run on the request path, and the two LRU   *)
(* memos in front of it (query_run_orchestration.py).                      *)
(*                                                                         *)
(* The worker that persists a run and every poll of its result evaluate    *)
(* the run concurrently.  A reader first looks for the evaluation of this  *)
(* revision of the run, then for the run's verdict; failing both it rides  *)
(* on a call somebody else is paying for, or, if the money rails allow,    *)
(* claims the run and pays.  A reader that got no verdict for a reason of  *)
(* the moment serves a suppressed evaluation and does not store it.        *)
(***************************************************************************)
EXTENDS Integers, FiniteSets, Sequences, SequencesExt

CONSTANTS
    Readers,        \* threads evaluating a run: pollers and the worker's persist
    Runs,           \* terminal runs
    Judged,         \* the runs _request_path_judge builds a judge for
    VerdictMax,     \* _JUDGE_VERDICT_MEMO_MAX
    EvaluationMax,  \* _EVALUATION_MEMO_MAX
    Nobody, NoRun,
    MaxRevision,    \* bound: late writes to a terminal run
    MayRaise        \* whether evaluate_run may raise after the verdict is stored

ASSUME NamesAssumption == Nobody \notin Readers /\ NoRun \notin Runs /\ Judged \subseteq Runs
ASSUME BoundsAssumption == VerdictMax \in Nat \ {0} /\ EvaluationMax \in Nat \ {0}

VARIABLES
    verdicts,       \* _judge_verdict_memo, coldest first: records [run, verdict]
    inflight,       \* _judge_inflight: who owns the Future of a run
    evaluations,    \* _evaluation_memo, coldest first: records [run, revision, kind]
    revision,       \* QueryRun.updated_at of each run
    railsOpen,      \* what _judge_money_rails_allow_dispatch would answer
    paid,           \* calls of the judge made for a run: none, one, or more (2)
    \* the readers: program counter and locals
    pc, target, key, sharing, owner, answer, allowed

memos == <<verdicts, inflight, evaluations>>
world == <<revision, railsOpen, paid>>
locals == <<target, key, sharing, owner, answer, allowed>>
vars == <<memos, world, pc, locals>>

Verdict == {"verified", "failed"}       \* "failed": the call gave no verdict
Kind == Verdict \cup {"suppressed", "layerA"}

------------------------------------------------------------------------------
(* The two OrderedDicts.                                                   *)

Holds(memo, k) == \E i \in DOMAIN memo : memo[i].run = k

HeldVerdict(k) == (CHOOSE i \in DOMAIN verdicts : verdicts[i].run = k)

\* move_to_end
Touched(k) ==
    LET i == HeldVerdict(k)
    IN IF Holds(verdicts, k) THEN Append(RemoveAt(verdicts, i), verdicts[i]) ELSE verdicts

\* Keep the newest n entries.
Trimmed(memo, n) == IF Len(memo) > n THEN SubSeq(memo, Len(memo) - n + 1, Len(memo)) ELSE memo

\* The verdict of k is stored under the same key, which keeps its place.
StoredVerdict(k, v) ==
    IF Holds(verdicts, k)
    THEN [verdicts EXCEPT ![HeldVerdict(k)].verdict = v]
    ELSE Trimmed(Append(verdicts, [run |-> k, verdict |-> v]), VerdictMax)

IsKey(e, k, rev) == e.run = k /\ e.revision = rev

Evaluated(k, rev) == \E i \in DOMAIN evaluations : IsKey(evaluations[i], k, rev)

\* _evaluation_memo_store, or the move_to_end of a hit.
StoredEvaluation(k, rev, kind) ==
    Trimmed(Append(SelectSeq(evaluations, LAMBDA e : ~IsKey(e, k, rev)),
                   [run |-> k, revision |-> rev, kind |-> kind]), EvaluationMax)

------------------------------------------------------------------------------
Init ==
    /\ verdicts = <<>> /\ evaluations = <<>>
    /\ inflight = [k \in Runs |-> Nobody]
    /\ revision = [k \in Runs |-> 0]
    /\ railsOpen \in BOOLEAN
    /\ paid = [k \in Runs |-> 0]
    /\ pc = [p \in Readers |-> "idle"]
    /\ target = [p \in Readers |-> NoRun]
    /\ key = [p \in Readers |-> 0]
    /\ sharing = [p \in Readers |-> FALSE]
    /\ owner = [p \in Readers |-> Nobody]
    /\ answer = [p \in Readers |-> "layerA"]
    /\ allowed = [p \in Readers |-> FALSE]

Goto(p, label) == pc' = [pc EXCEPT ![p] = label]
\* The read returns and its locals are gone.
Return(p) ==
    /\ Goto(p, "idle")
    /\ target' = [target EXCEPT ![p] = NoRun]
    /\ key' = [key EXCEPT ![p] = 0]
    /\ sharing' = [sharing EXCEPT ![p] = FALSE]
    /\ owner' = [owner EXCEPT ![p] = Nobody]
    /\ answer' = [answer EXCEPT ![p] = "layerA"]
    /\ allowed' = [allowed EXCEPT ![p] = FALSE]

Answer(p, a) == answer' = [answer EXCEPT ![p] = a]

\* A read takes a snapshot of the run; its key is the revision of that snapshot.
Read(p, k) ==
    /\ pc[p] = "idle"
    /\ target' = [target EXCEPT ![p] = k]
    /\ key' = [key EXCEPT ![p] = revision[k]]
    /\ Goto(p, "lookup")
    /\ UNCHANGED <<memos, world, sharing, owner, answer, allowed>>

\* _evaluate_terminal_run_with_suppression, the memo of evaluations.
MissEvaluation(p) ==
    /\ pc[p] = "lookup"
    /\ ~Evaluated(target[p], key[p])
    /\ IF target[p] \in Judged
       THEN Goto(p, "asking") /\ UNCHANGED answer
       ELSE Goto(p, "storing") /\ Answer(p, "layerA")
    /\ UNCHANGED <<memos, world, target, key, sharing, owner, allowed>>

HitEvaluation(p) ==
    /\ pc[p] = "lookup"
    /\ Evaluated(target[p], key[p])
    /\ LET i == CHOOSE j \in DOMAIN evaluations : IsKey(evaluations[j], target[p], key[p])
       IN /\ Answer(p, evaluations[i].kind)
          /\ evaluations' = StoredEvaluation(target[p], key[p], evaluations[i].kind)
    /\ Goto(p, "touching")
    /\ UNCHANGED <<verdicts, inflight, world, target, key, sharing, owner, allowed>>

\* Mutant: a served evaluation leaves the run's verdict to go cold.
SkipTouch(p) ==
    /\ pc[p] = "touching"
    /\ Return(p)
    /\ UNCHANGED <<memos, world>>

\* _judge_memo_touch, after the evaluation lock was released.
TouchVerdict(p) ==
    /\ pc[p] = "touching"
    /\ verdicts' = Touched(target[p])
    /\ Return(p)
    /\ UNCHANGED <<inflight, evaluations, world>>

------------------------------------------------------------------------------
(* _memoised_verdict                                                       *)

\* A verdict somebody paid for is served free.
UseVerdict(p) ==
    /\ Answer(p, verdicts[HeldVerdict(target[p])].verdict)
    /\ verdicts' = Touched(target[p])
    /\ Goto(p, "storing")
    /\ UNCHANGED <<inflight, evaluations, world, target, key, sharing, owner, allowed>>

Suppress(p) ==
    /\ Answer(p, "suppressed")
    /\ Goto(p, "storing")

\* The first look under the lock.
Ask(p) ==
    /\ pc[p] = "asking"
    /\ IF Holds(verdicts, target[p]) THEN UseVerdict(p)
       ELSE /\ sharing' = [sharing EXCEPT ![p] = inflight[target[p]] # Nobody]
            /\ allowed' = [allowed EXCEPT ![p] = FALSE]
            /\ Goto(p, IF inflight[target[p]] # Nobody THEN "claiming" ELSE "paying?")
            /\ UNCHANGED <<memos, world, target, key, owner, answer>>

\* The money rails, outside the lock; they say no without a metered ledger.
CheckRails(p) ==
    /\ pc[p] = "paying?"
    /\ IF railsOpen
       THEN Goto(p, "claiming") /\ allowed' = [allowed EXCEPT ![p] = TRUE] /\ UNCHANGED answer
       ELSE Suppress(p) /\ UNCHANGED allowed
    /\ UNCHANGED <<memos, world, target, key, sharing, owner>>

\* Mutant: a reader takes the claim of another one over.
ClaimNeverJoin(p, k) ==
    /\ inflight' = [inflight EXCEPT ![k] = p]
    /\ owner' = [owner EXCEPT ![p] = p]
    /\ Goto(p, "calling")
    /\ UNCHANGED <<verdicts, evaluations, world, target, key, sharing, answer, allowed>>

\* Claim the run, or wait for whoever claimed it.
ClaimOrJoin(p, k) ==
    /\ IF inflight[k] = Nobody
       THEN /\ inflight' = [inflight EXCEPT ![k] = p]
            /\ owner' = [owner EXCEPT ![p] = p]
            /\ Goto(p, "calling")
       ELSE /\ owner' = [owner EXCEPT ![p] = inflight[k]]
            /\ Goto(p, "waiting")
            /\ UNCHANGED inflight
    /\ UNCHANGED <<verdicts, evaluations, world, target, key, sharing, answer, allowed>>

\* Mutant: the second look does not ask the memo again.
ClaimUnchecked(p) ==
    /\ pc[p] = "claiming"
    /\ IF sharing[p] /\ inflight[target[p]] = Nobody
       THEN Suppress(p) /\ UNCHANGED <<memos, world, target, key, sharing, owner, allowed>>
       ELSE ClaimOrJoin(p, target[p])

\* Mutant: a reader that meant to share pays when the owner is gone.
ClaimForLostOwner(p) ==
    /\ pc[p] = "claiming"
    /\ IF Holds(verdicts, target[p]) THEN UseVerdict(p) ELSE ClaimOrJoin(p, target[p])

\* The second look under the lock.
Claim(p) ==
    /\ pc[p] = "claiming"
    /\ IF Holds(verdicts, target[p]) THEN UseVerdict(p)
       ELSE IF sharing[p] /\ inflight[target[p]] = Nobody
       THEN Suppress(p) /\ UNCHANGED <<memos, world, target, key, sharing, owner, allowed>>
       ELSE ClaimOrJoin(p, target[p])

\* The owner sends the paid call.
Dispatch(p) ==
    /\ pc[p] = "calling"
    /\ paid' = [paid EXCEPT ![target[p]] = IF @ = 0 THEN 1 ELSE 2]
    /\ Goto(p, "called")
    /\ UNCHANGED <<memos, revision, railsOpen, locals>>

\* Mutant: a call that raises leaves without the finally block.
SettleUnlessRaised(p) ==
    /\ pc[p] = "called"
    /\ \/ /\ Return(p)
          /\ UNCHANGED <<memos, world>>
       \/ /\ Answer(p, "verified")
          /\ verdicts' = StoredVerdict(target[p], "verified")
          /\ inflight' = [inflight EXCEPT ![target[p]] = Nobody]
          /\ Goto(p, "publishing")
          /\ UNCHANGED <<evaluations, world, target, key, sharing, owner, allowed>>

\* The finally block: whatever came back is stored, then the claim ends.
Settle(p) ==
    /\ pc[p] = "called"
    /\ \E v \in Verdict :
        /\ Answer(p, v)
        /\ verdicts' = StoredVerdict(target[p], v)
    /\ inflight' = [inflight EXCEPT ![target[p]] = Nobody]
    /\ Goto(p, "publishing")
    /\ UNCHANGED <<evaluations, world, target, key, sharing, owner, allowed>>

\* future.set_result: those who wait for p have their answer.
Publish(p) ==
    /\ pc[p] = "publishing"
    /\ LET waiting == { q \in Readers : pc[q] = "waiting" /\ owner[q] = p }
       IN /\ pc' = [q \in Readers |-> IF q \in waiting \cup {p} THEN "storing" ELSE pc[q]]
          /\ answer' = [q \in Readers |-> IF q \in waiting THEN answer[p] ELSE answer[q]]
    /\ UNCHANGED <<memos, world, target, key, sharing, owner, allowed>>

\* The owner was too slow: the memo is asked once more.
WaitTimesOut(p) ==
    /\ pc[p] = "waiting"
    /\ IF Holds(verdicts, target[p])
       THEN Answer(p, verdicts[HeldVerdict(target[p])].verdict) /\ Goto(p, "storing")
       ELSE Suppress(p)
    /\ UNCHANGED <<memos, world, target, key, sharing, owner, allowed>>

------------------------------------------------------------------------------
\* Mutant: a suppressed evaluation is stored like any other.
StoreAnyway(p) ==
    /\ pc[p] = "storing"
    /\ evaluations' = StoredEvaluation(target[p], key[p], answer[p])
    /\ Return(p)
    /\ UNCHANGED <<verdicts, inflight, world>>

\* The evaluation is stored unless it was suppressed.
Store(p) ==
    /\ pc[p] = "storing"
    /\ evaluations' = IF answer[p] = "suppressed" THEN evaluations
                      ELSE StoredEvaluation(target[p], key[p], answer[p])
    /\ Return(p)
    /\ UNCHANGED <<verdicts, inflight, world>>

\* evaluate_run raised: no evaluation is served or stored.
EvaluationRaises(p) ==
    /\ MayRaise
    /\ pc[p] = "storing"
    /\ Return(p)
    /\ UNCHANGED <<memos, world>>

\* A late answer of a terminal run bumps its updated_at.
RunMoves(k) ==
    /\ revision[k] < MaxRevision
    /\ revision' = [revision EXCEPT ![k] = @ + 1]
    /\ UNCHANGED <<memos, railsOpen, paid, pc, locals>>

\* Spend, a lost ledger write, or a day passing.
RailsMove ==
    /\ railsOpen' = ~railsOpen
    /\ UNCHANGED <<memos, revision, paid, pc, locals>>

Evaluate(p) ==
    \/ MissEvaluation(p) \/ HitEvaluation(p) \/ TouchVerdict(p)
    \/ Ask(p) \/ CheckRails(p) \/ Claim(p) \/ Dispatch(p) \/ Settle(p) \/ Publish(p)
    \/ WaitTimesOut(p) \/ Store(p) \/ EvaluationRaises(p)

Next ==
    \/ \E p \in Readers : Evaluate(p) \/ \E k \in Runs : Read(p, k)
    \/ \E k \in Runs : RunMoves(k)
    \/ RailsMove

Spec == Init /\ [][Next]_vars

\* Every run goes on being read, and a thread that started an evaluation ends it.
Fairness ==
    \A p \in Readers : WF_vars(Evaluate(p)) /\ \A k \in Runs : SF_vars(Read(p, k))

FairSpec == Spec /\ Fairness

------------------------------------------------------------------------------
(* What must hold.                                                         *)

TypeOK ==
    /\ verdicts \in Seq([run : Judged, verdict : Verdict]) /\ Len(verdicts) <= VerdictMax
    /\ evaluations \in Seq([run : Runs, revision : 0 .. MaxRevision, kind : Kind])
    /\ Len(evaluations) <= EvaluationMax
    /\ inflight \in [Runs -> Readers \cup {Nobody}]
    /\ revision \in [Runs -> 0 .. MaxRevision]
    /\ railsOpen \in BOOLEAN
    /\ paid \in [Runs -> 0 .. 2]
    /\ pc \in [Readers -> {"idle", "lookup", "touching", "asking", "paying?", "claiming",
                           "waiting", "calling", "called", "publishing", "storing"}]
    /\ target \in [Readers -> Runs \cup {NoRun}]
    /\ key \in [Readers -> 0 .. MaxRevision]
    /\ sharing \in [Readers -> BOOLEAN] /\ allowed \in [Readers -> BOOLEAN]
    /\ owner \in [Readers -> Readers \cup {Nobody}]
    /\ answer \in [Readers -> Kind]

Paying(p) == pc[p] \in {"calling", "called"}

\* However many threads evaluate a run at once, one of them pays, and the claim
\* names it for as long as its call is out.
OnePayerPerRun ==
    \A p \in Readers : Paying(p) => inflight[target[p]] = p

\* A call is paid for only by a reader that asked the money rails itself: a
\* reader that skipped them because somebody else was paying never pays.
PayerAskedTheRails == \A p \in Readers : Paying(p) => allowed[p]

\* A run is paid for again only after its verdict was evicted.
NoSecondPurchase == \A k \in Runs : paid[k] = 1 /\ paid'[k] = 2 => ~Holds(verdicts, k)
PaidAgainOnlyIfForgotten == [][NoSecondPurchase]_vars

\* How far the purchase of a run's verdict is, as JudgePurchase has it.
Stage(k) ==
    IF Holds(verdicts, k) THEN verdicts[HeldVerdict(k)].verdict
    ELSE IF inflight[k] = Nobody THEN "unknown"
    ELSE IF pc[inflight[k]] = "calling" THEN "claimed" ELSE "called"

Purchase == INSTANCE JudgePurchase WITH
                Verdicts <- Verdict, stage <- [k \in DOMAIN paid |-> Stage(k)]

\* A verdict is bought by one call per claim, kept as it came, and neither bought
\* again nor replaced while it is kept: in no interleaving of readers, lost owners,
\* timeouts, evictions and touches (_memoised_verdict, _judge_memo_touch).
VerdictIsBoughtOnce == Purchase!Spec

\* Whatever was suppressed, timed out or shared, every stored evaluation of a
\* run that was paid for once carries the verdict that was paid for.
StoredVerdictIsTheOnePaid ==
    \A i \in DOMAIN evaluations :
        LET e == evaluations[i]
        IN e.run \in Judged /\ paid[e.run] <= 1 =>
              /\ e.kind \in Verdict
              /\ Holds(verdicts, e.run) => verdicts[HeldVerdict(e.run)].verdict = e.kind

\* A run whose evaluation is still served from the memo keeps its verdict too,
\* which is what its receipt and judge status are read from (readers that
\* overlap may age the two memos differently).
EvaluationKeepsVerdict ==
    (\A p \in Readers : pc[p] = "idle") => \A i \in DOMAIN evaluations :
        evaluations[i].run \in Judged => Holds(verdicts, evaluations[i].run)

\* A failed, timed out or suppressed read is never the last word: while the
\* rails stay open, every judged run that goes on being read gets its verdict.
VerdictArrives ==
    <>[]railsOpen => \A k \in Judged : <>Holds(verdicts, k)
=============================================================================
