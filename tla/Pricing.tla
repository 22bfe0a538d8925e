------------------------------ MODULE Pricing ------------------------------
(***************************************************************************)
(* What a run is said to cost (costs.py): the point estimate and its two   *)
(* itemised breakdowns, the bound the guardrail is evaluated against, the  *)
(* measured breakdown of a finished run, and the allowance left for the    *)
(* day beside the rails that enforce it.                                   *)
(*                                                                         *)
(* Money is counted in whole units, Quantum of them to the smallest amount *)
(* that is displayed (COST_DISPLAY_QUANTUM), so a raw line can lie between *)
(* two displayable ones.  Token counts and prices are small whole numbers. *)
(***************************************************************************)
EXTENDS Integers, FiniteSets, Sequences, SequencesExt

CONSTANTS
    Quantum,            \* units per COST_DISPLAY_QUANTUM
    Slots,              \* the models a panel may name: a function to [pin, pout]
    Settings,           \* records of the figures in config.py that price a run
    Requests,           \* what an estimate is asked for
    Bills,              \* what a finished run's calls reported, in units
    Ledgers,            \* [spent, cumulative, estimated]: an account's day
    DailyCap, HardLimit \* DAILY_CAP_USD, HARD_LIMIT_USD

VARIABLES
    asked,              \* the figure asked for, of one of the three kinds
    shown               \* what was answered, or NotYet

pricingVars == <<asked, shown>>
NotYet == [kind |-> "not yet"]

Total(s) == FoldLeft(LAMBDA x, y : x + y, 0, s)
Least(x, y) == IF x <= y THEN x ELSE y
Most(x, y) == IF x <= y THEN y ELSE x
HalfUp(x) == ((2 * x + Quantum) \div (2 * Quantum)) * Quantum
Floor(x) == (x \div Quantum) * Quantum
Ceiling(x) == -Floor(-x)
Only(condition, s) == IF condition THEN s ELSE <<>>

-----------------------------------------------------------------------------
(* The components both figures share.  A request is                         *)
(*   [panel |-> <<[model, search], ...>>, tokens, context, quick];          *)
(* the settings decide peer critique, the judge and whether it reads pages. *)

Call(price, prompt, output) == price.pin * prompt + price.pout * output

\* What a follow-up carries along: the answers are sent the previous question and
\* synthesis, the debate only the system suffix, the synthesis its suffix and frame.
FollowUp(s, request) ==
    IF request.context
    THEN [answer |-> s.texts, debate |-> s.suffix, synthesis |-> s.suffix + s.frame]
    ELSE [answer |-> 0, debate |-> 0, synthesis |-> 0]

InitialCosts(s, request, outTokens, searchTokens) ==
    [i \in DOMAIN request.panel |->
        LET slot == request.panel[i]
            prompt == s.system + request.tokens + FollowUp(s, request).answer
                        + (IF slot.search THEN searchTokens ELSE 0)
        IN  Call(Slots[slot.model], prompt, outTokens)
                + (IF slot.search THEN s.searchFee ELSE 0)]

\* A sum over the panel's models, or what the moderator's model would cost if that
\* is more: under peer critique either may write the round.
CritiqueCost(s, request, prompt, output) ==
    LET moderator == Call(s.debateModel, prompt, output)
        critics == [i \in DOMAIN request.panel |->
                        Call(Slots[request.panel[i].model], prompt, output)]
    IN  IF s.peer THEN Most(Total(critics), moderator) ELSE moderator

DebateRoundCost(s, request, outTokens, debateTokens) ==
    LET system == IF s.peer THEN s.debateSystem ELSE s.system
        upstream == Len(request.panel) * outTokens
    IN  CritiqueCost(s, request, system + request.tokens + upstream
                                    + FollowUp(s, request).debate, debateTokens)

SynthesisCost(s, request, outTokens, debateTokens) ==
    s.sections * Call(s.synthesisModel,
        s.system + request.tokens + Len(request.panel) * outTokens
            + FollowUp(s, request).synthesis + 2 * debateTokens, s.synthesisOut)

\* Round two reads round one's critique: only the bound prices that.
PriorCritiqueCost(s, request, debateTokens) == CritiqueCost(s, request, debateTokens, 0)

ReadsPages(s, request) == s.judge /\ s.pages /\ ~request.quick
JudgeCapTokens(s, request) ==
    s.initialMax * Len(request.panel) + s.evidence + request.tokens
        + (IF ReadsPages(s, request) THEN s.pagesMax ELSE 0)
JudgeCost(s, request, typical) ==
    LET cap == JudgeCapTokens(s, request)
        usual == request.tokens
                    + (IF ReadsPages(s, request) THEN s.judgeWithPages ELSE s.judgeTypical)
    IN  IF ~s.judge THEN 0
        ELSE IF typical THEN Call(s.judgeModel, Least(usual, cap), Least(s.judgeOut, s.judgeMax))
        ELSE Call(s.judgeModel, cap, s.judgeMax)

Components(s, request, outTokens, debateTokens, searchTokens, bound) ==
    LET initial == InitialCosts(s, request, outTokens, searchTokens)
        round == IF request.quick THEN 0 ELSE DebateRoundCost(s, request, outTokens, debateTokens)
        prior == IF request.quick \/ ~bound THEN 0 ELSE PriorCritiqueCost(s, request, debateTokens)
        synthesis == IF request.quick THEN 0
                     ELSE SynthesisCost(s, request, outTokens, debateTokens)
        judge == JudgeCost(s, request, ~bound)
    IN  [initial |-> initial, round |-> round, synthesis |-> synthesis, judge |-> judge,
         raw |-> Total(initial) + 2 * round + prior + synthesis + judge]

-----------------------------------------------------------------------------
(* Sharing a rounded total out over the lines it is made of: each line gets *)
(* its whole quanta, and what is left goes one quantum at a time to the     *)
(* lines with the largest remainders.                                       *)

\* Mutant: each line is rounded for itself.
RoundLines(raw, total) == [i \in DOMAIN raw |-> HalfUp(raw[i])]

\* A total below the whole quanta would be taken back from the lines with the
\* smallest remainders, and none of them below zero.
ReconcileLines(raw, total) ==
    LET lines == DOMAIN raw
        remainder(i) == raw[i] % Quantum
        residual == (total - Total([i \in lines |-> Floor(raw[i])])) \div Quantum
        before(i) == {j \in lines : \/ remainder(j) > remainder(i)
                                    \/ remainder(j) = remainder(i) /\ j < i}
        positive == {i \in lines : Floor(raw[i]) > 0}
        smaller(i) == {j \in positive : \/ remainder(j) < remainder(i)
                                        \/ remainder(j) = remainder(i) /\ j < i}
        given == {i \in lines : residual > 0 /\ Cardinality(before(i)) < residual}
        taken == {i \in positive : residual < 0 /\ Cardinality(smaller(i)) < -residual}
    IN  [i \in lines |-> Floor(raw[i]) + (IF i \in given THEN Quantum ELSE 0)
                                       - (IF i \in taken THEN Quantum ELSE 0)]

\* The two debate rounds cost the same and are shown the same: a quantum only one
\* of them got moves to the initial answers.
EqualRounds(lines) ==
    LET dearer == IF lines[2] > lines[3] THEN 2 ELSE 3
    IN  IF lines[2] = lines[3] THEN lines
        ELSE [lines EXCEPT ![dearer] = @ - Quantum, ![1] = @ + Quantum]

Breakdown(stages, models, total) ==
    [kind |-> "breakdown", total |-> total, rawStages |-> stages, rawModels |-> models,
     byStage |-> ReconcileLines(stages, total), byModel |-> ReconcileLines(models, total)]

-----------------------------------------------------------------------------
(* CostEstimationService._estimate_breakdown and _estimate_bound_usd.       *)

EstimateBreakdown(s, request) ==
    LET outTokens == Least(s.initialOut + s.perQueryToken * request.tokens, s.initialMax)
        c == Components(s, request, outTokens, s.debateOut, s.searchTokens, FALSE)
        total == HalfUp(c.raw)
        judge == Only(s.judge, <<c.judge>>)
        stages == <<Total(c.initial), c.round, c.round, c.synthesis>> \o judge
                    \o Only(ReadsPages(s, request), <<0>>)
        models == c.initial \o <<2 * c.round + c.synthesis>> \o judge
        panel == Breakdown(stages, models, total)
    IN  IF request.quick
        THEN Breakdown(<<Total(c.initial)>> \o judge, c.initial \o judge, total)
        ELSE [panel EXCEPT !.byStage = EqualRounds(@)]

EstimateBound(s, request) ==
    HalfUp(Components(s, request, s.initialMax, s.debateCap, s.boundSearch, TRUE).raw)

Estimate(s, request) ==
    [kind |-> "estimate", breakdown |-> EstimateBreakdown(s, request),
     bound |-> EstimateBound(s, request),
     pages |-> ReadsPages(s, request), quick |-> request.quick]

(* build_measured_breakdown: a bill is                                      *)
(*   [initial, rounds, synthesis, judge, critique, quick, pages], the judge *)
(* a sequence of at most one figure.  A bill that claims more critique than *)
(* debate, or debate in a quick answer, is refused (ValueError).            *)
Refused == [kind |-> "refused"]
MeasuredBreakdown(bill) ==
    LET debate == Total(bill.rounds)
        raw == Total(bill.initial) + debate + bill.synthesis + Total(bill.judge)
        total == HalfUp(raw)
        writer == debate - Total(bill.critique) + bill.synthesis
    IN  IF bill.quick
        THEN IF debate + bill.synthesis > 0 \/ bill.critique # <<>> THEN Refused
             ELSE Breakdown(<<Total(bill.initial)>> \o bill.judge,
                            bill.initial \o bill.judge, total)
        ELSE IF Total(bill.critique) > debate THEN Refused
        ELSE Breakdown(<<Total(bill.initial)>> \o bill.rounds \o <<bill.synthesis>>
                            \o bill.judge \o Only(bill.pages, <<0>>),
                       bill.initial \o <<writer>> \o bill.judge \o bill.critique, total)

-----------------------------------------------------------------------------
(* The day's allowance, and the two rails an estimate is refused by.        *)

RunningTotalFires(day) == day.cumulative > 0 /\ day.cumulative + day.estimated > HardLimit
DailyCapFires(day) == day.spent + day.estimated > DailyCap

DailyAllowance(day) ==
    LET byCap == DailyCap - day.spent
        byTotal == HardLimit - day.cumulative
        bounded == IF day.cumulative > 0 /\ byTotal < byCap THEN byTotal ELSE byCap
    IN  [kind |-> "allowance", spent |-> Ceiling(day.spent),
         remaining |-> Floor(Least(Most(bounded, 0), DailyCap)),
         blocked |-> RunningTotalFires(day) \/ DailyCapFires(day)]

-----------------------------------------------------------------------------
PricingInit ==
    /\ \/ \E s \in Settings, r \in Requests :
            asked = [kind |-> "estimate", settings |-> s, request |-> r]
       \/ \E b \in Bills : asked = [kind |-> "bill", bill |-> b]
       \/ \E d \in Ledgers : asked = [kind |-> "allowance", day |-> d]
    /\ shown = NotYet

AnswerEstimate ==
    /\ asked.kind = "estimate" /\ shown = NotYet
    /\ shown' = Estimate(asked.settings, asked.request) /\ UNCHANGED asked
AnswerBill ==
    /\ asked.kind = "bill" /\ shown = NotYet
    /\ shown' = MeasuredBreakdown(asked.bill) /\ UNCHANGED asked
AnswerAllowance ==
    /\ asked.kind = "allowance" /\ shown = NotYet
    /\ shown' = DailyAllowance(asked.day) /\ UNCHANGED asked

PricingNext == AnswerEstimate \/ AnswerBill \/ AnswerAllowance

-----------------------------------------------------------------------------
(* A partition states the whole total: its lines add up to it, none is      *)
(* negative, each is within one displayable amount of what it stands for,   *)
(* and a line that stands for nothing shows nothing.                        *)
StatesTheTotal(lines, raw, total) ==
    /\ Total(lines) = total
    /\ \A i \in DOMAIN lines :
        /\ lines[i] >= 0 /\ lines[i] - raw[i] < Quantum /\ raw[i] - lines[i] < Quantum
        /\ raw[i] = 0 => lines[i] = 0

(* costs.py:2573: both partitions of a figure add up to it exactly, for an  *)
(* estimate and for a measured bill; an estimate's debate rounds are equal, *)
(* at the price of an initial line that may be two amounts high, and may    *)
(* show one amount for answers that are free.                               *)
BreakdownsAddUp ==
    /\ shown.kind = "breakdown" =>
        /\ StatesTheTotal(shown.byStage, shown.rawStages, shown.total)
        /\ StatesTheTotal(shown.byModel, shown.rawModels, shown.total)
    /\ shown.kind = "estimate" =>
        LET b == shown.breakdown
        IN  /\ StatesTheTotal(b.byModel, b.rawModels, b.total)
            /\ IF shown.quick THEN StatesTheTotal(b.byStage, b.rawStages, b.total)
               ELSE /\ Total(b.byStage) = b.total
                    /\ b.byStage[2] = b.byStage[3]
                    /\ b.byStage[1] - b.rawStages[1] < 2 * Quantum
                    /\ \A i \in DOMAIN b.byStage :
                        /\ b.byStage[i] >= 0 /\ b.rawStages[i] - b.byStage[i] < Quantum
                        /\ i > 1 => b.byStage[i] - b.rawStages[i] < Quantum
                        /\ i > 1 /\ b.rawStages[i] = 0 => b.byStage[i] = 0

(* costs.py:1745: the figure the person is shown never exceeds the one the  *)
(* guardrail is evaluated against.                                          *)
EstimateWithinBound == shown.kind = "estimate" => shown.breakdown.total <= shown.bound

(* costs.py:482 and 1108: an estimate fits the allowance shown exactly when *)
(* neither rail refuses it, so the figure neither promises a run that would *)
(* be blocked nor hides one that would not.  Only a free run asked for on a *)
(* day already past a rail is refused beside an allowance of nothing.       *)
AllowanceIsKept ==
    shown.kind = "allowance" =>
        LET day == asked.day
            past == day.spent > DailyCap \/ day.cumulative > HardLimit
        IN  shown.blocked <=> \/ day.estimated > shown.remaining
                              \/ day.estimated = 0 /\ past
=============================================================================
