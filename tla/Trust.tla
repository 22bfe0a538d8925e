------------------------------- MODULE Trust -------------------------------
(***************************************************************************)
(* How much a finished run may be trusted (evaluation.py): the citation    *)
(* markers read off its texts, the signals made of them and of the answers *)
(* (Layer A), the two labels, and the trust score, which is served only if *)
(* a judge that verifies support has supported the run.                    *)
(*                                                                         *)
(* A text is its tokens as they matter to markers - brackets, a            *)
(* parenthesised target, a group of digits, a code span that holds a       *)
(* marker, a word - and the sentences it opens with as they matter to      *)
(* refusals.  Ratios are whole numbers of which Unit make one.             *)
(***************************************************************************)
EXTENDS Integers, Sequences, FiniteSets, SequencesExt

CONSTANTS
    Unit,               \* what every ratio is counted in
    Urls,               \* targets of links: tokens that are parenthesised addresses
    Positions,          \* a function from digit tokens to sequences of positions
    Scanned,            \* texts that are only read for markers
    Evaluated,          \* runs to evaluate
    Invented            \* an address no source of a run has, as a target

VARIABLES asked, shown

trustVars == <<asked, shown>>
NotRead == <<>>
Unknown == -1           \* a signal nothing is known of (None)
Shape == "()"           \* a parenthesised target that is no address
Digits == DOMAIN Positions

AddUp(s) == FoldLeft(LAMBDA x, y : x + y, 0, s)
Count(set) == Cardinality(set)

-----------------------------------------------------------------------------
(* extract_citation_markers.                                                *)

\* _prose_only: a text past the parser's limit is not read, and code spans are
\* masked in place.
ProseOnly(text) ==
    IF text.long THEN <<>>
    ELSE [i \in DOMAIN text.tokens |->
            IF text.tokens[i] = "code" THEN "word" ELSE text.tokens[i]]

HasTarget(t, i) == i < Len(t) /\ t[i + 1] \in Urls \cup {Shape}

\* Mutant: a bracket that closed no link keeps its opening one.
CloseBracketKeeps(t, acc, i) ==
    IF ~HasTarget(t, i) THEN acc
    ELSE [opens |-> Front(acc.opens),
          spans |-> acc.spans \cup {[from |-> Last(acc.opens), to |-> i + 1]}]

\* A closing bracket takes the last opening one with it, and makes a link of the two
\* if a target follows.
CloseBracket(t, acc, i) ==
    [opens |-> Front(acc.opens),
     spans |-> IF HasTarget(t, i)
               THEN acc.spans \cup {[from |-> Last(acc.opens), to |-> i + 1]} ELSE acc.spans]

\* _scan_links, one pass over the brackets.
LinkSpans(t) ==
    FoldLeft(LAMBDA acc, i :
                IF t[i] = "[" THEN [acc EXCEPT !.opens = Append(@, i)]
                ELSE IF t[i] = "]" /\ acc.opens # <<>> THEN CloseBracket(t, acc, i)
                ELSE acc,
             [opens |-> <<>>, spans |-> {}], [i \in DOMAIN t |-> i]).spans

Covered(spans) == UNION {s.from .. s.to : s \in spans}

UrlMarkers(t, spans) ==
    LET targets == {s.to : s \in {s \in spans : t[s.to] \in Urls}}
    IN  [k \in DOMAIN SetToSortSeq(targets, <) |-> t[SetToSortSeq(targets, <)[k]]]

\* The groups of digits in brackets of what the links leave, which close up over a gap.
OrdinalMarkers(t, spans) ==
    LET rest == SetToSortSeq(DOMAIN t \ Covered(spans), <)
        middles == {k \in 2 .. (Len(rest) - 1) :
                        t[rest[k - 1]] = "[" /\ t[rest[k]] \in Digits /\ t[rest[k + 1]] = "]"}
        groups == SetToSortSeq(middles, <)
    IN  FlattenSeq([k \in DOMAIN groups |-> Positions[t[rest[groups[k]]]]])

Markers(text) ==
    LET t == ProseOnly(text) IN [urls |-> UrlMarkers(t, LinkSpans(t)),
                                 ordinals |-> OrdinalMarkers(t, LinkSpans(t))]

-----------------------------------------------------------------------------
(* citation_marker_census.  A scope is a text with the sources its ordinals *)
(* count in; a source is [url, placeholder, fallback].                      *)

\* _canonical_marker_key is the token: targets that are one address are one token.
UrlsOf(scopes, placeholder) ==
    UNION {{s.url : s \in {s \in Range(scopes[i].sources) : s.placeholder = placeholder}} :
            i \in DOMAIN scopes}

\* Mutant: a position past the sources starts again at the first.
OrdinalResolvesAround(position, sources) ==
    sources # <<>> /\ ~sources[((position - 1) % Len(sources)) + 1].placeholder

OrdinalResolves(position, sources) ==
    position \in DOMAIN sources /\ ~sources[position].placeholder

MarkerCensus(resolved, unresolved, unverifiable) ==
    [resolved |-> resolved, resolvable |-> resolved + unresolved,
     unverifiable |-> unverifiable]

Census(scopes) ==
    LET real == UrlsOf(scopes, FALSE)
        sham == UrlsOf(scopes, TRUE) \ real
        of(i, Test(_)) == Len(SelectSeq(Markers(scopes[i].text).urls, Test))
        ordinals(i, wanted) ==
            Len(SelectSeq(Markers(scopes[i].text).ordinals,
                          LAMBDA p : OrdinalResolves(p, scopes[i].sources) = wanted))
        each(F(_)) == AddUp([i \in DOMAIN scopes |-> F(i)])
    IN  MarkerCensus(each(LAMBDA i : of(i, LAMBDA u : u \in real) + ordinals(i, TRUE)),
                     each(LAMBDA i : of(i, LAMBDA u : u \in sham) + ordinals(i, FALSE)),
                     each(LAMBDA i : of(i, LAMBDA u : u \notin real \cup sham)))

-----------------------------------------------------------------------------
(* detect_refusal: the first sentence that says something, or the one after *)
(* an apology that refuses nothing.                                         *)

Sentences(text) == SelectSeq(text.opening, LAMBDA s : s # "blank")
RefusesIn(sentence) == sentence \in {"refusal", "sorry refusal"}
Refuses(text) ==
    LET s == Sentences(text)
    IN  /\ text.visible /\ s # <<>>
        /\ IF s[1] = "sorry" THEN Len(s) > 1 /\ RefusesIn(s[2]) ELSE RefusesIn(s[1])

-----------------------------------------------------------------------------
(* Layer A.  A run is [answers, synthesis, polar, requested, judge]; an     *)
(* answer [live, completed, text, sources]; the synthesis at most one       *)
(* record [texts, preserved, framing, uncertain].                           *)

Answered(run) == {i \in DOMAIN run.answers : run.answers[i].completed}
Substantive(run) == {i \in Answered(run) : run.answers[i].text.visible}

Ratio(part, whole) == IF whole = 0 THEN 0 ELSE (part * Unit) \div whole

\* calculate_citation_coverage over the answers that came: hundredths, half to even.
Hundredths(part, whole) ==
    LET low == (100 * part) \div whole
        twice == 2 * ((100 * part) % whole)
    IN  IF twice > whole \/ (twice = whole /\ low % 2 = 1) THEN low + 1 ELSE low
Coverage(run) ==
    LET sourced == {i \in Answered(run) :
                        \E s \in Range(run.answers[i].sources) : ~s.fallback}
    IN  IF Answered(run) = {} THEN 0
        ELSE Hundredths(Count(sourced), Count(Answered(run))) * (Unit \div 100)

\* The sections of a synthesis cite nothing of their own.
Scopes(run) ==
    [i \in DOMAIN run.answers |->
        [text |-> run.answers[i].text, sources |-> run.answers[i].sources]]
    \o FlattenSeq([k \in DOMAIN run.synthesis |->
        [j \in DOMAIN run.synthesis[k].texts |->
            [text |-> run.synthesis[k].texts[j], sources |-> <<>>]]])

Says(run, field) == run.synthesis # <<>> /\ run.synthesis[1][field]

LayerA(run) ==
    LET census == Census(Scopes(run))
        refusals == {i \in Substantive(run) : Refuses(run.answers[i].text)}
        live == {i \in Answered(run) : run.answers[i].live}
    IN  [coverage |-> Coverage(run),
         grounding |-> IF census.resolvable = 0 THEN Unknown
                       ELSE Ratio(census.resolved, census.resolvable),
         unverifiable |-> census.unverifiable,
         live |-> Ratio(Count(live), run.requested),
         complete |-> Ratio(Count(Substantive(run)), run.requested),
         suppressed |-> run.polar /\ ~Says(run, "preserved"),
         framing |-> Says(run, "framing"), uncertain |-> Says(run, "uncertain"),
         refused |-> Substantive(run) # {} /\ 2 * Count(refusals) >= Count(Substantive(run))]

-----------------------------------------------------------------------------
FabricationThreshold == Unit \div 2
GoodThreshold == (4 * Unit) \div 5
LabelRank == [unfaithful |-> 1, partial |-> 2, faithful |-> 3]
RiskRank == [low |-> 1, medium |-> 2, high |-> 3]

CapLabel(label, ceiling) == IF LabelRank[label] <= LabelRank[ceiling] THEN label ELSE ceiling
Faithfulness(a) ==
    LET base == IF a.grounding # Unknown /\ a.grounding < FabricationThreshold THEN "unfaithful"
                ELSE IF a.grounding = Unknown \/ a.live < Unit \/ a.complete < Unit
                     THEN "partial" ELSE "faithful"
    IN  IF a.refused THEN CapLabel(base, "partial") ELSE base

HallucinationRisk(a) ==
    IF a.grounding = Unknown THEN IF a.refused THEN "low" ELSE "medium"
    ELSE IF a.grounding < FabricationThreshold THEN "high"
    ELSE IF a.grounding >= GoodThreshold THEN "low" ELSE "medium"

PresentationConfidence(a) ==
    IF a.unverifiable > 0 /\ (Faithfulness(a) = "faithful" \/ HallucinationRisk(a) = "low")
    THEN "indeterminate" ELSE "reportable"

-----------------------------------------------------------------------------
(* compute_composite and build_trust_score.                                 *)

One(condition) == IF condition THEN Unit ELSE 0
Weighted(a) ==
    <<[weight |-> 30, value |-> a.grounding], [weight |-> 20, value |-> a.live],
      [weight |-> 15, value |-> a.coverage], [weight |-> 15, value |-> a.complete],
      [weight |-> 10, value |-> One(~a.suppressed)], [weight |-> 5, value |-> One(a.uncertain)],
      [weight |-> 5, value |-> One(a.framing)]>>

\* Out of a whole: the weights of the signals that are known, made up to one.
Composite(a) ==
    LET known == SelectSeq(Weighted(a), LAMBDA w : w.value # Unknown)
    IN  [sum |-> AddUp([k \in DOMAIN known |-> known[k].weight * known[k].value]),
         whole |-> AddUp([k \in DOMAIN known |-> known[k].weight]) * Unit]

SupportsVerification(verdict) ==
    verdict.risk # "high" /\ verdict.grounding >= 1 /\ verdict.faithfulness >= 1

Band(score) == IF score < 50 THEN "low" ELSE IF score < 75 THEN "moderate" ELSE "high"

\* The TrustScore: no number unless support was verified.
Served(band, score) == [band |-> band, score |-> score]

TrustScore(a, verified, requested) ==
    LET c == Composite(a)
        score == Hundredths(c.sum, c.whole)
    IN  IF ~verified THEN Served("unverified", Unknown)
        ELSE Served(IF Band(score) = "high" /\ requested < 3 THEN "moderate" ELSE Band(score),
                    score)

\* What is kept of a run: metrics only, the judge's rationale never.
RunEvaluation(a) ==
    [signals |-> a, label |-> Faithfulness(a), risk |-> HallucinationRisk(a)]

\* evaluate_run and its projection, of the signals a: judge is at most one record
\* [verifies, verdict], the verdict a sequence of at most one.
Evaluation(run, a) ==
    LET verified == /\ run.judge # <<>> /\ run.judge[1].verdict # <<>>
                    /\ run.judge[1].verifies /\ SupportsVerification(run.judge[1].verdict[1])
    IN  [evaluation |-> RunEvaluation(a), confidence |-> PresentationConfidence(a),
         trust |-> TrustScore(a, verified, run.requested)]

-----------------------------------------------------------------------------
TrustInit ==
    /\ asked \in {[kind |-> "text", text |-> t] : t \in Scanned}
              \cup {[kind |-> "run", run |-> r] : r \in Evaluated}
    /\ shown = NotRead

ReadMarkers ==
    /\ asked.kind = "text" /\ shown = NotRead
    /\ shown' = <<Markers(asked.text)>> /\ UNCHANGED asked
EvaluateRun ==
    /\ asked.kind = "run" /\ shown = NotRead
    /\ \E signals \in {LayerA(asked.run)} : shown' = <<Evaluation(asked.run, signals)>>
    /\ UNCHANGED asked

TrustNext == ReadMarkers \/ EvaluateRun

-----------------------------------------------------------------------------
(* evaluation.py:408: the one-pass scan finds the links that bracket        *)
(* matching defines, however they nest: each address that follows a matched *)
(* bracket is a marker once, a bracketed number is one unless it is part of *)
(* a link, and code is never one.                                           *)
Balanced(t, i, j) ==
    LET opens(k) == Count({x \in i .. k : t[x] = "["})
        closes(k) == Count({x \in i .. k : t[x] = "]"})
    IN  opens(j) = closes(j) /\ \A k \in i .. j : opens(k) >= closes(k)
LinksOf(t) ==
    {l \in {[from |-> i, to |-> j] : i, j \in DOMAIN t} :
        /\ l.from < l.to - 1 /\ t[l.from] = "[" /\ t[l.to - 1] = "]"
        /\ t[l.to] \in Urls \cup {Shape}
        /\ Balanced(t, l.from + 1, l.to - 2)}
MarkersAreTheReaders ==
    asked.kind = "text" /\ shown # NotRead =>
        LET t == ProseOnly(asked.text)
            links == LinksOf(t)
            bare == {i \in DOMAIN t : \A l \in links : i \notin l.from .. l.to}
            next(i) == CHOOSE j \in bare : i < j /\ \A x \in bare : x > i => j <= x
            follows(i) == \E j \in bare : j > i
            numbered == {i \in bare : /\ t[i] = "[" /\ follows(i) /\ t[next(i)] \in Digits
                                      /\ follows(next(i)) /\ t[next(next(i))] = "]"}
        IN  /\ \A u \in Urls : Count({k \in DOMAIN shown[1].urls : shown[1].urls[k] = u}) =
                                Count({l \in links : t[l.to] = u})
            /\ Len(shown[1].ordinals) =
                AddUp([i \in DOMAIN t |-> IF i \in numbered THEN Len(Positions[t[next(i)]]) ELSE 0])

(* evaluation.py:1386, 1444 and 2735: to cite more than there is never      *)
(* pays.  A further marker that points past an answer's sources lowers or   *)
(* keeps the composite, the label and the standing of the risk, and costs   *)
(* grounding unless there is none or the text is too long to be read; one   *)
(* with an invented address moves none of them, and a favourable label      *)
(* beside it is withheld; and the two labels never contradict each other.   *)
WithTokens(run, i, tokens) ==
    [run EXCEPT !.answers[i].text.tokens = @ \o tokens]
NoBetter(b, a) ==
    /\ Composite(b).sum * Composite(a).whole <= Composite(a).sum * Composite(b).whole
    /\ LabelRank[Faithfulness(b)] <= LabelRank[Faithfulness(a)]
    /\ RiskRank[HallucinationRisk(b)] >= RiskRank[HallucinationRisk(a)]
FabricationNeverPays ==
    asked.kind = "run" /\ shown # NotRead =>
        LET told == shown[1].evaluation
            a == told.signals
            past == CHOOSE d \in Digits : \A i \in DOMAIN asked.run.answers :
                        Positions[d][1] > Len(asked.run.answers[i].sources)
        IN  /\ told.label = "unfaithful" <=> told.risk = "high"
            /\ told.label = "faithful" => a.live = Unit /\ a.complete = Unit /\ ~a.refused
            /\ \A i \in DOMAIN asked.run.answers :
                \A falseNumber \in {LayerA(WithTokens(asked.run, i, <<"[", past, "]">>))},
                   falseLink \in {LayerA(WithTokens(asked.run, i, <<"[", "word", "]", Invented>>))} :
                    /\ NoBetter(falseNumber, a)
                    /\ \/ falseNumber.grounding < a.grounding \/ falseNumber.grounding = 0
                       \/ asked.run.answers[i].text.long
                    /\ NoBetter(falseLink, a) /\ NoBetter(a, falseLink)
                    /\ falseLink.unverifiable > 0 =>
                        \/ PresentationConfidence(falseLink) = "indeterminate"
                        \/ told.label # "faithful" /\ told.risk # "low"
=============================================================================
