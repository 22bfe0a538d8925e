------------------------------ MODULE Evidence ------------------------------
(***************************************************************************)
(* What the judge is given to read (evaluation.py, source_fetcher.py): how *)
(* many of each answer's sources are listed, which passages of a long page *)
(* are shown, and what a site's robots.txt says of an address.             *)
(*                                                                         *)
(* A text is a sequence of characters: "x" and "k", of which only "k" is a *)
(* word of the answers' claims, spaces and newlines.                       *)
(***************************************************************************)
EXTENDS Integers, Sequences, FiniteSets, FiniteSetsExt, SequencesExt

CONSTANTS
    MaxLines,           \* JUDGE_MAX_SOURCE_LINES
    PassageChars,       \* _PASSAGE_CHARS
    SeparatorChars,     \* the length of PASSAGE_SEPARATOR
    PageChars,          \* how much of a page is shown
    SourceCounts,       \* sequences: how many sources each answer has
    PageTexts,          \* pages
    RobotsFiles,        \* sequences of lines [key, value] of a robots.txt
    Patterns, Targets   \* what rules name, and what they are matched with

VARIABLES asked, shown

evidenceVars == <<asked, shown>>
Unread == <<>>

Sum(s) == FoldLeft(LAMBDA x, y : x + y, 0, s)

-----------------------------------------------------------------------------
(* _judge_evidence_source_refs: round after round each answer that has more *)
(* gets one more line, until the lines are used up.                         *)

\* Mutant: each answer is served in full before the next.
GiveLineGreedily(counts, acc, i) ==
    IF acc.budget > 0
    THEN LET more == Min({acc.budget, counts[i] - acc.quotas[i]})
         IN [quotas |-> [acc.quotas EXCEPT ![i] = @ + more], budget |-> acc.budget - more]
    ELSE acc

GiveLine(counts, acc, i) ==
    IF acc.budget > 0 /\ acc.quotas[i] < counts[i]
    THEN [quotas |-> [acc.quotas EXCEPT ![i] = @ + 1], budget |-> acc.budget - 1]
    ELSE acc

\* No more rounds than lines are needed: each gives one at least, or none is left.
SourceQuotas(counts) ==
    LET round(acc) == FoldLeft(LAMBDA a, i : GiveLine(counts, a, i), acc, [i \in DOMAIN counts |-> i])
    IN  FoldLeft(LAMBDA acc, n : round(acc),
                 [quotas |-> [i \in DOMAIN counts |-> 0], budget |-> MaxLines],
                 [n \in 1 .. MaxLines |-> n]).quotas

-----------------------------------------------------------------------------
(* _passages and _split_block.  A span is [from, to], both included.        *)

Space(c) == c \in {" ", "\n"}
Words(t, span) == {i \in span.from .. span.to : ~Space(t[i])}
Length(span) == span.to - span.from + 1

\* Where a block that is too long is cut: at its last space that leaves room, or
\* through a word.  Offsets count from the block's start; the space may be the
\* character after a full piece.
CutAt(t, from) ==
    LET spaces == {i \in (from + 1) .. (from + PassageChars) : t[i] = " "}
    IN  IF spaces = {} THEN from + PassageChars ELSE Max(spaces)

SplitBlock(t, block) ==
    LET step(acc) ==
            IF Length([from |-> acc.from, to |-> block.to]) <= PassageChars THEN acc
            ELSE LET cut == CutAt(t, acc.from)
                 IN  [from |-> Min({i \in cut .. block.to : ~Space(t[i])}),
                      pieces |-> Append(acc.pieces,
                                    [from |-> acc.from,
                                     to |-> Max({i \in acc.from .. (cut - 1) : ~Space(t[i])})])]
        end == FoldLeft(LAMBDA acc, n : step(acc), [from |-> block.from, pieces |-> <<>>],
                        [n \in 1 .. Length(block) |-> n])
    IN  Append(end.pieces, [from |-> end.from, to |-> block.to])

\* The lines, without the space around them.
Lines(t) ==
    LET ends == {i \in DOMAIN t : ~Space(t[i])}
        sameLine(i, j) == \A k \in i .. j : t[k] # "\n"
        starts == {i \in ends : \A j \in ends : j < i => ~sameLine(j, i)}
        stop(i) == Max({j \in ends : j >= i /\ sameLine(i, j)})
        ordered == SetToSortSeq(starts, <)
    IN  [k \in DOMAIN ordered |-> [from |-> ordered[k], to |-> stop(ordered[k])]]

\* A short line joins the passage before it, if that was made of short lines and
\* has the room.
Passages(t) ==
    FoldLeft(LAMBDA acc, line :
                IF Length(line) > PassageChars
                THEN [spans |-> acc.spans \o SplitBlock(t, line), joinable |-> FALSE]
                ELSE IF acc.joinable
                        /\ Length([from |-> Last(acc.spans).from, to |-> line.to]) <= PassageChars
                THEN [acc EXCEPT !.spans[Len(acc.spans)].to = line.to]
                ELSE [spans |-> Append(acc.spans, line), joinable |-> TRUE],
             [spans |-> <<>>, joinable |-> FALSE], Lines(t)).spans

(* pick_passages: the passages with the most of the claims' words that fit, *)
(* earlier ones first, shown in the page's order.                           *)
Score(t, span) == IF \E i \in span.from .. span.to : t[i] = "k" THEN 1 ELSE 0

JoinCost(spans, left, right) ==
    IF right = left + 1 THEN spans[right].from - spans[left].to - 1 ELSE SeparatorChars

\* What a passage adds between its neighbours among those kept.
CostOf(spans, kept, index) ==
    LET before == {i \in kept : i < index}
        after == {i \in kept : i > index}
    IN  Length(spans[index])
            + (IF before # {} THEN JoinCost(spans, Max(before), index) ELSE 0)
            + (IF after # {} THEN JoinCost(spans, index, Min(after)) ELSE 0)
            - (IF before # {} /\ after # {} THEN JoinCost(spans, Max(before), Min(after)) ELSE 0)

PickPassages(t) ==
    LET spans == Passages(t)
        sooner(i, j) == \/ Score(t, spans[i]) > Score(t, spans[j])
                        \/ Score(t, spans[i]) = Score(t, spans[j]) /\ i < j
    IN  FoldLeft(LAMBDA acc, i :
                    IF acc.used + CostOf(spans, acc.kept, i) <= PageChars
                    THEN [kept |-> acc.kept \cup {i},
                          used |-> acc.used + CostOf(spans, acc.kept, i)]
                    ELSE acc,
                 [kept |-> {}, used |-> 0], SetToSortSeq(DOMAIN spans, sooner))

Shown(t) == IF Len(t) <= PageChars THEN [whole |-> TRUE]
            ELSE [whole |-> FALSE, spans |-> Passages(t), kept |-> PickPassages(t).kept,
                  used |-> PickPassages(t).used]

-----------------------------------------------------------------------------
(* _robots_rules: the rules of the groups that name this reader, or of the  *)
(* groups for everyone if none does.                                        *)

RobotsRules(lines) ==
    LET step(acc, line) ==
            IF line.key = "agent"
            THEN LET agents == (IF acc.inRules THEN {} ELSE acc.agents) \cup {line.value}
                 IN  [acc EXCEPT !.agents = agents, !.inRules = FALSE,
                                 !.ownSeen = @ \/ "own" \in agents]
            ELSE LET rule == [allow |-> line.key = "allow", pattern |-> line.value]
                     says == line.value # <<>>
                 IN  [acc EXCEPT !.inRules = TRUE,
                        !.own = IF says /\ "own" \in acc.agents THEN Append(@, rule) ELSE @,
                        !.star = IF says /\ "*" \in acc.agents THEN Append(@, rule) ELSE @]
        end == FoldLeft(step, [agents |-> {}, inRules |-> FALSE, ownSeen |-> FALSE,
                               own |-> <<>>, star |-> <<>>], lines)
    IN  IF end.ownSeen THEN end.own ELSE end.star

\* _robots_pattern_matches: the pieces between the wildcards, each at its first
\* place after the one before; the last one of an anchored pattern at the end.
At(target, piece, from) ==
    from + Len(piece) <= Len(target) /\ SubSeq(target, from + 1, from + Len(piece)) = piece
Found(target, piece, from) == {i \in from .. Len(target) : At(target, piece, i)}

PatternMatches(pattern, target) ==
    LET anchored == pattern # <<>> /\ Last(pattern) = "$"
        bare == IF anchored THEN Front(pattern) ELSE pattern
        stars == SetToSortSeq({i \in DOMAIN bare : bare[i] = "*"}, <)
        bounds == <<0>> \o stars \o <<Len(bare) + 1>>
        pieces == [k \in 1 .. (Len(stars) + 1) |-> SubSeq(bare, bounds[k] + 1, bounds[k + 1] - 1)]
        middle == FoldLeft(LAMBDA at, k :
                            IF at < 0 \/ Found(target, pieces[k], at) = {} THEN -1
                            ELSE Min(Found(target, pieces[k], at)) + Len(pieces[k]),
                           Len(pieces[1]), [k \in 1 .. (Len(pieces) - 2) |-> k + 1])
    IN  /\ At(target, pieces[1], 0) /\ middle >= 0
        /\ IF Len(pieces) = 1 THEN anchored => middle = Len(target)
           ELSE IF anchored
           THEN Len(target) - Len(Last(pieces)) >= middle
                /\ At(target, Last(pieces), Len(target) - Len(Last(pieces)))
           ELSE Found(target, Last(pieces), middle) # {}

\* robots_verdict of a file that was read: the longest rule that matches decides,
\* an allowing one before a refusing one of its length.
RobotsVerdict(lines, target) ==
    LET matching == {r \in Range(RobotsRules(lines)) : PatternMatches(r.pattern, target)}
        longest == {r \in matching : \A q \in matching : Len(q.pattern) <= Len(r.pattern)}
    IN  IF matching = {} \/ \E r \in longest : r.allow THEN "allowed" ELSE "refused"

-----------------------------------------------------------------------------
EvidenceInit ==
    /\ asked \in {[kind |-> "quotas", counts |-> c] : c \in SourceCounts}
              \cup {[kind |-> "page", text |-> t] : t \in PageTexts}
              \cup {[kind |-> "match", pattern |-> p, target |-> t] : p \in Patterns, t \in Targets}
              \cup {[kind |-> "robots", lines |-> f, target |-> t] : f \in RobotsFiles, t \in Targets}
    /\ shown = Unread

Answer(kind, value) ==
    asked.kind = kind /\ shown = Unread /\ shown' = <<value>> /\ UNCHANGED asked

ListSources == Answer("quotas", SourceQuotas(asked.counts))
ShowPage == Answer("page", Shown(asked.text))
MatchPattern == Answer("match", PatternMatches(asked.pattern, asked.target))
ReadRobots == Answer("robots", RobotsVerdict(asked.lines, asked.target))

EvidenceNext == ListSources \/ ShowPage \/ MatchPattern \/ ReadRobots

-----------------------------------------------------------------------------
(* evaluation.py:1833: the lines are used up or every source is listed, and *)
(* no answer is listed with two more than one that still has some.          *)
QuotasAreFair ==
    asked.kind = "quotas" /\ shown # Unread =>
        LET q == shown[1]
        IN  /\ Sum(q) = Min({MaxLines, Sum(asked.counts)})
            /\ \A i, j \in DOMAIN q :
                q[i] <= asked.counts[i] /\ (q[j] < asked.counts[j] => q[i] <= q[j] + 1)

(* evaluation.py:1966, 1990 and 2017: a page's passages hold every word of  *)
(* it, in order, none twice and none longer than allowed; those shown, with *)
(* what stands between them, are as long as was counted while they were     *)
(* picked in another order, and fit; and the best one is among them.        *)
ShownLength(spans, kept) ==
    LET order == SetToSortSeq(kept, <)
    IN  Sum([k \in DOMAIN order |-> Length(spans[order[k]])
                + (IF k = 1 THEN 0 ELSE JoinCost(spans, order[k - 1], order[k]))])
PassagesAreThePages ==
    asked.kind = "page" /\ shown # Unread /\ ~shown[1].whole =>
        LET t == asked.text
            spans == shown[1].spans
            best == {i \in DOMAIN spans : \A j \in DOMAIN spans :
                        Score(t, spans[j]) <= Score(t, spans[i])}
        IN  /\ \A i \in DOMAIN t : ~Space(t[i]) =>
                Cardinality({k \in DOMAIN spans : i \in spans[k].from .. spans[k].to}) = 1
            /\ \A k \in DOMAIN spans :
                /\ Length(spans[k]) \in 1 .. PassageChars
                /\ k > 1 => spans[k - 1].to < spans[k].from
            /\ ShownLength(spans, shown[1].kept) = shown[1].used /\ shown[1].used <= PageChars
            /\ spans # <<>> => Min(best) \in shown[1].kept

(* source_fetcher.py:1155: piece by piece from the left is enough: the      *)
(* pattern matches exactly if its characters can be laid along the target,  *)
(* each wildcard over any stretch of it.                                    *)
Laid(pattern, target) ==
    LET anchored == pattern # <<>> /\ Last(pattern) = "$"
        bare == IF anchored THEN Front(pattern) ELSE pattern
        ends == [0 .. Len(bare) -> 0 .. Len(target)]
    IN  \E e \in ends :
            /\ e[0] = 0 /\ (anchored => e[Len(bare)] = Len(target))
            /\ \A i \in DOMAIN bare :
                IF bare[i] = "*" THEN e[i] >= e[i - 1]
                ELSE e[i] = e[i - 1] + 1 /\ target[e[i]] = bare[i]

(* source_fetcher.py:1114 and 1190: an address is refused exactly when, of  *)
(* the rules under a heading that names this reader - or, if no heading     *)
(* does, everyone - the longest that match it all refuse.                   *)
Heading(lines, i) ==
    LET rules(j, k) == \E x \in (j + 1) .. (k - 1) : lines[x].key # "agent"
    IN  {lines[j].value : j \in {j \in 1 .. (i - 1) :
            /\ lines[j].key = "agent"
            /\ \A k \in (j + 1) .. (i - 1) : lines[k].key = "agent" => ~rules(j, k)}}
RefusedBy(lines, target) ==
    LET named == \E i \in DOMAIN lines : lines[i].key = "agent" /\ lines[i].value = "own"
        reader == IF named THEN "own" ELSE "*"
        rules == {i \in DOMAIN lines : /\ lines[i].key # "agent" /\ lines[i].value # <<>>
                                       /\ reader \in Heading(lines, i)
                                       /\ Laid(lines[i].value, target)}
    IN  \E i \in rules : /\ lines[i].key = "disallow"
                         /\ \A j \in rules : \/ Len(lines[j].value) < Len(lines[i].value)
                                             \/ /\ Len(lines[j].value) = Len(lines[i].value)
                                                /\ lines[j].key = "disallow"

RobotsAreObeyed ==
    shown # Unread =>
        /\ asked.kind = "match" => shown[1] = Laid(asked.pattern, asked.target)
        /\ asked.kind = "robots" => (shown[1] = "refused" <=> RefusedBy(asked.lines, asked.target))
=============================================================================
