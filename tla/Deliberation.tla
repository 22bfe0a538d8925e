---------------------------- MODULE Deliberation ----------------------------
(***************************************************************************)
(* What a run makes of its answers: two rounds of critique, five sections  *)
(* of synthesis written at once, and what it then says of the panel's      *)
(* agreement (debate.py, synthesis.py, synthesis_consensus.py).  A cancel  *)
(* or the deadline may fall between any two calls.                         *)
(***************************************************************************)
EXTENDS Naturals, Sequences, FiniteSets

CONSTANTS
    Slots,      \* the slot numbers of the panel
    Panels,     \* what the answers stage may leave: each slot's answer
    Replies,    \* what a call of a critique round may bring back
    Texts,      \* how the answers' texts may compare, and with the final text
    Sections    \* the sections of the synthesis

VARIABLES
    answers,    \* the recorded initial answers
    callable,   \* live execution is on, with a key and the stage's model ids
    peer,       \* settings.peer_critique_enabled
    stopped,    \* what should_stop answers: the run is terminal or out of time
    pc,         \* where the worker is
    critiques,  \* the critiques of the round in progress, by critic slot
    results,    \* the calls of this round that brought a result
    rounds,     \* DebateResult.debate_outputs
    timedOut,   \* DebateResult.timed_out
    recorded,   \* the repository holds the debate's outputs
    sections,   \* each section of the synthesis
    synthesis,  \* the recorded synthesis' mode
    texts,      \* how the answers' texts compare
    paid,       \* calls that brought a result, of both stages
    usages      \* usages the two stages reported

vars == <<answers, callable, peer, stopped, pc, critiques, results, rounds, timedOut,
          recorded, sections, synthesis, texts, paid, usages>>

\* DebateResult
debateResult == <<rounds, timedOut, usages>>

NoStance == <<>>
NoSynthesis == "none"
Silent == [kind |-> "silent", positions |-> <<>>, converges |-> FALSE]

Completed(s) == answers[s] # "failed"

\* counts_as_evidence: a slot whose model was asked and finished.
Scored == {s \in Slots : answers[s] = "live"}

\* _eligible_critics: every model that answered, in slot order.
Critics == {s \in Slots : Completed(s) /\ answers[s] # "simulated"}

Round == Len(rounds) + 1
Range(f) == {f[x] : x \in DOMAIN f}
----------------------------------------------------------------------------
(* What a reply says.                                                       *)

\* parse_moderator_output: the positions, unless a slot is named twice.
Parsed(r) ==
    IF Cardinality({p.slot : p \in Range(r.positions)}) = Len(r.positions)
    THEN r.positions
    ELSE NoStance

\* SlotCritique: templated, without a stance, unless told otherwise.
SlotCritique(live, stance, converges) ==
    [live |-> live, stance |-> stance, converges |-> converges]

\* _critique_from_reply: a reply without prose is replaced by a notice.
CritiqueFrom(r) ==
    IF r.kind = "prose"
    THEN SlotCritique(TRUE, Parsed(r), r.converges)
    ELSE SlotCritique(FALSE, NoStance, FALSE)

\* A critic's votes on slot s for a label, over the live critiques.
Votes(s, l) ==
    Cardinality({<<c, i>> \in (DOMAIN critiques) \X (1 .. Cardinality(Slots) + 1) :
        /\ critiques[c].live
        /\ i \in DOMAIN critiques[c].stance
        /\ critiques[c].stance[i].slot = s /\ critiques[c].stance[i].group = l})

LabelsSaid ==
    UNION {{p.group : p \in Range(critiques[c].stance)} : c \in DOMAIN critiques}

\* Mutant: the majority of those who answered, not of those who were asked.
ThresholdOfAnswers(eligible) == Cardinality({c \in DOMAIN critiques : critiques[c].live}) \div 2 + 1

Threshold(eligible) == eligible \div 2 + 1

\* _derive_peer_stance: each slot's label with the votes of a strict majority
\* of the eligible critics; a slot without one, or labelled with nothing, is
\* left out.
PeerStance ==
    LET Wins(s, l) == /\ l # "" /\ Votes(s, l) >= Threshold(Cardinality(Critics))
                      /\ \A m \in LabelsSaid \ {l} : Votes(s, m) < Votes(s, l)
    IN { [slot |-> s, group |-> l] : <<s, l>> \in {x \in Slots \X LabelsSaid : Wins(x[1], x[2])} }

\* _peer_round_signals_convergence, by the same majority.
PeerConverges ==
    /\ Critics # {}
    /\ Cardinality({c \in DOMAIN critiques : critiques[c].live /\ critiques[c].converges})
         >= Cardinality(Critics) \div 2 + 1

\* One round as it is recorded: the stance is a set of positions.
DebateOutput(shape, live, stance, converges) ==
    [shape |-> shape, live |-> live, stance |-> stance, converges |-> converges]

PeerOutput ==
    DebateOutput("peer", \A c \in DOMAIN critiques : critiques[c].live,
                 PeerStance, PeerConverges)

ModeratorOutput(c) ==
    DebateOutput("moderator", c.live, Range(c.stance), c.live /\ c.converges)
----------------------------------------------------------------------------
(* The rounds of critique (run_debate_rounds).                              *)

Init ==
    /\ answers \in Panels
    /\ \E s \in Slots : Completed(s)
    /\ callable \in BOOLEAN /\ peer \in BOOLEAN
    /\ ~callable => Scored = {}
    /\ stopped = FALSE
    /\ pc = "round" /\ critiques = <<>> /\ results = 0 /\ rounds = <<>>
    /\ timedOut = FALSE /\ recorded = FALSE
    /\ sections = [s \in Sections |-> "queued"] /\ synthesis = NoSynthesis
    /\ texts \in Texts
    /\ paid = 0 /\ usages = 0

\* The run is cancelled or its deadline passes.
Stop ==
    /\ ~stopped /\ pc # "ended"
    /\ stopped' = TRUE
    /\ UNCHANGED <<answers, callable, peer, pc, critiques, results, rounds, timedOut,
                   recorded, sections, synthesis, texts, paid, usages>>

\* _call_debate_model: no call without a key, or after the stop.
Returned == IF callable /\ ~stopped THEN Replies ELSE {Silent}
Brings(r) == IF r.kind = "silent" THEN 0 ELSE 1

Debates(there) ==
    /\ pc' = there
    /\ UNCHANGED <<answers, callable, peer, stopped, recorded, sections, synthesis, texts>>

\* _build_peer_round, when critics are to be asked.
StartRound ==
    /\ pc = "round"
    /\ Debates(IF peer /\ Critics # {} THEN "critics" ELSE "moderator")
    /\ UNCHANGED <<critiques, results, debateResult, paid>>

Unheard == Critics \ DOMAIN critiques

\* The loop's own look at should_stop comes before each critic.
NextCritic ==
    /\ pc = "critics" /\ Unheard # {} /\ ~stopped
    /\ Debates("calling")
    /\ UNCHANGED <<critiques, results, debateResult, paid>>

\* Mutant: a result that made no critique is not counted.
CountIfUsable(r) == results + (IF r.kind = "prose" THEN 1 ELSE 0)

CountResult(r) == results + Brings(r)

AskCritic ==
    /\ pc = "calling"
    /\ \E r \in Returned, c \in Unheard :
        /\ \A d \in Unheard : c <= d
        /\ critiques' = [x \in DOMAIN critiques \cup {c} |->
                            IF x = c THEN CritiqueFrom(r) ELSE critiques[x]]
        /\ results' = CountResult(r)
        /\ paid' = paid + Brings(r)
    /\ Debates("critics")
    /\ UNCHANGED <<rounds, timedOut, usages>>

AfterRound == IF Round = 1 THEN "between" ELSE "debated"

\* The critics were heard, or the stop came after the first of them.
ClosePeerRound ==
    /\ pc = "critics" /\ (Unheard = {} \/ stopped) /\ DOMAIN critiques # {}
    /\ rounds' = Append(rounds, PeerOutput)
    /\ usages' = usages + results /\ results' = 0
    /\ Debates(AfterRound)
    /\ UNCHANGED <<critiques, timedOut, paid>>

\* No critic was heard before the stop: the moderator's path takes over.
NoCriticHeard ==
    /\ pc = "critics" /\ stopped /\ DOMAIN critiques = {}
    /\ Debates("moderator")
    /\ UNCHANGED <<critiques, results, debateResult, paid>>

\* _build_round_one_text, _build_round_two_text: one call, one stance.
AskModerator ==
    /\ pc = "moderator"
    /\ \E r \in Returned :
        /\ rounds' = Append(rounds, ModeratorOutput(CritiqueFrom(r)))
        /\ paid' = paid + Brings(r) /\ usages' = usages + Brings(r)
    /\ Debates(AfterRound)
    /\ UNCHANGED <<critiques, results, timedOut>>

\* _should_skip_round_two: round 1 took longer than the stage may.
SkipRoundTwo ==
    /\ pc = "between"
    /\ timedOut' = TRUE
    /\ Debates("debated")
    /\ UNCHANGED <<critiques, results, rounds, paid, usages>>

StartRoundTwo ==
    /\ pc = "between"
    /\ critiques' = <<>>
    /\ Debates("round")
    /\ UNCHANGED <<results, rounds, timedOut, paid, usages>>

\* The pipeline records the outputs, unless a stopped run paid for none.
RecordDebate ==
    /\ pc = "debated"
    /\ recorded' = ~(stopped /\ usages = 0)
    /\ pc' = IF recorded' /\ ~timedOut THEN "recorded" ELSE "ended"
    /\ critiques' = <<>>
    /\ UNCHANGED <<answers, callable, peer, stopped, results, rounds, timedOut,
                   sections, synthesis, texts, paid, usages>>
----------------------------------------------------------------------------
(* The sections of the synthesis (produce_final_synthesis).                 *)

Synthesises(there) ==
    /\ pc' = there
    /\ UNCHANGED <<answers, callable, peer, stopped, critiques, results, rounds, timedOut,
                   recorded, texts>>

StartSynthesis ==
    /\ pc = "recorded" /\ ~stopped
    /\ Synthesises("sections")
    /\ UNCHANGED <<sections, synthesis, paid, usages>>

\* The run was stopped, or has no time left for the stage.
LeaveWithoutSynthesis ==
    /\ pc = "recorded"
    /\ Synthesises("ended")
    /\ UNCHANGED <<sections, synthesis, paid, usages>>

\* A thread of the pool takes up a section: _call_synthesis_model asks
\* should_stop first, and the builder may raise before the call.
TakeSection(s) ==
    /\ pc = "sections" /\ sections[s] = "queued"
    /\ \E o \in {"raised", IF callable /\ ~stopped THEN "calling" ELSE "templated"} :
        sections' = [sections EXCEPT ![s] = o]
    /\ Synthesises("sections")
    /\ UNCHANGED <<synthesis, paid, usages>>

\* The call returns nothing, a result nobody can read, or a text.
SectionReturns(s) ==
    /\ pc = "sections" /\ sections[s] = "calling"
    /\ \E o \in {"templated", "unseen", "written"} :
        /\ sections' = [sections EXCEPT ![s] = o]
        /\ paid' = paid + (IF o = "templated" THEN 0 ELSE 1)
    /\ Synthesises("sections")
    /\ UNCHANGED <<synthesis, usages>>

SectionsIn(states) == {s \in Sections : sections[s] \in states}

\* Mutant: one section a model wrote makes the synthesis live.
ModeIfAnyWritten ==
    IF SectionsIn({"written"}) # {} THEN "live" ELSE "simulated"

\* synthesis_mode: live only when a model wrote every section.
SynthesisMode ==
    CASE SectionsIn({"written"}) = Sections -> "live"
      [] SectionsIn({"written"}) = {}       -> "simulated"
      [] OTHER                              -> "fallback"

\* The sections are collected in order, each whether it raised or not; the
\* pipeline records the synthesis unless a stopped run paid for none.
CollectSections ==
    LET seen == SectionsIn({"unseen", "written"})
    IN /\ pc = "sections" /\ SectionsIn({"queued", "calling"}) = {}
       /\ usages' = usages + Cardinality(seen)
       /\ synthesis' = IF stopped /\ seen = {} THEN NoSynthesis ELSE SynthesisMode
       /\ Synthesises("ended")
       /\ UNCHANGED <<sections, paid>>
----------------------------------------------------------------------------
(* What the run says of its panel, from what the repository holds.          *)

Outputs == IF recorded THEN rounds ELSE <<>>

\* _stance_is_admissible: a peer round speaks by majority, also when one of
\* its critics did not; a moderator only live.
Admissible(i) ==
    Outputs[i].stance # {} /\ (Outputs[i].shape = "peer" \/ Outputs[i].live)

\* _usable_stance: of the latest round that has one, for every scored slot.
UsableStance ==
    LET able == {i \in DOMAIN Outputs : Admissible(i)}
        latest == CHOOSE i \in able : \A j \in able : j <= i
        stance == Outputs[latest].stance
    IN IF \/ able = {} \/ Scored = {}
          \/ \E p \in stance : p.group = ""
          \/ ~(Scored \subseteq {p.slot : p \in stance})
       THEN NoStance
       ELSE [s \in Scored |-> (CHOOSE p \in stance : p.slot = s).group]

Grouped(stance, l) == {s \in DOMAIN stance : stance[s] = l}
Largest(stance) ==
    {l \in Range(stance) : \A m \in Range(stance) :
        Cardinality(Grouped(stance, m)) <= Cardinality(Grouped(stance, l))}

\* panel_agreement
PanelAgreement ==
    LET stance == UsableStance
    IN CASE Cardinality(DOMAIN stance) < 2     -> "undetermined"
         [] Cardinality(Range(stance)) = 1     -> "agreed"
         [] OTHER                              -> "split"

\* _has_strong_overlap: three answers, each similar to the other two.
SimilarTriangle ==
    \E a, b, c \in Scored :
        Cardinality({a, b, c}) = 3 /\ {{a, b}, {b, c}, {a, c}} \subseteq texts.similar

\* _debate_signals_convergence
DebateConverges ==
    \E i \in DOMAIN Outputs :
        Outputs[i].converges /\ (Outputs[i].shape = "peer" \/ Outputs[i].live)

\* _polar_split: the answers fall on both sides of one polar pair.
Side(x) == {s \in Scored : texts.side[s] = x}
Polar == Side("yes") # {} /\ Side("no") # {}
PolarMajority ==
    CASE Cardinality(Side("yes")) > Cardinality(Side("no")) -> Side("yes")
      [] Cardinality(Side("no")) > Cardinality(Side("yes")) -> Side("no")
      [] OTHER -> {}

\* _required_cluster: more than half of the scored answers in one group.
StrongStance(stance) ==
    \E l \in Range(stance) :
        Cardinality(Grouped(stance, l)) >= Cardinality(DOMAIN stance) \div 2 + 1

\* compute_consensus_strength
ConsensusStrength ==
    CASE Scored = {} -> "divided"
      [] Cardinality(Scored) = 1 -> "weak"
      [] Cardinality(Scored) > 1 /\ UsableStance # NoStance ->
            IF StrongStance(UsableStance) THEN "strong" ELSE "divided"
      [] OTHER ->
            CASE SimilarTriangle \/ DebateConverges -> "strong"
              [] Polar -> "divided"
              [] OTHER -> "weak"

\* _stance_majority_flags, _opening_majority_flags: who began with the most.
OpeningMajority ==
    CASE UsableStance # NoStance ->
            IF Cardinality(Largest(UsableStance)) = 1
            THEN {s \in Scored : UsableStance[s] \in Largest(UsableStance)}
            ELSE {}
      [] UsableStance = NoStance /\ Cardinality(Scored) < 2 -> Scored
      [] OTHER ->
            IF Polar THEN PolarMajority
            ELSE {s \in Scored : \E t \in Scored \ {s} : {s, t} \in texts.similar}

\* Mutant: a synthesis some section of which a model wrote.
PartlyWritten == synthesis \in {"live", "fallback"}

\* _final_synthesis_alignment_text: a text a model wrote throughout.
FinalTextIsAModels == synthesis = "live"

\* _opening_reflected_in_final
Reflected == Scored \cap texts.reflected

\* classify_model_alignment: whoever began outside the majority ends in it only
\* when a final text a model wrote reflects its opening.
FinalAligned ==
    OpeningMajority \cup
        (IF UsableStance = NoStance /\ FinalTextIsAModels
         THEN Reflected
         ELSE {})

\* ModelAlignment.state
AlignmentState(s) ==
    CASE ~Completed(s) -> "no_answer"
      [] Completed(s) /\ s \notin Scored -> "not_invoked"
      [] s \in Scored /\ s \in FinalAligned \ OpeningMajority -> "moved_to_consensus"
      [] s \in OpeningMajority -> "held_with_consensus"
      [] OTHER -> "held_minority"

\* summarize_agreement
AgreementSummary ==
    [aligned |-> Cardinality(FinalAligned), total |-> Cardinality(Slots),
     agreement |-> PanelAgreement]

\* One row of the table of how positions moved.
PositionMovement(s) ==
    [state |-> AlignmentState(s), revised |-> AlignmentState(s) = "moved_to_consensus"]

\* build_agreement_and_positions: the ring and the table, from one reading.
AgreementAndPositions ==
    [agreement |-> AgreementSummary, positions |-> [s \in Slots |-> PositionMovement(s)]]
----------------------------------------------------------------------------
Next ==
    \/ Stop \/ StartRound \/ NextCritic \/ AskCritic \/ ClosePeerRound \/ NoCriticHeard
    \/ AskModerator \/ SkipRoundTwo \/ StartRoundTwo \/ RecordDebate
    \/ StartSynthesis \/ LeaveWithoutSynthesis \/ CollectSections
    \/ \E s \in Sections : TakeSection(s) \/ SectionReturns(s)

Spec == Init /\ [][Next]_vars
----------------------------------------------------------------------------
\* A label the panel is given for a slot was given by more than half of the
\* models that were to be asked, each once, in one round: neither critics that
\* stayed silent, nor a cancel in the middle of the round, nor a reply that names
\* a slot twice turns a few votes into the panel's (_derive_peer_stance).
StanceIsTheMajoritys ==
    (pc \in {"between", "debated"} /\ rounds[Len(rounds)].shape = "peer") =>
        \A p \in rounds[Len(rounds)].stance :
            2 * Cardinality({c \in DOMAIN critiques :
                    critiques[c].live /\ p \in Range(critiques[c].stance)})
                > Cardinality(Critics)

\* The three things a run says of its panel never contradict each other: a
\* panel that agreed is strong, with every asked model counted as aligned, a
\* split one leaves someone out, by a stance it is strong exactly when more than
\* half are aligned, and a model is said to have moved only on a text that a
\* model wrote from end to end (the "one population" of counts_as_evidence).
AgreementIsConsistent ==
    pc = "ended" =>
        LET told == AgreementAndPositions
            ring == told.agreement
        IN /\ ring.agreement = "agreed" =>
                  ConsensusStrength = "strong" /\ ring.aligned = Cardinality(Scored)
           /\ ring.agreement = "split" => ring.aligned < Cardinality(Scored)
           /\ ring.agreement # "undetermined" =>
                  (ConsensusStrength = "strong" <=> 2 * ring.aligned > Cardinality(Scored))
           /\ \A s \in Slots : told.positions[s].revised =>
                  \A x \in Sections : sections[x] = "written"

\* Every call of the two stages that brought a result is reported to the run's
\* bill, whether it made a critique, a section or nothing, and wherever the stop
\* fell (live_call_usages).
EveryResultIsReported == pc = "ended" => usages = paid
=============================================================================
