---------------------------- MODULE MCSafeguards ----------------------------
(***************************************************************************)
(* Small instances of what is made of a run's answers - the deliberation,  *)
(* the pages fetched for the judge, the evidence it is given, the trust a  *)
(* run earns - and of the page it is asked and watched from: its tabs, its *)
(* composer, its view of runs.  They share no state: each behaviour        *)
(* exercises one of them and the others rest.                              *)
(***************************************************************************)
EXTENDS Integers, Sequences, FiniteSets, TLC

VARIABLES
    part,               \* what this behaviour exercises
    answers, callable, peer, stopped, pc, critiques, results, rounds, timedOut, recorded,
    sections, synthesis, texts, paid, usages,
    owner, issued, counter, gens, switches, messages, open, tab, tabPc, number, answer,
    form, view, generation, submitting, creating, inFlight, running, estimate, priced,
    required, ticked, retry, restoring, tasks, quotes, active, started, ticks,
    server, scope, currentRun, shownRunning, polling, shownView, lastResult, drawn,
    shownRestoring, shownCreating, card, calls, stops, trail,
    subject, finding,
    sources, now, at, phase, target, fired, waited, response, body, robots, rows, slot, wall

-----------------------------------------------------------------------------
(* A panel of three: whose answers are live, what a critic's or moderator's    *)
(* reply may say, and how the answers' texts may compare.                      *)
ThreeAnswers == {
    <<"live", "live", "live">>, <<"live", "live", "simulated">>, <<"live", "live", "failed">>,
    <<"live", "simulated", "failed">>, <<"simulated", "simulated", "failed">>}
Says(one, two, three) == <<[slot |-> 1, group |-> one], [slot |-> 2, group |-> two],
                           [slot |-> 3, group |-> three]>>
Prose(stance, converges) == [kind |-> "prose", positions |-> stance, converges |-> converges]
SomeReplies == {
    [kind |-> "silent", positions |-> <<>>, converges |-> FALSE],
    [kind |-> "unusable", positions |-> <<>>, converges |-> FALSE],
    Prose(<<>>, TRUE), Prose(Says("a", "a", "a"), FALSE), Prose(Says("a", "b", "b"), FALSE),
    Prose(Says("b", "b", ""), FALSE),
    Prose(<<[slot |-> 1, group |-> "a"], [slot |-> 1, group |-> "a"]>>, FALSE)}
SomeTexts == {
    [similar |-> {}, side |-> <<"yes", "no", "none">>, reflected |-> {1, 2}],
    [similar |-> {{1, 2}, {2, 3}, {1, 3}}, side |-> <<"none", "none", "none">>, reflected |-> {}],
    [similar |-> {{1, 2}}, side |-> <<"none", "none", "none">>, reflected |-> {1, 2, 3}]}

Panel == INSTANCE Deliberation WITH
    Slots <- {1, 2, 3}, Panels <- ThreeAnswers, Replies <- SomeReplies, Texts <- SomeTexts,
    Sections <- {"consensus", "recommendation"}

\* Two tabs; the first one's page retries, or is loaded again.
TabsOf == INSTANCE TabTokens WITH
    Tabs <- {"a", "b"}, Renewals <- {"a1", "a2", "b1"},
    TabOf <- [a1 |-> "a", a2 |-> "a", b1 |-> "b"], People <- {"anonymous", "ann"},
    MaxSwitches <- 1, MaxClears <- 1, pc <- tabPc

Ask == INSTANCE Composer WITH
    Questions <- {"risky", "followup"}, HighStakes <- {"risky"},
    FollowUps <- {"followup"}, Bare <- [followup |-> "risky"],
    MaxDrops <- 1, MaxQuotes <- 2, MaxRuns <- 2, MaxTasks <- 2, MaxTicks <- 2

Page == INSTANCE RunView WITH
    Runs <- {"r1", "r2"}, Showable <- {"r1"}, MaxScopes <- 3, MaxPolls <- 2, MaxStops <- 1,
    running <- shownRunning, view <- shownView, restoring <- shownRestoring,
    creating <- shownCreating

-----------------------------------------------------------------------------
(* Texts to read: every short sequence of tokens, and longer ones of brackets  *)
(* and links, so that links nest.                                              *)
Text(tokens, opening) ==
    [tokens |-> tokens, opening |-> opening, visible |-> tokens # <<>>, long |-> FALSE]
SeqsUpTo(S, n) == UNION {[1 .. k -> S] : k \in 0 .. n}
NumbersApart(t) == \A i \in 1 .. (Len(t) - 1) : t[i] # "1" \/ t[i + 1] # "1"
TextsToScan ==
    {Text(t, <<>>) : t \in {t \in SeqsUpTo({"[", "]", "(web)", "()", "1", "code"}, 4) : NumbersApart(t)}
                        \cup {t \in [1 .. 7 -> {"[", "]", "(web)"}] : t[1] = "[" /\ t[7] # "["}}

Source(url, placeholder, fallback) ==
    [url |-> url, placeholder |-> placeholder, fallback |-> fallback]
SourceLists ==
    LET web == Source("(web)", FALSE, FALSE) found == Source("(found)", FALSE, TRUE)
    IN  {<<web>>, <<found, web>>, <<Source("(sham)", TRUE, FALSE)>>}
Cites(d) == <<"[", d, "]">>
Links(u) == <<"[", "word", "]", u>>
TooLong == [Text(Cites("1"), <<"refusal">>) EXCEPT !.long = TRUE]
SomeAnswers ==
    [live : BOOLEAN, completed : {TRUE}, sources : SourceLists,
     text : {Text(<<"word">>, <<"plain">>), Text(Cites("1,2"), <<"blank", "sorry", "refusal">>),
             Text(Links("(web)"), <<"sorry refusal">>), TooLong}]
OtherAnswers ==
    [live : {TRUE}, completed : {TRUE}, sources : SourceLists,
     text : {Text(Cites("1"), <<"sorry", "plain">>),
             Text(Links("(sham)") \o Cites("2"), <<"plain", "refusal">>)}]
    \cup {[live |-> FALSE, completed |-> FALSE, sources |-> <<>>, text |-> Text(<<>>, <<>>)]}
Synthesised(text, preserved, uncertain) ==
    <<[texts |-> <<text>>, preserved |-> preserved, framing |-> TRUE, uncertain |-> uncertain]>>
Syntheses == {<<>>, Synthesised(Text(Cites("1"), <<>>), FALSE, TRUE),
              Synthesised(Text(<<"word">>, <<>>), TRUE, FALSE)}
Judge(verifies) ==
    <<[verifies |-> verifies,
       verdict |-> <<[faithfulness |-> 1, grounding |-> 1, risk |-> "low"]>>]>>
RunsToTrust ==
    [answers : SomeAnswers \X OtherAnswers, synthesis : Syntheses, polar : BOOLEAN,
     requested : {2}, judge : {Judge(FALSE)}]
    \cup [answers : {<<a>> : a \in SomeAnswers}, synthesis : {<<>>}, polar : {FALSE},
          requested : {1}, judge : {<<>>, Judge(TRUE)}]
NumbersIn == [d \in {"1", "2", "1,2"} |->
                CASE d = "1" -> <<1>> [] d = "2" -> <<2>> [] OTHER -> <<1, 2>>]
Earned == INSTANCE Trust WITH
    Unit <- 300, Urls <- {"(web)", "(found)", "(sham)", "(invented)"},
    Positions <- NumbersIn @@ [d \in {"9"} |-> <<9>>], Scanned <- TextsToScan, Evaluated <- RunsToTrust,
    Invented <- "(invented)", asked <- subject, shown <- finding

(* Evidence: pages of seven characters, of which five are shown.               *)
Rules(key, value) == [key |-> key, value |-> value]
RobotsLines == {Rules("agent", w) : w \in {"own", "*", "other"}}
    \cup {Rules("disallow", <<>>), Rules("disallow", <<"a">>), Rules("allow", <<"a">>),
          Rules("allow", <<"a", "b">>)}
RobotsPatterns ==
    {p \in SeqsUpTo({"a", "b", "*", "$"}, 3) : \A i \in 1 .. (Len(p) - 1) : p[i] # "$"}
Given == INSTANCE Evidence WITH
    MaxLines <- 4, PassageChars <- 3, SeparatorChars <- 2, PageChars <- 5,
    SourceCounts <- [1 .. 3 -> 0 .. 5] \cup [1 .. 2 -> 0 .. 5],
    PageTexts <- [1 .. 7 -> {"x", "k", " ", "\n"}],
    RobotsFiles <- SeqsUpTo(RobotsLines, 4), Patterns <- RobotsPatterns,
    Targets <- {<<"a">>, <<"a", "b">>, <<"a", "b", "a">>, <<"a", "a", "b">>},
    asked <- subject, shown <- finding

(* Fetching: two sites, two pages of one of them, an address that is no page's. *)
Cite(address, excerpt) == [address |-> address, excerpt |-> excerpt]
CitedLists ==
    {<<Cite("a1", ""), Cite("a2", "text"), Cite("a1", "text")>>,
     <<Cite("a1", "blank"), Cite("a1", ""), Cite("b1", "text")>>,
     <<Cite("ftp", "text"), Cite("b1", ""), Cite("a1", "text")>>}
Fetch == INSTANCE SourcePages WITH
    Citations <- CitedLists, HostOf <- [a1 |-> "a", a2 |-> "a", b1 |-> "b", ftp |-> "b"],
    FormOf <- [a1 |-> "good", a2 |-> "good", b1 |-> "good", ftp |-> "refused_scheme"],
    Budget <- 2, PerRecv <- 1, PdfWall <- 1, Cap <- 1, MaxPages <- 2, MaxPagesPerHost <- 1

ASSUME PageInstance ==
    /\ TabsOf!TabAssumption /\ Page!ViewAssumption /\ Ask!ComposerAssumption
    /\ Fetch!FetchAssumption
-----------------------------------------------------------------------------
panelVars == <<answers, callable, peer, stopped, pc, critiques, results, rounds, timedOut,
               recorded, sections, synthesis, texts, paid, usages>>
tabVars == <<owner, issued, counter, gens, switches, messages, open, tab, tabPc, number, answer>>
askVars == <<form, view, generation, submitting, creating, inFlight, running, estimate, priced,
             required, ticked, retry, restoring, tasks, quotes, active, started, ticks>>
pageVars == <<server, scope, currentRun, shownRunning, polling, shownView, lastResult, drawn,
              shownRestoring, shownCreating, card, calls, stops, trail>>
readVars == <<subject, finding>>
fetchVars == <<sources, now, at, phase, target, fired, waited, response, body, robots, rows,
               slot, wall>>

\* What rests has no state to speak of.
PanelRests ==
    /\ answers = 0 /\ callable = 0 /\ peer = 0 /\ stopped = 0 /\ pc = 0 /\ critiques = 0
    /\ results = 0 /\ rounds = 0 /\ timedOut = 0 /\ recorded = 0 /\ sections = 0
    /\ synthesis = 0 /\ texts = 0 /\ paid = 0 /\ usages = 0
TabsRest ==
    /\ owner = 0 /\ issued = 0 /\ counter = 0 /\ gens = 0 /\ switches = 0 /\ messages = 0
    /\ open = 0 /\ tab = 0 /\ tabPc = 0 /\ number = 0 /\ answer = 0
AskRests ==
    /\ form = 0 /\ view = 0 /\ generation = 0 /\ submitting = 0 /\ creating = 0
    /\ inFlight = 0 /\ running = 0 /\ estimate = 0 /\ priced = 0 /\ required = 0
    /\ ticked = 0 /\ retry = 0 /\ restoring = 0 /\ tasks = 0 /\ quotes = 0 /\ active = 0
    /\ started = 0 /\ ticks = 0
PageRests ==
    /\ server = 0 /\ scope = 0 /\ currentRun = 0 /\ shownRunning = 0 /\ polling = 0
    /\ shownView = 0 /\ lastResult = 0 /\ drawn = 0 /\ shownRestoring = 0
    /\ shownCreating = 0 /\ card = 0 /\ calls = 0 /\ stops = 0 /\ trail = 0
FetchRests ==
    /\ sources = 0 /\ now = 0 /\ at = 0 /\ phase = 0 /\ target = 0 /\ fired = 0 /\ waited = 0
    /\ response = 0 /\ body = 0 /\ robots = 0 /\ rows = 0 /\ slot = 0 /\ wall = 0

SafeguardsInit ==
    /\ part \in {"panel", "tabs", "ask", "page", "trust", "evidence", "fetch"}
    /\ IF part = "panel" THEN Panel!Init ELSE PanelRests
    /\ IF part = "tabs" THEN TabsOf!Init /\ owner = "anonymous" ELSE TabsRest
    /\ IF part = "ask" THEN Ask!Init ELSE AskRests
    /\ IF part = "page" THEN Page!Init ELSE PageRests
    /\ CASE part = "trust" -> Earned!TrustInit [] part = "evidence" -> Given!EvidenceInit
         [] OTHER -> subject = 0 /\ finding = 0
    /\ IF part = "fetch" THEN Fetch!FetchInit ELSE FetchRests

PanelPart ==
    /\ part = "panel" /\ Panel!Next
    /\ UNCHANGED <<part, tabVars, askVars, pageVars, readVars, fetchVars>>
TabsPart ==
    /\ part = "tabs" /\ TabsOf!TabNext
    /\ UNCHANGED <<part, panelVars, askVars, pageVars, readVars, fetchVars>>
AskPart ==
    /\ part = "ask" /\ Ask!ComposerNext
    /\ UNCHANGED <<part, panelVars, tabVars, pageVars, readVars, fetchVars>>
PagePart ==
    /\ part = "page" /\ Page!ViewNext
    /\ UNCHANGED <<part, panelVars, tabVars, askVars, readVars, fetchVars>>
TrustPart ==
    /\ part = "trust" /\ Earned!TrustNext
    /\ UNCHANGED <<part, panelVars, tabVars, askVars, pageVars, fetchVars>>
EvidencePart ==
    /\ part = "evidence" /\ Given!EvidenceNext
    /\ UNCHANGED <<part, panelVars, tabVars, askVars, pageVars, fetchVars>>
FetchPart ==
    /\ part = "fetch" /\ Fetch!FetchNext
    /\ UNCHANGED <<part, panelVars, tabVars, askVars, pageVars, readVars>>
SafeguardsNext == PanelPart \/ TabsPart \/ AskPart \/ PagePart \/ TrustPart \/ EvidencePart
                  \/ FetchPart

SafeguardsSpec ==
    SafeguardsInit /\ [][SafeguardsNext]_<<part, panelVars, tabVars, askVars, pageVars, readVars, fetchVars>>
-----------------------------------------------------------------------------
(* Deliberation: a round's stance is its majority's, what the run says of its  *)
(* panel's agreement is consistent with it, and whatever is stopped, every     *)
(* result of a round is reported.                                              *)
PanelIsReadAsItSpoke ==
    part = "panel" =>
        /\ Panel!StanceIsTheMajoritys /\ Panel!AgreementIsConsistent
        /\ Panel!EveryResultIsReported

(* TabTokens.NewestTokenWins and NoTokenOfAnother: tabs that share hold the    *)
(* newest token they were told of, and a page never another person's.          *)
TabsHoldTheirToken ==
    /\ [](part = "tabs" => TabsOf!TabsAgree /\ TabsOf!NoTokenOfAnother)
    /\ [][part = "tabs" => TabsOf!NeverBack]_tabVars

(* Composer.RunIsTheOnePriced, EachRiskyRunTookItsTick and ControlsComeBack: a *)
(* run is created only from a question as it was priced, with its warning      *)
(* ticked for it, and no button stays busy, whichever call ended last.         *)
ComposerKeepsItsWord ==
    part = "ask" =>
        Ask!RunIsTheOnePriced /\ Ask!EachRiskyRunTookItsTick /\ Ask!ControlsComeBack

(* RunView.OneRunOnScreen: what the page draws, polls and holds is one run's.  *)
OneRunOnScreen == part = "page" => Page!OneRunOnScreen

(* Trust.MarkersAreTheReaders and FabricationNeverPays: the scan finds the     *)
(* markers a reader sees, and to cite what is not there never pays.            *)
TrustIsEarned == part = "trust" => Earned!MarkersAreTheReaders /\ Earned!FabricationNeverPays

(* Evidence.QuotasAreFair, PassagesAreThePages and RobotsAreObeyed: every      *)
(* answer gets its share of the lines, a page's passages are the page's and    *)
(* fit, and a robots.txt is read as its author would.                          *)
EvidenceIsFair ==
    part = "evidence" =>
        Given!QuotasAreFair /\ Given!PassagesAreThePages /\ Given!RobotsAreObeyed

(* SourcePages: a page counts as read only as its site allows, and to its end  *)
(* unless it is marked as cut; what ends a page is never the watchdog.  All is *)
(* over at the deadline, and the listing adds up.                              *)
PagesAreReadAsAllowed ==
    part = "fetch" =>
        Fetch!PagesAreReadAsAllowed /\ Fetch!FetchIsOverInTime /\ Fetch!ListingIsConsistent
=============================================================================
