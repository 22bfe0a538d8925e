---------------------------- MODULE SourcePages ----------------------------
(***************************************************************************)
(* Fetching the pages a run cites (source_fetcher.py) and listing them for *)
(* the judge (judge_source_pages in evaluation.py).  One evaluation        *)
(* fetches one address after the other against one deadline; a site may be *)
(* slow, silent, endless or gone at any point.  A watchdog thread ends a   *)
(* connection at the deadline by shutting its socket, which the reading    *)
(* thread cannot tell from the end of a body.  A PDF is read by a child    *)
(* process, one at a time for the whole server.                            *)
(***************************************************************************)
EXTENDS Integers, Sequences, FiniteSets

CONSTANTS
    Citations,          \* sequences of sources [address, excerpt] a run may list
    HostOf,             \* the host of each address; robots.txt is per host here
    FormOf,             \* "good", or why an address is refused unread
    Budget, PerRecv, PdfWall,   \* the deadlines, in ticks
    Cap,                \* chunks a body may have
    MaxPages, MaxPagesPerHost   \* pages tried in all, and of one host

VARIABLES
    sources,            \* the sources listed, in order
    now,
    at,                 \* the source that is fetched, by position among Distinct
    phase,              \* what the thread is at, or waits for
    target,             \* "page" or "robots": what it fetches
    fired,              \* the watchdog has shut the connection
    waited,             \* ticks since the socket last gave something
    response,           \* what the answer's head said
    body,               \* chunks read, and whether the site ended it itself
    robots,             \* what each host's robots.txt gave
    rows,               \* the outcomes, in order
    slot, wall          \* the PDF child's slot, and until when ours may run

FetchAssumption ==
    /\ Budget \in Nat /\ PerRecv \in Nat /\ PdfWall \in Nat /\ Cap \in Nat
    /\ MaxPages \in Nat /\ MaxPagesPerHost \in Nat
    /\ \A s \in Citations : /\ Len(s) \in Nat /\ DOMAIN s = 1 .. Len(s)
                             /\ \A i \in 1 .. Len(s) : s[i].address \in DOMAIN HostOf
    /\ \A a \in DOMAIN HostOf : FormOf[a] # "fetched"

fetchVars == <<sources, now, at, phase, target, fired, waited, response, body, robots, rows,
               slot, wall>>
connection == <<fired, waited, response, body>>
child == <<slot, wall>>

Addresses == DOMAIN HostOf
NoHead == [status |-> 0, type |-> "none", large |-> FALSE, coded |-> FALSE]
NoBody == [chunks |-> 0, more |-> TRUE, ended |-> FALSE]
Unasked == [status |-> -1, says |-> "nothing", whole |-> FALSE]

\* The addresses in the order they are first listed in.
Distinct ==
    LET first == {i \in DOMAIN sources : \A j \in 1 .. (i - 1) : sources[j].address # sources[i].address}
        Nth(n) == CHOOSE i \in first : Cardinality({j \in first : j < i}) = n - 1
    IN  [n \in 1 .. Cardinality(first) |-> sources[Nth(n)].address]

Url == Distinct[at]
Host == HostOf[Url]
Tried(set) == Cardinality({k \in set : rows[k].outcome # "skipped"})
Late == now >= Budget

-----------------------------------------------------------------------------
(* How a fetch ends.                                                        *)

\* Mutant: a robots.txt that was cut off is read as it stands.
RobotsReadingCut(outcome, says, truncated) ==
    IF outcome = "fetched" THEN [status |-> 2, says |-> says, whole |-> ~truncated]
    ELSE IF outcome \in {"http_error", "refused_redirect"}
    THEN [status |-> response.status, says |-> "nothing", whole |-> FALSE]
    ELSE [status |-> 0, says |-> "nothing", whole |-> FALSE]

\* _robots_reading: only a whole robots.txt, or the status of a refusal, counts.
RobotsReading(outcome, says, truncated) ==
    IF outcome = "fetched" /\ ~truncated
    THEN [status |-> 2, says |-> says, whole |-> TRUE]
    ELSE IF outcome \in {"http_error", "refused_redirect"}
    THEN [status |-> response.status, says |-> "nothing", whole |-> FALSE]
    ELSE [status |-> 0, says |-> "nothing", whole |-> FALSE]

\* robots_verdict; what the rules say of this address is Evidence.RobotsVerdict.
RobotsPermit(reading) ==
    IF reading.status = 4 THEN "allowed"
    ELSE IF reading.status # 2 \/ reading.says = "too large" THEN "unchecked"
    ELSE reading.says

Row(outcome, truncated) ==
    [address |-> Url, outcome |-> outcome, truncated |-> truncated, whole |-> body.ended]

\* _fetch_one returns: a page's row is kept, a robots.txt is what the page waits for.
Ends(outcome, truncated) ==
    /\ IF target = "page"
       THEN /\ rows' = Append(rows, Row(outcome, truncated)) /\ at' = at + 1
            /\ phase' = "next" /\ UNCHANGED robots
       ELSE /\ \E says \in {"allowed", "refused", "too large"} :
                robots' = [robots EXCEPT ![Host] = RobotsReading(outcome, says, truncated)]
            /\ phase' = "permit" /\ UNCHANGED <<rows, at>>
    /\ fired' = FALSE /\ waited' = 0 /\ response' = NoHead /\ body' = NoBody
    /\ UNCHANGED <<sources, now, target>>

Fails(outcome) == Ends(outcome, FALSE) /\ UNCHANGED child

-----------------------------------------------------------------------------
(* fetch_cited_pages.                                                       *)

OverCaps ==
    \/ Late \/ Tried(DOMAIN rows) >= MaxPages
    \/ Tried({k \in DOMAIN rows : HostOf[rows[k].address] = Host}) >= MaxPagesPerHost

\* Skipped without being tried: told apart from a try that found the deadline past.
Skip ==
    /\ phase = "next" /\ at <= Len(Distinct) /\ OverCaps
    /\ rows' = Append(rows, Row("skipped", FALSE)) /\ at' = at + 1
    /\ UNCHANGED <<sources, now, phase, target, connection, robots, child>>

\* An address that is no page's is refused before its site is asked anything.
Try ==
    /\ phase = "next" /\ at <= Len(Distinct) /\ ~OverCaps
    /\ IF FormOf[Url] # "good"
       THEN /\ rows' = Append(rows, Row(FormOf[Url], FALSE)) /\ at' = at + 1
            /\ UNCHANGED <<phase, target>>
       ELSE /\ phase' = IF robots[Host] = Unasked THEN "start" ELSE "permit"
            /\ target' = IF robots[Host] = Unasked THEN "robots" ELSE "page"
            /\ UNCHANGED <<rows, at>>
    /\ UNCHANGED <<sources, now, connection, robots, child>>

Permit ==
    /\ phase = "permit"
    /\ target' = "page"
    /\ LET verdict == RobotsPermit(robots[Host])
       IN  IF verdict = "allowed" THEN phase' = "start" /\ UNCHANGED <<rows, at>>
           ELSE /\ rows' = Append(rows, Row(IF verdict = "refused" THEN "refused_robots"
                                            ELSE "robots_unchecked", FALSE))
                /\ at' = at + 1 /\ phase' = "next"
    /\ UNCHANGED <<sources, now, connection, robots, child>>

Finish ==
    /\ phase = "next" /\ at > Len(Distinct) /\ phase' = "done"
    /\ UNCHANGED <<sources, now, at, target, connection, robots, rows, child>>

-----------------------------------------------------------------------------
(* _fetch_one.                                                              *)

Start ==
    /\ phase = "start"
    /\ IF Late THEN Fails("skipped_cap")
       ELSE /\ phase' = "resolve"
            /\ UNCHANGED <<sources, now, at, target, connection, robots, rows, child>>

\* classify_host: the name is resolved by a thread that is left behind at the deadline.
Resolve ==
    /\ phase = "resolve"
    /\ \/ Late /\ Fails("timeout")
       \/ ~Late /\ Fails("refused_address")
       \/ /\ ~Late /\ phase' = "request"
          /\ UNCHANGED <<sources, now, at, target, connection, robots, rows, child>>

Waiting == phase \in {"request", "head", "body"}

\* Mutant: the connection is left to the socket's own timeout.
WatchdogDueNever == FALSE

WatchdogDue == Waiting /\ ~fired /\ Late

WatchdogFires ==
    /\ WatchdogDue
    /\ fired' = TRUE
    /\ UNCHANGED <<sources, now, at, phase, target, waited, response, body, robots, rows, child>>

\* A silent socket raises TimeoutError; a broken one, or one that was shut, OSError.
SocketTimesOut == Waiting /\ waited >= PerRecv /\ Fails("timeout")
SocketBreaks == Waiting /\ Fails(IF fired \/ Late THEN "timeout" ELSE "network_error")

Connected ==
    /\ phase = "request"
    /\ IF fired THEN Fails("timeout")
       ELSE /\ phase' = "head" /\ waited' = 0
            /\ UNCHANGED <<sources, now, at, target, fired, response, body, robots, rows, child>>

Heads == [status : {2, 3, 4, 5}, type : {"text", "pdf", "download", "other"},
          large : BOOLEAN, coded : BOOLEAN]
OneOdd(h) == Cardinality({f \in 1 .. 4 : <<h.status # 2, h.type = "other", h.large, h.coded>>[f]}) <= 1

\* A robots.txt is read as text whatever else could be.
IsPdf(h) == target = "page" /\ h.type \in {"pdf", "download"}

HeadArrives(h) ==
    /\ phase = "head"
    /\ IF fired THEN Fails("timeout")
       ELSE /\ response' = h /\ phase' = "answered" /\ waited' = 0
            /\ UNCHANGED <<sources, now, at, target, fired, body, robots, rows, child>>

\* Header by header: the socket is never silent for long.
HeadDrips ==
    /\ phase = "head" /\ ~fired /\ waited > 0 /\ waited' = 0
    /\ UNCHANGED <<sources, now, at, phase, target, fired, response, body, robots, rows, child>>

Judged ==
    /\ phase = "answered"
    /\ IF response.status = 3 THEN Fails("refused_redirect")
       ELSE IF response.status # 2 THEN Fails("http_error")
       ELSE IF response.type # "text" /\ ~IsPdf(response) THEN Fails("refused_content_type")
       ELSE IF response.large THEN Fails("too_large")
       ELSE /\ phase' = "body"
            /\ UNCHANGED <<sources, now, at, target, connection, robots, rows, child>>

\* The loop looks at the deadline before it reads again.
BodyIsLate == phase = "body" /\ body.more /\ (fired \/ Late) /\ Fails("timeout")

\* A download is a PDF if it starts as one.
ChunkArrives(magic) ==
    /\ phase = "body" /\ body.more /\ ~fired /\ ~Late
    /\ IF response.type = "download" /\ body.chunks = 0 /\ ~magic
       THEN Fails("refused_content_type")
       ELSE /\ body' = [body EXCEPT !.chunks = @ + 1, !.more = @ /\ body.chunks < Cap]
            /\ waited' = 0
            /\ UNCHANGED <<sources, now, at, phase, target, fired, response, robots, rows, child>>

\* An empty read: the site has ended the body, or the watchdog has.  A site that
\* broke off before the length it declared reads the same (read1 does not tell).
BodyEnds ==
    /\ phase = "body" /\ body.more
    /\ body' = [body EXCEPT !.more = FALSE, !.ended = ~fired]
    /\ UNCHANGED <<sources, now, at, phase, target, fired, waited, response, robots, rows, child>>

Truncated == body.chunks > Cap
BodyRead ==
    /\ phase = "body" /\ ~body.more
    /\ IF fired THEN Fails("timeout")
       ELSE IF response.type = "download" /\ body.chunks = 0 THEN Fails("refused_content_type")
       ELSE IF IsPdf(response) /\ Truncated THEN Fails("too_large")
       ELSE IF response.coded THEN Fails("unusable")
       ELSE IF IsPdf(response)
       THEN /\ phase' = "pdf"
            /\ UNCHANGED <<sources, now, at, target, connection, robots, rows, child>>
       ELSE \E outcome \in IF target = "robots" THEN {"fetched"} ELSE {"fetched", "unusable"} :
                Ends(outcome, Truncated) /\ UNCHANGED child

-----------------------------------------------------------------------------
(* read_pdf_text.                                                           *)

StartChild ==
    /\ phase = "pdf"
    /\ IF Late THEN Fails("timeout")
       ELSE IF slot # "free" THEN Fails("unusable")
       ELSE /\ slot' = "ours" /\ wall' = IF now + PdfWall < Budget THEN now + PdfWall ELSE Budget
            /\ phase' = "child"
            /\ UNCHANGED <<sources, now, at, target, connection, robots, rows>>

\* It answers, fails, or is killed at its wall; its group is ended and it is reaped.
ChildEnds(outcome) ==
    /\ phase = "child"
    /\ outcome = "timeout" <=> now >= wall
    /\ slot' = "free" /\ wall' = 0
    /\ Ends(outcome, FALSE)

\* Another evaluation's PDF.
OthersChild ==
    /\ phase \notin {"child", "done"}
    /\ slot' = CASE slot = "free" -> "other" [] slot = "other" -> "free" [] OTHER -> slot
    /\ slot' # slot
    /\ UNCHANGED <<sources, now, at, phase, target, connection, robots, rows, wall>>

\* Time passes while the thread waits and no timer of its is due: the join of the
\* resolver, the socket's timeout, the watchdog, the child's wall.
TimerDue ==
    \/ (phase = "resolve" /\ Late) \/ (phase = "child" /\ now >= wall)
    \/ (Waiting /\ waited >= PerRecv) \/ WatchdogDue \/ fired
Tick ==
    /\ Waiting \/ phase \in {"resolve", "child"}
    /\ ~TimerDue /\ now <= Budget
    /\ now' = now + 1
    /\ waited' = IF Waiting THEN waited + 1 ELSE 0
    /\ UNCHANGED <<sources, at, phase, target, fired, response, body, robots, rows, child>>

-----------------------------------------------------------------------------
FetchInit ==
    /\ sources \in Citations
    /\ now = 0 /\ at = 1 /\ phase = "next" /\ target = "page"
    /\ fired = FALSE /\ waited = 0 /\ response = NoHead /\ body = NoBody
    /\ robots = [h \in {HostOf[a] : a \in Addresses} |-> Unasked]
    /\ rows = <<>> /\ slot = "free" /\ wall = 0

FetchNext ==
    \/ Skip \/ Try \/ Permit \/ Finish \/ Start \/ Resolve \/ WatchdogFires
    \/ SocketTimesOut \/ SocketBreaks \/ Connected \/ HeadDrips \/ Judged
    \/ BodyIsLate \/ BodyEnds \/ BodyRead
    \/ \E h \in {h \in Heads : OneOdd(h)} : HeadArrives(h)
    \/ \E magic \in BOOLEAN : ChunkArrives(magic)
    \/ StartChild \/ OthersChild \/ Tick
    \/ \E outcome \in {"fetched", "unusable", "timeout"} : ChildEnds(outcome)

FetchSpec == FetchInit /\ [][FetchNext]_fetchVars

-----------------------------------------------------------------------------
(* judge_source_pages, once all rows are there.  An excerpt is "", "blank"  *)
(* (nothing is left of it once it is cleaned) or "text".                    *)

ExcerptOf(address) ==
    LET given == {i \in DOMAIN sources : sources[i].address = address /\ sources[i].excerpt # ""}
    IN  IF given = {} THEN "" ELSE sources[CHOOSE i \in given : \A j \in given : i <= j].excerpt

Texts ==
    LET one(k) == IF rows[k].outcome = "fetched" THEN "page"
                  ELSE IF ExcerptOf(rows[k].address) = "text" THEN "preview" ELSE ""
    IN  [k \in DOMAIN rows |-> one(k)]

\* Those that were tried come first, and as many as may be shown are taken.
Untried(k) == rows[k].outcome \in {"skipped", "skipped_cap"}
ListedBefore(j, k) == IF Untried(j) <=> Untried(k) THEN j < k ELSE Untried(k)
ShownRows ==
    LET useful == {k \in DOMAIN rows : Texts[k] # ""}
    IN  {k \in useful : Cardinality({j \in useful : ListedBefore(j, k)}) < MaxPages}

RowOf(line) == CHOOSE k \in DOMAIN rows : rows[k].address = sources[line].address
FirstLine(line) ==
    CHOOSE i \in DOMAIN sources :
        /\ sources[i].address = sources[line].address
        /\ \A j \in 1 .. (i - 1) : sources[j].address # sources[line].address

Listing ==
    [pages |-> [i \in DOMAIN sources |->
        IF FirstLine(i) = i /\ RowOf(i) \in ShownRows THEN Texts[RowOf(i)] ELSE ""],
     sameAs |-> [i \in DOMAIN sources |->
        IF FirstLine(i) # i /\ RowOf(i) \in ShownRows THEN FirstLine(i) ELSE 0],
     read |-> Cardinality({k \in ShownRows : rows[k].outcome = "fetched"}),
     preview |-> Cardinality({k \in ShownRows : rows[k].outcome = "refused_robots"}),
     previewOther |-> Cardinality({k \in ShownRows :
                        rows[k].outcome \notin {"fetched", "refused_robots"}})]

-----------------------------------------------------------------------------
(* source_fetcher.py:1232, 932 and 1314: a page counts as read only if its  *)
(* site's robots.txt was read whole and allows it, or is not there; only if *)
(* the site itself ended it or it is marked as cut; no address is tried     *)
(* twice and no host beyond its share.                                      *)
PagesAreReadAsAllowed ==
    /\ \A k \in DOMAIN rows : rows[k].outcome = "fetched" =>
        LET r == robots[HostOf[rows[k].address]]
        IN  /\ r.status = 4 \/ (r.whole /\ r.says = "allowed")
            /\ rows[k].whole \/ rows[k].truncated
    /\ \A j, k \in DOMAIN rows : rows[j].address = rows[k].address => j = k
    /\ Tried(DOMAIN rows) <= MaxPages
    /\ \A h \in {HostOf[a] : a \in Addresses} :
        Tried({k \in DOMAIN rows : HostOf[rows[k].address] = h}) <= MaxPagesPerHost

(* source_fetcher.py:282 and 511: whatever the sites do, all is over at the *)
(* deadline, no child outlives its page, and its slot is given back.        *)
FetchIsOverInTime ==
    /\ now <= Budget
    /\ slot = "ours" => phase = "child"

(* evaluation.py:2067: every page the judge is told of is there once, under *)
(* the first line that cites it, its other lines point at it, and the three *)
(* counts add up to the pages that are there.                               *)
ListingIsConsistent ==
    phase = "done" =>
        LET l == Listing
            there == {i \in DOMAIN sources : l.pages[i] # ""}
        IN  /\ Cardinality(there) = l.read + l.preview + l.previewOther
            /\ Cardinality(there) <= MaxPages
            /\ \A i \in DOMAIN sources :
                /\ l.sameAs[i] # 0 => /\ l.sameAs[i] < i /\ l.sameAs[i] \in there
                                      /\ sources[l.sameAs[i]].address = sources[i].address
                /\ \A j \in there : sources[j].address = sources[i].address /\ j # i =>
                                        l.sameAs[i] = j
            /\ \A k \in DOMAIN rows : rows[k].outcome = "fetched" =>
                \E i \in there : sources[i].address = rows[k].address /\ l.pages[i] = "page"
=============================================================================
