---------------------------- MODULE ProviderCall ----------------------------
(***************************************************************************)
(* One call to the model provider (providers.py), from the slot's request  *)
(* to the answer it becomes: the search ladder, the POST, the body read    *)
(* under a time budget, the event stream folded into a completion, what    *)
(* every failure says of the bill, the backup search, and the runner that  *)
(* may stop waiting.                                                       *)
(*                                                                         *)
(* The provider and the network are the environment.  The provider charges *)
(* for a request it has begun to answer, never for one it refused with a   *)
(* status of _UNBILLED_HTTP_STATUSES or never received.  It ends a text    *)
(* with a finish reason, an error frame or the [DONE] sentinel, and breaks *)
(* only while it generates, though a stop may still follow an error frame. *)
(* The connection may be cut at any moment, and a cut may look like a      *)
(* clean end.  The headers of a response arrive in one piece; time passes  *)
(* only while a body is read.                                              *)
(***************************************************************************)
EXTENDS Integers

CONSTANTS
    CallBudget,         \* openrouter_call_budget_seconds, in clock steps
    RecvTimeout,        \* openrouter_timeout_seconds, in clock steps
    MaxLines            \* bound: lines of one response that carry something

ASSUME BudgetAssumption ==
    /\ CallBudget \in Nat \ {0} /\ RecvTimeout \in Nat \ {0} /\ MaxLines \in Nat

VARIABLES
    request,            \* what is asked, and the settings it is asked under
    step,               \* where the call is
    model,              \* the id on the wire: "online", "bare" or "none" yet
    reply,              \* the stream so far: a Completion
    pending,            \* data lines of the event being read: "", one, or "joined"
    draining,           \* [DONE] was read
    sentLines,          \* lines received that carried something
    spent, waited,      \* clock: since the POST, and in the current recv
    allowed,            \* the current recv's timeout
    backup,             \* the backup search: "unasked", "found" or "nothing"
    answer,             \* what the runner records, or NoAnswer
    returned,           \* what call_with_prompt returns, or NoAnswer
    charges,            \* environment: requests the provider charges for
    provider            \* environment: how far the provider is with its text

vars == <<request, step, model, reply, pending, draining, sentLines, spent, waited,
          allowed, backup, answer, returned, charges, provider>>
bodyVars == <<reply, pending, draining, sentLines, spent, waited, allowed, provider>>
resultVars == <<backup, answer, returned>>

-----------------------------------------------------------------------------
(* A request: a slot's initial answer, or a prompt of a later stage.           *)
Request == [caller : {"initial", "prompt"}, live : BOOLEAN, url : BOOLEAN,
            search : BOOLEAN, tavily : BOOLEAN,
            forced : {"none", "failure", "fallback"}]

(* Only the combinations that ask something different: a prompt never searches *)
(* and is never forced, and a forced fallback is reached only off the network. *)
Asked == {r \in Request :
            /\ r.caller = "prompt" => ~r.search /\ ~r.tavily /\ r.forced = "none"
            /\ r.forced # "none" => r.url /\ r.search
            /\ r.live => r.forced # "fallback"
            /\ ~r.live => r.url}

(* The payloads of data lines, each named for what it carries for choice 0.    *)
Frames == {"text", "blank_text", "sources", "stop", "length", "broken", "error",
           "usage", "second_choice", "not_a_mapping"}
Payloads == Frames \cup {"[DONE]", "garbage"}

(* What an event stream, or a whole JSON body, amounts to.                     *)
Completion == [text : {"none", "blank", "visible"}, sources : BOOLEAN,
               reason : {"none", "stop", "length", "error"}, usage : BOOLEAN,
               error : BOOLEAN, frames : BOOLEAN, unrecognised : BOOLEAN,
               terminator : {"none", "done", "finish_reason", "error", "not_a_stream"},
               body_error : BOOLEAN]
EmptyCompletion == [text |-> "none", sources |-> FALSE, reason |-> "none", usage |-> FALSE,
                    error |-> FALSE, frames |-> FALSE, unrecognised |-> FALSE,
                    terminator |-> "none", body_error |-> FALSE]

Unclean == {"length", "error"}
NoAnswer == [status |-> "none"]

(* _completed_answer: only the model's own sources count towards coverage.     *)
CompletedAnswer(path, sources, notice, usage, shortened, searched) ==
    [status |-> "completed", path |-> path, sources |-> sources, notice |-> notice,
     covered |-> sources = "model", usage |-> usage, shortened |-> shortened,
     searched |-> searched, error |-> "none", billing |-> "unsaid"]

(* _failed_answer, cancelled_answer, deadline_exceeded_answer.                 *)
UnansweredSlot(code, billing) ==
    [status |-> "failed", path |-> "openrouter_search", sources |-> "none",
     notice |-> code, covered |-> FALSE, usage |-> FALSE, shortened |-> FALSE,
     searched |-> FALSE, error |-> code, billing |-> billing]
FailedAnswer(billing) == UnansweredSlot("PROVIDER_UNAVAILABLE", billing)
CancelledAnswer == UnansweredSlot("CANCELLED", "not_billed")
DeadlineExceededAnswer(billing) == UnansweredSlot("RUN_DEADLINE_EXCEEDED", billing)

-----------------------------------------------------------------------------
(* _reassemble_streamed_completion: one event folded in.                       *)
\* Mutant: the last reason wins, an unclean one does not stay.
SayLastReason(c, r) ==
    [c EXCEPT !.reason = r,
              !.terminator = IF @ \in {"none", "error"} THEN "finish_reason" ELSE @]

SayReason(c, r) ==
    [c EXCEPT !.reason = IF r \in Unclean \/ @ \notin Unclean THEN r ELSE @,
              !.terminator = IF @ \in {"none", "error"} THEN "finish_reason" ELSE @]

SayError(c) == [c EXCEPT !.error = TRUE,
                         !.terminator = IF @ = "none" THEN "error" ELSE @]

FoldFrame(c0, d) ==
    LET c == [c0 EXCEPT !.frames = TRUE] IN
    CASE d = "text"       -> [c EXCEPT !.text = "visible"]
      [] d = "blank_text" -> [c EXCEPT !.text = IF @ = "none" THEN "blank" ELSE @]
      [] d = "sources"    -> [c EXCEPT !.sources = TRUE]
      [] d = "usage"      -> [c EXCEPT !.usage = TRUE]
      [] d \in {"stop", "length"} -> SayReason(c, d)
      [] d = "broken"     -> SayReason(SayError(c), "error")
      [] d = "error"      -> SayError(c)
      [] OTHER            -> c

FoldEvent(c, d) ==
    IF d = "[DONE]" THEN [c EXCEPT !.terminator = "done"]
    ELSE IF d \in Frames THEN FoldFrame(c, d)
    ELSE [c EXCEPT !.body_error = TRUE]     \* garbage, or two lines joined

(* The reason the rebuilt payload carries: an error frame alone says "error".  *)
FinishReason(c) == IF c.reason = "none" /\ c.error THEN "error" ELSE c.reason

(* A body that is no stream at all but one JSON document with choices.         *)
WholeBody == {[EmptyCompletion EXCEPT !.text = t, !.sources = s, !.reason = r, !.usage = TRUE,
                                      !.terminator = "not_a_stream"] :
                t \in {"none", "blank", "visible"}, s \in BOOLEAN, r \in {"stop", "length"}}

(* What _post_messages makes of a body it has read to its end.                 *)
Incomplete(c) == ~c.body_error /\ (c.terminator = "none" \/ c.unrecognised)
Result(c, id) == [kind |-> "result", text |-> c.text, sources |-> c.sources, usage |-> c.usage,
                  truncated |-> FinishReason(c) \in Unclean, searched |-> id = "online"]
Free == [kind |-> "not_billed"]
Unmeasured == [kind |-> "dispatched_unmeasured"]
OutcomeOf(c, id) == IF Incomplete(c) \/ c.body_error THEN Unmeasured ELSE Result(c, id)

(* HTTPError, URLError: what a failed opening says of the bill.                *)
Openings == {"http_rejects_model", "http_refused", "http_server_error",
             "not_connected", "connect_timeout", "reset"}
MayHaveBegun(o) == o \in {"http_server_error", "connect_timeout", "reset"}   \* environment

\* Mutant: a timeout while connecting is taken for a request never sent.
BilledIfAnswered(o) == o \in {"http_server_error", "reset"}

BilledOpening(o) == o \in {"http_server_error", "connect_timeout", "reset"}

-----------------------------------------------------------------------------
(* produce_initial_answer: what it does before, and without, a live call.      *)
Init ==
    /\ request \in Asked
    /\ step = "start" /\ model = "none"
    /\ reply = EmptyCompletion /\ pending = "" /\ draining = FALSE /\ sentLines = 0
    /\ spent = 0 /\ waited = 0 /\ allowed = 0 /\ provider = "unasked"
    /\ backup = "unasked" /\ answer = NoAnswer /\ returned = NoAnswer /\ charges = 0

Record(a) == answer' = IF answer = NoAnswer THEN a ELSE answer

(* The worker has not begun when the run is cancelled.                         *)
CancelledFirst ==
    /\ step = "start" /\ request.caller = "initial" /\ answer = NoAnswer
    /\ Record(CancelledAnswer)
    /\ step' = "done"
    /\ UNCHANGED <<request, model, bodyVars, backup, returned, charges>>

ForcedFailure ==
    /\ step = "start" /\ request.forced = "failure"
    /\ Record(FailedAnswer("not_billed"))
    /\ step' = "done"
    /\ UNCHANGED <<request, model, bodyVars, backup, returned, charges>>

(* _fallback_sources: a real search's, or the placeholder, which counts for none.  *)
FallbackSources(found) == IF found THEN "backup" ELSE "placeholder"

LocalAnswer ==
    /\ step = "start" /\ request.caller = "initial" /\ ~request.live
    /\ request.forced # "failure"
    /\ IF request.forced = "fallback"
       THEN \E found \in {request.tavily, FALSE} :
               /\ backup' = IF ~request.tavily THEN "unasked"
                            ELSE IF found THEN "found" ELSE "nothing"
               /\ Record(CompletedAnswer("fallback_search", FallbackSources(found),
                            "FALLBACK_SOURCE_SUPPORT", FALSE, FALSE, FALSE))
       ELSE /\ UNCHANGED backup
            /\ Record(CompletedAnswer("local_simulation", "placeholder", "DEMO_MODE",
                                      FALSE, FALSE, FALSE))
    /\ step' = "done"
    /\ UNCHANGED <<request, model, bodyVars, returned, charges>>

(* call_with_prompt without a key.                                             *)
PromptWithoutKey ==
    /\ step = "start" /\ request.caller = "prompt" /\ ~request.live
    /\ returned' = Free
    /\ step' = "done"
    /\ UNCHANGED <<request, model, bodyVars, backup, answer, charges>>

-----------------------------------------------------------------------------
(* _post_messages: the request goes out, and is opened or not.                 *)
Least(a, b) == IF a < b THEN a ELSE b

(* _call_openrouter_with_optional_search: the id of the first post.            *)
FirstModel == IF request.search THEN "online" ELSE "bare"

Post(id) ==
    /\ step' = "posting" /\ model' = id
    /\ reply' = EmptyCompletion /\ pending' = "" /\ draining' = FALSE /\ sentLines' = 0
    /\ spent' = 0 /\ waited' = 0 /\ allowed' = 0 /\ provider' = "unasked"

StartLive ==
    /\ step = "start" /\ request.live /\ request.forced = "none"
    /\ Post(FirstModel)
    /\ UNCHANGED <<request, resultVars, charges>>

(* produce_initial_answer, with the text the live call brought.                *)
Notice(sources) ==
    IF ~request.search THEN "SEARCH_DISABLED"
    ELSE CASE sources = "backup" -> "SOURCES_FROM_BACKUP_SEARCH"
           [] sources = "none"   -> "NO_SOURCES_FOUND"
           [] OTHER              -> "none"

AnswerLive(o, sources) ==
    Record(CompletedAnswer("openrouter_search", sources, Notice(sources),
                           o.usage, o.truncated, o.searched))

WantsBackup(o) == request.search /\ ~o.sources /\ request.tavily

(* call_with_prompt: nothing billed returns None; an unmeasured dispatch, an   *)
(* empty result without usage.                                                 *)
PromptResult(o) ==
    IF o = Unmeasured
    THEN [kind |-> "result", text |-> "none", sources |-> FALSE, usage |-> FALSE,
          truncated |-> FALSE, searched |-> FALSE]
    ELSE o

(* _live_openrouter_response and its caller, once a post has come to an end.   *)
Conclude(o) ==
    IF request.caller = "prompt"
    THEN /\ returned' = PromptResult(o) /\ step' = "done"
         /\ UNCHANGED <<backup, answer>>
    ELSE /\ UNCHANGED <<backup, returned>>
         /\ CASE o = Free -> Record(FailedAnswer("not_billed")) /\ step' = "done"
              [] o = Unmeasured -> Record(FailedAnswer("possibly_billed")) /\ step' = "done"
              [] o.kind = "result" /\ o.text # "visible" ->
                    Record(FailedAnswer("possibly_billed")) /\ step' = "done"
              [] o.kind = "result" /\ o.text = "visible" ->
                    IF WantsBackup(o)
                    THEN step' = "supplement" /\ UNCHANGED answer
                    ELSE /\ AnswerLive(o, IF o.sources THEN "model" ELSE "none")
                         /\ step' = "done"

(* A base URL the guard refuses: nothing is sent.                              *)
RefusedUrl ==
    /\ step = "posting" /\ ~request.url
    /\ Conclude(Free)
    /\ UNCHANGED <<request, model, bodyVars, charges>>

MayRetryBare(o) == o = "http_rejects_model" /\ model = "online"

OpeningOutcome(o) == IF BilledOpening(o) THEN Unmeasured ELSE Free

(* HTTPError, URLError, or another exception before a response is there.       *)
OpenFails(o) ==
    /\ step = "posting" /\ request.url
    /\ \E charged \in {MayHaveBegun(o), FALSE} :
          charges' = IF charged THEN charges + 1 ELSE charges
    /\ IF MayRetryBare(o)
       THEN Post("bare") /\ UNCHANGED resultVars
       ELSE Conclude(OpeningOutcome(o)) /\ UNCHANGED <<model, bodyVars>>
    /\ UNCHANGED request

OpenSucceeds ==
    /\ step = "posting" /\ request.url
    /\ step' = "reading" /\ provider' = "generating" /\ charges' = charges + 1
    /\ allowed' = Least(RecvTimeout, CallBudget)
    /\ UNCHANGED <<request, model, reply, pending, draining, sentLines, spent, waited, resultVars>>

-----------------------------------------------------------------------------
(* The provider speaks: what it may send next, and what that says of its text. *)
MaySay(d) ==
    CASE d \in {"text", "blank_text", "sources", "length", "broken", "error"} ->
            provider = "generating"
      [] d = "stop" -> provider \in {"generating", "cut_short", "failed"}
      [] OTHER -> TRUE

Said(d) ==
    CASE d \in {"stop", "[DONE]"} /\ provider = "generating" -> "finished"
      [] d \in {"length", "broken"} -> "cut_short"
      [] d = "error" -> "failed"
      [] OTHER -> provider

(* _iter_body_within_budget: the next recv may block no longer than the least  *)
(* of its own timeout and what is left of the budget.                          *)
NextRecv == /\ waited' = 0
            /\ allowed' = Least(RecvTimeout, CallBudget - spent)
            /\ UNCHANGED spent

SameChunk == UNCHANGED <<spent, waited, allowed>>

Receiving == step = "reading" /\ allowed > 0 /\ (NextRecv \/ SameChunk)

(* A data line: kept until the event it belongs to ends.                       *)
DataLine(d) ==
    /\ Receiving
    /\ sentLines < MaxLines /\ MaySay(d)
    /\ sentLines' = sentLines + 1
    /\ provider' = Said(d)
    /\ pending' = IF draining THEN "" ELSE IF pending = "" THEN d ELSE "joined"
    /\ UNCHANGED <<request, step, model, reply, draining, resultVars, charges>>

(* A blank line ends the event; a document that does not parse ends the read.  *)
BlankLine ==
    /\ Receiving
    /\ pending # ""
    /\ LET c == FoldEvent(reply, pending) IN
       /\ reply' = c
       /\ step' = IF c.body_error THEN "closed" ELSE "reading"
       /\ draining' = (draining \/ pending = "[DONE]")
    /\ pending' = ""
    /\ UNCHANGED <<request, model, sentLines, provider, resultVars, charges>>

(* A comment, or an event:, id: or retry: field: keeps the connection alive.   *)
IgnoredLine ==
    /\ Receiving
    /\ UNCHANGED <<request, step, model, reply, pending, draining, sentLines, provider,
                   resultVars, charges>>

(* Anything else was not sent by the provider.                                 *)
UnrecognisedLine ==
    /\ Receiving
    /\ sentLines < MaxLines
    /\ sentLines' = sentLines + 1
    /\ reply' = IF draining THEN reply ELSE [reply EXCEPT !.unrecognised = TRUE]
    /\ UNCHANGED <<request, step, model, pending, draining, provider, resultVars, charges>>

(* The body is one JSON document with choices.                                 *)
WholeBodyArrives(c) ==
    /\ step = "reading" /\ allowed > 0 /\ sentLines = 0
    /\ reply' = c
    /\ provider' = IF c.reason = "length" THEN "cut_short" ELSE "finished"
    /\ step' = "closed"
    /\ UNCHANGED <<request, model, pending, draining, sentLines, spent, waited, allowed,
                   resultVars, charges>>

(* The body ends, or is cut where nobody can tell: the last event is folded.   *)
BodyEnds ==
    /\ step = "reading" /\ allowed > 0
    /\ reply' = IF pending = "" THEN reply ELSE FoldEvent(reply, pending)
    /\ pending' = ""
    /\ step' = "closed"
    /\ UNCHANGED <<request, model, draining, sentLines, spent, waited, allowed, provider,
                   resultVars, charges>>

(* A reset, or fewer bytes than declared.                                      *)
BodyTorn ==
    /\ step = "reading" /\ allowed > 0
    /\ Conclude(Unmeasured)
    /\ UNCHANGED <<request, model, bodyVars, charges>>

Tick ==
    /\ step = "reading" /\ waited < allowed
    /\ waited' = waited + 1 /\ spent' = spent + 1
    /\ UNCHANGED <<request, step, model, reply, pending, draining, sentLines, allowed, provider,
                   resultVars, charges>>

(* TimeoutError, of the recv or of the budget check before it.                 *)
TimesOut ==
    /\ step = "reading" /\ waited = allowed
    /\ Conclude(Unmeasured)
    /\ UNCHANGED <<request, model, bodyVars, charges>>

Classify ==
    /\ step = "closed"
    /\ Conclude(OutcomeOf(reply, model))
    /\ UNCHANGED <<request, model, bodyVars, charges>>

(* _tavily_search: every failure of it is an empty list.                       *)
Supplement ==
    /\ step = "supplement"
    /\ \E found \in BOOLEAN :
          /\ backup' = IF found THEN "found" ELSE "nothing"
          /\ AnswerLive(OutcomeOf(reply, model), IF found THEN "backup" ELSE "none")
    /\ step' = "done"
    /\ UNCHANGED <<request, model, bodyVars, returned, charges>>

(* _run_pipeline: the run's deadline passes while the worker is in the call.   *)
GiveUp ==
    /\ step # "done" /\ request.caller = "initial" /\ answer = NoAnswer
    /\ Record(DeadlineExceededAnswer(IF request.live THEN "possibly_billed" ELSE "not_billed"))
    /\ UNCHANGED <<request, step, model, bodyVars, backup, returned, charges>>

-----------------------------------------------------------------------------
Begin == CancelledFirst \/ ForcedFailure \/ LocalAnswer \/ PromptWithoutKey \/ StartLive
Open == RefusedUrl \/ OpenSucceeds \/ (\E o \in Openings : OpenFails(o))
Read == \/ \E d \in Payloads : DataLine(d)
        \/ \E c \in WholeBody : WholeBodyArrives(c)
        \/ BlankLine \/ IgnoredLine \/ UnrecognisedLine \/ BodyEnds \/ BodyTorn
Returned == step = "done" /\ UNCHANGED vars
CallNext == \/ Begin \/ Open \/ Read \/ Tick \/ TimesOut \/ Classify \/ Supplement \/ GiveUp
            \/ Returned

Spec == Init /\ [][CallNext]_vars

(* A worker runs on, urlopen answers or raises within its timeout, the backup  *)
(* search within its own, and the clock passes.  No line need ever come.       *)
Fairness == WF_vars(Begin \/ Open \/ TimesOut \/ Classify \/ Supplement) /\ WF_vars(Tick)
FairSpec == Spec /\ Fairness

-----------------------------------------------------------------------------
TypeOK ==
    /\ request \in Asked
    /\ step \in {"start", "posting", "reading", "closed", "supplement", "done"}
    /\ model \in {"none", "online", "bare"}
    /\ reply \in Completion
    /\ pending \in Payloads \cup {"", "joined"}
    /\ draining \in BOOLEAN
    /\ sentLines \in 0 .. MaxLines
    /\ spent \in Nat /\ waited \in 0 .. RecvTimeout /\ allowed \in 0 .. RecvTimeout
    /\ backup \in {"unasked", "found", "nothing"}
    /\ answer.status \in {"none", "completed", "failed"}
    /\ charges \in Nat
    /\ provider \in {"unasked", "generating", "finished", "cut_short", "failed"}

(* What is said not to have been billed was not charged, then or later: not by *)
(* the answer of a slot, not by the None of a later stage's call, whichever of *)
(* the ways a call fails it was, and not by a runner that stopped waiting      *)
(* before the request was even sent.  And though the search ladder may post    *)
(* twice, no call is charged for twice.                                        *)
PaidOnlyAsReported ==
    /\ charges <= 1
    /\ \/ answer.status = "failed" /\ answer.billing = "not_billed"
       \/ returned = Free
       => charges = 0

(* What is shown of the model's text without the mark of a shortened answer.   *)
ShownUnmarked ==
    \/ answer.status = "completed" /\ answer.path = "openrouter_search" /\ ~answer.shortened
    \/ /\ returned # NoAnswer /\ returned.kind = "result"
       /\ returned.text = "visible" /\ ~returned.truncated

(* A text shown without that mark is all the provider had to say: a stream     *)
(* that was cut, and one that ran into its token limit or broke off with a     *)
(* reason of its own, is either no answer or a marked one, also when a later   *)
(* frame repeats a clean reason.  The one exception is a generation that broke *)
(* off with an error but without a reason, and then said stop: see             *)
(* BrokenGenerationIsMarked.                                                   *)
CleanReasonAfterError == provider = "failed" /\ reply.error /\ reply.reason = "stop"
UnmarkedAnswerIsWhole ==
    ShownUnmarked => provider = "finished" \/ CleanReasonAfterError

(* What _reassemble_streamed_completion says of an error frame that came       *)
(* without a reason: it must not let "a broken generation report a clean       *)
(* stop".  The code keeps the error only while no reason follows.              *)
BrokenGenerationIsMarked == provider = "failed" => ~ShownUnmarked

(* Every call comes back, also when the provider only ever sends comments.     *)
CallReturns == <>(step = "done")
=============================================================================
