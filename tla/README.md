# A verification project for Quorum

Quorum (`src/src/product_app`) is a FastAPI service that puts one question to a
panel of models, lets them critique each other, synthesises an answer, and
bills the caller for what the providers charged. It runs as one process with
many threads: request threads, one pipeline thread per run, shared pools for
provider calls, and a few daemon threads. Its state is in memory (runs, caches,
sessions, permits) and in SQLite files (the spend ledger, sessions, accounts,
history, run metrics). A page in the browser asks and polls; two scripts and a
workflow outside the process switch paid execution on and off and watch it.

This directory holds TLA+ modules of it, the TLC configurations that check them
on small instances, and TLAPS proofs of what matters most for every size. Paths
below are relative to `src/src/product_app/` unless they start with `docs/` or
`scripts/`.

## 1. The system

### Components

| component | state | operations | hard behaviour |
|---|---|---|---|
| Query run repository and pipeline (`query_run_orchestration.py`, `query_runs.py`) | the runs (status, stages, answers, billing stages, usages, `updated_at`), the concurrency semaphore, the pool of call slots | POST, DELETE, GET, the pipeline worker, slot workers, the deadline, the TTL purge | a cancel, a deadline and a crash race the worker's writes; permits and charges must be undone on every failing path; calls outlive the run that paid them |
| Spend metering (`costs.py`, `feedback_store.py`) | the durable event ledger, an in-memory ring of charges, write health per store object | estimate, admit, charge, reconcile, void, the rolling window | check-then-insert, lost writes, restart, fail-open and fail-closed, two store objects on one file |
| Store reconnect (`store_reconnect.py`) | the process-wide store object, a claim, a cooldown | tried from an estimate, done in a background thread | a store that cannot be written must not stay so for ever |
| Confirmation tokens and the cost guardrail (`costs.py`, `query_runs.py`) | a bounded table of tokens | quote, purge, evict, redeem | two creates with one token; a token for another panel or price |
| Evaluation served and paid for (`evaluation.py`, the last third of `query_run_orchestration.py`) | two bounded LRU memos, in-flight futures, the run's durable row | every poll of a finished run and the worker's own persist | buying one verdict twice, or past the money rails |
| History, run metrics, deletion (`account_history.py`, `run_history_store.py`, `account_deletion.py`) | history rows, metrics rows, carry-over links, "going" marks | record, carry over, trim, delete | rows written back after the delete, runs listed for the wrong person |
| Google sign-in (`google_signin.py`) | pending sign-ins, accounts | start, callback, sign out (everywhere) | the session and its account may end between any two steps |
| Sessions (`auth.py`, `session_store.py`) | cached sessions, durable rows, cutoffs, revoked and ended ids | mint, look up, restore, touch, persist, revoke, sign out everywhere, collect | a durable write racing a revocation; a second process writing cutoffs |
| Sign-out of every device, offline (`end_sessions.py`) | none of its own | a second process that writes the sessions' file | the app's cache and its writes in flight |
| Provider calls (`providers.py`, `model_slots.py`) | none shared | one call with its ladder of requests, a fallback and a billing class | a call that was billed but whose answer is unusable |
| Critique and synthesis (`debate.py`, `synthesis*.py`) | a section pool | two rounds, five sections | fan-out inside a stage, cancelled between calls |
| Catalogue, readiness (`catalog_fetcher.py`, `readiness.py`) | one cached list, one verdict | fetch, invalidate, probe | single flight with a timeout |
| Source fetching (`source_fetcher.py`, `pdf_text.py`, text helpers) | one child-process slot | fetch, resolve, parse | budgets, abandoned threads |
| Limits (`query_runs.py`, `request_limits.py`, `invite_links.py`, `session_exemptions.py`) | token buckets, counters | allow, count | the clock is read before the lock |
| Web page (`static/app.js`) | the run on screen, the composer, the tabs' shared token | ask, confirm, poll, stop, go back, renew | every answer may arrive after its question was dropped |
| Live switch tooling (`scripts/`, a workflow) | declared windows, production's settings, an alert | declare, close, watch | two files written one after the other; endpoints read one after the other |
| The rest (`main.py`, `config.py`, logging, telemetry, `safety.py`) | settings, files | wiring, output, rendering | none |

### How they interact

The page asks for an estimate, shows it, and creates the run. The POST handler
walks the chain: limits, session, estimate (which may start a reconnect),
confirmation, permit, repository, charge, thread. The pipeline thread calls
providers through the shared pools, writes the repository, settles the charge,
evaluates the run, and records it in the metrics and the history. Polls read the
repository and evaluate on demand. Cancel and deletion act on the same state
from their own threads. The locks are one per object; where two are held the
order is repository, then store.

### What makes each component correct

- **Runs**: a finished run is final; one active run per account; no permit is
  lost or duplicated; every accepted run ends; a bill called *measured* is
  exact; nothing is bought for a run that was not charged; stages take turns,
  and a completed run went through all of its own.
- **Money**: only recorded runs go live; the ring follows the ledger; a cap is
  passed only in the known two-object window; metering always comes back; what
  is quoted is what a create is admitted for.
- **Evaluation**: one payer per run, who asked the rails; a verdict is bought
  again only when it was forgotten, and replaced by none; a score is served only
  when it was earned.
- **History**: what was deleted stays gone; runs stay with their person; no
  finished run is lost between an anonymous session and the account.
- **Sessions**: a revoked or ended session never acts again, from the cache or
  the file, whichever write was in flight; a sign-in is good once, for its own
  session.
- **Services**: each caller gets an answer, at the price that was reported; nobody
  waits for a fetch that has ended; what is said of the key is the provider's
  last word.
- **Page**: one run on screen; nothing is asked but what the person confirmed.

The hazards, each at its line and with the properties that cover it, are in
`PROJECT.json`.

## 2. Modules

| module | models | checked by | proved in |
|---|---|---|---|
| `QueryRuns` | runs, permits, pool, cancel, deadline, receipt, purge | `MCQueryRuns`, `MCAdmission` | `QueryRunsProofs` |
| `SpendLedger` | charge, reconcile, void, ring, ledger, reconnect | `MCSpendLedger` | `SpendLedgerProofs` |
| `JudgePurchase` | abstract: a verdict is bought once and kept as it came | `MCJudgeMemo` | |
| `JudgeMemo` | verdict and evaluation memos, the paid judge call | `MCJudgeMemo` | `JudgeMemoProofs` |
| `EvaluationRows` | the worker's two evaluations and the durable row, over `JudgeMemo` | `MCJudgeMemo` | |
| `AccountHistory` | history, metrics, sign-in, carry-over, deletion | `MCAccountHistory` | `AccountHistoryProofs` |
| `SessionLife` | abstract: an ended session never acts again | `MCSessions` | |
| `Sessions` | cache and rows, lookup, restore, touch, sign-in, sign-out, cutoffs, the operator | `MCSessions` | `SessionProofs` |
| `PendingSignIns` | the handshake with Google | `MCSessions` | `HandshakeProofs` |
| `CostGate`, `RateLimit` | confirmation tokens; token buckets | `MCAdmission` | `CostGateProofs` |
| `Pricing`, `EventRows` | the figures; the ledger's windows | `MCAdmission` | |
| `DeclaredWindows`, `CloseWindow`, `PostureWatch` | the live switch, its closing script, its watchdog | `MCAdmission` | `CostGateProofs` |
| `ProviderCall` | one provider call | `MCServices` | |
| `ModelCatalogue`, `Readiness` | the catalogue's single flight; the credential probe, over the catalogue | `MCServices` | `ServicesProofs` |
| `RunView` | the page's polls and stops | `MCServices`, `MCSafeguards` | `ServicesProofs` |
| `TabTokens` | the token its tabs share | `MCSafeguards` | `ServicesProofs` |
| `Composer` | the page's question | `MCSafeguards` | `ServicesProofs` |
| `SourcePages` | fetching the pages for the judge, and their listing | `MCSafeguards` | `JudgeMemoProofs` |
| `Deliberation`, `Trust`, `Evidence` | critique and synthesis; markers, labels and score; the judge's evidence | `MCSafeguards` | |

The modules meet at small interfaces, and each keeps the other side as a choice
of what it can answer: in `QueryRuns` a charge is recorded, refused, not
recorded or raises, which are `SpendLedger`'s outcomes; `SpendLedger`'s run goes
live, is measured or voided, which are `QueryRuns`' orders of calls;
`JudgeMemo` has the readers of terminal runs (whose `updated_at` may still move
once), their lock and their memos, and takes the rails as a boolean that moves
freely, while `QueryRuns` has of the judge only what reaches a receipt: a call is
out, answered, or its verdict evicted;
`AccountHistory` starts from a run that becomes terminal, by its worker or by a
cancel; `PendingSignIns` has of `Sessions` only how a session may stand.
Modules that share state extend or instantiate each other: `EvaluationRows`
works on `JudgeMemo`'s memos, `Readiness` on a catalogue, `CloseWindow` and
`PostureWatch` on the declared windows. `Sessions` implements `SessionLife`, and
`JudgeMemo` implements `JudgePurchase`.

The MC modules that check several small components keep a variable `part`: a
behaviour exercises one part and the others rest. The parts share no state, so
nothing is lost by not interleaving them.

### QueryRuns

One step is one repository call (each holds the repository lock), or one use of
the semaphore, the ledger or the pool. A run's name also names its POST, its
worker and its DELETE. The POST is `TakePermit`, `CreateRun`, `ChargeRun`,
`MarkDegraded`, `StartWorker` with their refusals (`RefuseForCapacity`,
`RefuseAtCreate`) and undoing (`ChargeRaises`, `ThreadFailsToStart`,
`VoidCharge`, `AbandonRun`, `ReturnPermitUnused`). The worker starts the
answers, collects them slot by slot, may be cut at the deadline, goes through
debate and synthesis, completes, persists and releases its permit; it may raise
at every call that can raise. `should_stop` and the guarded write that follows
it are one step, because a refused write is the same return. A cancel is two
steps, the transition and the stage's stamp, as in the code.

Calls are kept as counts: how many were dispatched (`calls`, `paid`) and how
many usages the repository holds (`recorded`). The receipt is `Measured`, the
strict gate of `_actual_cost`: every slot and stage is captured
(`PipelineCaptured`), and so is the verdict the judge's memo holds, if it holds
one. `PersistRun` settles it (`SettleReceipt`); amounts are not modelled.

The judge is paid by whoever evaluates a finished run, the worker before it
settles or a poll at any time: `CallJudge`, `JudgeAnswers` with a known or an
unknown cost, `VerdictEvicted` when other runs' verdicts push it out. `judgeCalls`
counts the calls, `booked` those the settlement put into the ledger, and `lapsed`
notes a run whose verdict was evicted or whose worker went without one. The memo
has room for 512 verdicts, so an eviction before the settlement is rare in
practice; the model lets it happen.

Accounts served by the inline `X-Account-Id` path hold no permit and run
without the crash net, as in the code. `DRAFT` and `COST_REVIEW` are never
produced by any code path and are left out. The purge drops a run nobody
attends, or any run when `WorkersOutliveTtl`: with the default settings the
retention outlives every worker, but the settings allow otherwise.

### SpendLedger and EventRows

A handle is a `FeedbackStore` object: its write health (`unverified`, `ok`,
`failing`: the outcome of its last write), whether it lost a billed write
(`tainted`, which never resets), whether it was opened read-only while the
storage was down. Each handle has its own lock; several may be open on one
file. A run's request takes a snapshot of the flags (`Submit`, which also
starts a reconnect), is admitted or turned away, fetches the process-wide
handle, checks the rails under that handle's lock, inserts the charge, charges
the ring; later it reconciles to its measured cost or voids. The ring is empty
after a restart; `RowAges` moves rows out of the 24-hour window. `via` (which
handle wrote a row) and `checkedAt` (the ledger's length at the check) are
history variables that only properties read.

`EventRows` is the same file as rows with times, on a clock that only goes forward
(the stamps are wall-clock times, and a clock set back is left out): the windowed
sums, the cap on minted sessions and the wait a visitor is told, the wipe of old
identifiers and the one-shot repairs at a start. Left out of both:
simulated-execution charges, the legacy cost path, failing SELECTs, ties of the monotonic
clock.

### CostGate, Pricing, RateLimit

`CostGate` mints a token with each estimate, purges and evicts tokens, and lets
a create redeem one under the table's lock; `Pricing` computes the figures an
estimate shows and the bound it is judged by, over a grid of inputs; the block
of the daily cap inside the estimate is `SpendLedger`'s. `RateLimit` has
requests that read the clock before they take the lock, and two counts of its own:
`seen`, the clock under which a caller's bucket was last touched or swept away, and
`slipped`, how far its requests came behind that.

### JudgeMemo, JudgePurchase and EvaluationRows

Readers are the threads that evaluate a terminal run. A read of the evaluation
memo may hit; else the judge looks up the verdict memo, asks the rails if nobody
is paying, looks again and claims, waits, or is suppressed; the owner calls,
stores the verdict, releases the claim and resolves the future; the evaluation
is stored unless it was suppressed. Waiters may time out, an owner may raise, and
the run may be written late (its `updated_at` is the memo's key). `paid` counts
calls per run and stops at 2.

`JudgePurchase` knows of each run only how far the purchase of its verdict is
(unknown, claimed, called, or what the verdict says) and what was paid. It has no
readers, no waiting and no memo order. `JudgeMemo!Stage` reads that off the memo
and the claim.

`EvaluationRows` adds the worker that evaluates a run twice, for the figures it
serves and for the row, with best-effort writes; a second persist of a run is
there because the docstring promises it is harmless.

### AccountHistory

Runs have two recorders: the pipeline's persist and the cancel request. Each
looks for the owner in the accounts table, then in the carry-over links, and
writes the row (a transaction that writes only for an account that exists and
never moves a row of another account, then trims). The sign-in callback is
followed from the account's upsert on, one lock hold or store call at a time;
the deletion is `BeginDeletion`, `DeleteRows` (one transaction, which may
fail), `RevokeAccount`, `ForgetLinks`, `ForgetMetrics`, `EndDeletion`.

Left out: write failures of the two recorders (they are best effort: a failed
write is a missing row), a link's lapse (its lifetime is longer than any run of
its account), the age sweep, the purge of old terminal runs (ADR-0135 documents
that they are then not carried), durable session rows, restarts.

### Sessions, SessionLife, PendingSignIns

A session has a cached half (`cached`, under the registry's lock) and a row
(`rows`). A thread that looks a session up holds the lock at the ends of the
lookup and reads the store in between, so it works on a copy it has read
(`copy`, `seen`, `read`); `pc` says where it is, by the names of the code's
reads and writes. A use of a session, its throttled write, sign-in, sign-out,
sign-out everywhere (cutoff in memory, cutoff in the file, rows), deletion of
the account and the operator's command are threads' operations; idle and
absolute age are `SignedInIdle`, `SessionTTL` and the two maximum ages. A
restart empties the cache and keeps the rows; a write may fail. `promised`,
`swept`, `late` and `lastUse` are history variables: what a visitor or the
operator was told, and when a session was used.

`SessionLife` has only live and ended sessions and requests that act;
`Sessions` implements it (`EndedSessionNeverActs`). An ending whose durable half
failed is `ended_here`, kept as long as the process lives. A crash in the middle
of a deletion may leave a row behind, which a later process restores as an
anonymous session: the account is gone and no step of the code finishes such a
deletion. One account is enough, because nothing of one account depends on
another; an account that signs up anew is `AccountHistory`'s. The clock stands
still between the reads of one restore, which take no time that a limit of hours
could tell.

In `PendingSignIns` a start is known by its number; the dict of pending starts is
what is left of them. Requests of one browser overlap, a URL is loaded twice or
in another browser, Google answers as it likes. How sessions end is `Sessions`',
here it is a state: live, aged, ended, revoked.

### The services

`ProviderCall` follows one call from the search ladder to the answer: the POST,
the body read under a budget, the event stream, what each failure says of the
bill, the backup search, and the runner that may stop waiting. What the provider
did (finished, broke off) is kept beside what its lines said: after an error frame
any reason may still come, a clean `stop` included.
`ModelCatalogue` has the cache, the refresh event, waiters whose timeout may
pass before the fetch ends, and the time to live. `Readiness` adds the probe's
thread and the report over it.

### What is made of the answers

`Deliberation` has the two rounds in both shapes, the section pool, fallbacks,
the stance votes and what is said of the agreement; what a call brings is an
input. `Trust` reads markers off texts given as tokens, makes the signals, the
two labels and the score; the judge's polarity is an input and the markdown
parser is external. `Evidence` chooses sources and passages under quotas and
reads robots.txt; `SourcePages` fetches pages under one deadline with a watchdog,
redirects, a body cap and one PDF child for the whole server. Whoever ends a body,
the site has ended it: a connection that breaks off before the declared length looks
the same to `read1`, so a page *read to its end* is one that was not cut by the
service itself.

### The page and the live switch

`Composer` is the question from the estimate to the create, `RunView` the run on
screen with its scopes, polls and stops, `TabTokens` the anti-forgery token that
tabs renew and post to each other. `DeclaredWindows` is the gate of a commit,
`CloseWindow` the script that takes a window back in two writes, `PostureWatch`
the workflow that compares production with the declarations.

## 3. Runs

Each run uses two workers and finishes within five minutes, most in under two.

| run | instance | shows |
|---|---|---|
| `pipeline` | a panel run of 2 slots and a quick run, one of which is asked for; 2 calls of the judge for a run; every failure, cancel, deadline, eviction, purge | `MeasuredBillIsExact`, `SettledBillStaysTrue`, `StagesTakeTurns`, `FinishedRunKeepsItsPromise`, `NoUnbookedSpend`, `TerminalIsFinal`, `EveryChangeIsStamped`; under fairness `EveryRunEndsAndFreesItsPermit` |
| `admission` | 4 POSTs, 3 of one account and one served inline, 2 permits; and, as parts, tokens, buckets, figures, event rows, the live switch | `OneActiveRunPerAccount`, `PermitsAccountedFor`, `QuotesAreHonoured`, `LimitIsAsAdvertised`, `CostFiguresHold`, `EventRowsHold`, `LiveSwitchIsWatched` |
| `ledger_rails` | 2 runs of one account with estimate 2 against a cap of 3 and a ceiling of 4; a ring of 2; 3 handles; 1 fault, 1 restart | `LiveRunsAreCharged`, `RingFollowsLedger`, `OverRailsOnlyAcrossHandles` |
| `ledger_recovery` | 1 run, 1 visitor, fail-closed, 1 fault, 1 restart | `LedgerRecovers` under fairness |
| `judge` | parts: 2 readers and 2 runs with room for 1 verdict; 1 reader and 3 runs with room for 2; a worker persisting beside a poller | `OnePayerPerRun`, `PayerAskedTheRails`, `VerdictIsBoughtOnce` (the refinement), `PaidVerdictIsKept`; under fairness `LoneReaderGetsItsVerdicts` |
| `carry_and_delete` | 2 runs, 1 anonymous session, 2 sign-ins, 1 deletion, 2 identities, 2 account ids, 1 kept row, 2 recorders | `DeletionLeavesNothing`, `EveryRunIsListedRight` |
| `session_endings` | parts: 4 scenarios of 2 threads and up to 3 sessions; the handshake | `EndedSessionNeverActs` (the refinement), `SessionEndedOutsideNeverActs`, `StartedSignInIsItsOwn` |
| `services` | parts: a provider call, 3 callers of the catalogue, the probe, the page | `AnswerIsAsItCame`, `FetchIsSharedWhileItRuns`, `ProbeReportIsTheProvidersWord`; under fairness `EveryCallerReturns` |
| `safeguards` | parts: a panel of 3, the judge's pages, evidence and trust, two tabs, the composer, two runs on one page | `PanelIsReadAsItSpoke`, `TrustIsEarned`, `EvidenceIsFair`, `PagesAreReadAsAllowed`, `TabsHoldTheirToken`, `ComposerKeepsItsWord`, `OneRunOnScreen` |
| `broken_generation` | one provider call of at most 3 lines | *violated*: an error frame without a reason, then `stop`: a generation that broke off is shown as a whole answer |
| `ledger_cap_is_its_number` | as `ledger_rails` | *violated*: two handles, two locks, one cap |
| `ledger_lost_reconciliation` | as `ledger_rails` | *violated*: a lost reconciliation still corrects the ring |

### Why these bounds

The interesting cases need few actors. A cancel, the worker and the deadline
already meet in one run; a second slot is what makes a partial answer, a second
run what makes competition, a third what shows that a permit returned by one is
taken by another. One fault and one restart are enough to reach every kind of
handle (healthy, failing, tainted, read-only), and three handles are what one
reconnect around one restart can have open. Two estimates that fit the cap alone
and not together are the smallest case of the rails. Room for one verdict with
two runs makes every second read an eviction. `KeepCount` 1 makes every second
row of an account a trim. `MaxRecorders` 2 in `carry_and_delete` lets two runs
end, or one run end and be cancelled; with 3 the same invariants hold over 5.2
million states.

- `admission`: three runs of one account are interchangeable and ask in a fixed
  order; at most two get in per behaviour, and the judge is off (it is in `pipeline`,
  where two calls of it for a run are the smallest case of a call after an eviction).
  Tokens: 2 requests beside 2 earlier
  quotes, room for 3 tokens that live 1 moment of 2. Buckets: capacity 2, refill
  1, stale after 2, a clock of 3, 5 requests of which 3 may be waiting for the lock, so
  that two of one caller come behind a sweep that another's request makes. Event rows: 3 rows;
  minted sessions with window 5, retention 6, interval 1 and clock 9, charges with
  window 2, retention 3, clock 5 over four histories. Figures: a quantum of 5
  units, 12.6 thousand inputs, each one step. The live switch: a cadence of 2, 4
  moments, 3 edits over 6 declarations; the watchdog with 2 hosts, 1 move of
  production and 4 sets of earlier comments.
- `session_endings`: *Endings* and *Deletions* have two browsers signed in to one
  account and one restart; *Operator* runs the command beside them; *Faults* has
  one browser, one failing write and the time to grow too old. The handshake has
  one browser with two requests at a time, two starts of which one has a place, a
  second moment and a second session; whoever the browser starts as is *ann*,
  because people are alike.
- `services`: a call of at most 3 lines under a budget of 3 moments with a receive
  timeout of 2; one lapse of the catalogue; one change of the provider's mind; one
  run, 2 scopes, 2 polls and 1 stop on the page.
- `safeguards`: texts of up to 7 tokens that have no two adjacent groups of
  digits; passages of 3 characters, a page of 5 out of 7; robots patterns of at
  most 3 characters; a budget of 2 moments, one chunk before the cap, one page a
  host; two tabs of one session; a risky question and a follow-up; 2 runs in 3
  scopes with 2 polls and 1 stop.

The bounds on counters are constants. Symmetry is used where the names are
interchangeable and the run checks no liveness: the handles; the runs, callbacks,
accounts and identities of `AccountHistory`; the threads and the held sessions of
`Sessions`. Most runs switch deadlock checking off because the modelled system may
really stop: all requests are answered, all bounded work is done.

### Fairness

`QueryRuns!Fairness`: a thread that runs keeps running (weak fairness of the
request once it has begun, the worker, the stamp of a cancel), a provider call
or a judge's call ends (the HTTP client has a timeout), and the run's budget runs out
(a clock). A user need not do anything: there is no fairness on submitting, cancelling
or reading a run.

`SpendLedger!Fairness`: visitors go on asking for estimates and are answered, a
run that holds a handle's lock inserts, the reopening thread runs, the cooldown
passes, and somebody repairs the storage. `LedgerRecovers` is conditional on
the storage staying up.

`JudgeMemo!Fairness`: a started evaluation goes on, and each run is read again
and again (strong fairness, because the one reader of that instance is busy in
between). `VerdictArrives` is conditional on the rails staying open.

`ModelCatalogue!CatalogueFairness`: a fetch ends one way or the other, a wait's
timeout passes, and a thread runs on. `Readiness` adds that the
probe's thread, where it was started, checks again at its interval for as long as the
process runs, and that a check is answered again and again (strong fairness: of a
provider that never answers, there is no verdict to catch up with). Nobody need ask for
a report. `ProviderCall`: the worker goes on and time passes.
`RunView!ViewFairness`: the run ends on the server, the page's timer polls, a stop
and a poll are answered or fail, and a poll of the scope on screen that found the
run ended is not delayed for ever by others (strong fairness).

## 4. Proofs

Proofs hold for every value of the constants that satisfies the named
assumptions the modules declare, which TLC evaluates on every run.

**`QueryRunsProofs`**: `RunsInvariant` proves the inductive invariant `RunsInv`,
one step per action. Beside the type invariant it says where each thread can
be: a run exists only after its POST created it and a worker runs only after
its POST charged it; nothing was answered, called or recorded before the worker
began; the slot being recorded has its answer in hand; a legacy run never holds
a permit; a bill is settled only after the pipeline ended; and how the stages'
billing states follow the worker's place (`CaptureState`). The last is why the
invariant is needed: *measured* claims that every call is in the receipt, which
is inductive only with what the worker has called and not yet recorded at each
of its places. From it follow `TypeCorrect`, `SpendIsBooked`
(`NoUnbookedSpend`), `MeasuredIsExact`, `TerminalStatusIsFinal` (an action
property), `OneActiveRun`, and `PermitsConserved`, which counts the holders with
the library's facts on cardinality.

`JudgeInvariant` proves `JudgeInv` on top of it. A settled run has ended
(`SettledHasEnded`), and its answers, charge and status are final, so whether it may
be judged is settled with it. Until its verdict is evicted a run is judged once, and
what the memo holds of it was called for (`JudgedOnce`); a receipt settled as measured
has booked every call there was (`JudgeIsBooked`): none, because the run is never
judged, or one, which was captured. From it follows `SettledStaysTrue`
(`SettledBillStaysTrue`), which names the exception: a run whose verdict was evicted, or
whose worker went without one, may be judged, and paid for, after its bill was booked.

Its second part, `StageInvariant`, proves `StageInv` on top of it, run by run.
While nobody has ended a run its progress is the one its worker's place shows
(`InPlace`); one party ends a run, the worker, the deadline or the canceller, and
it alone owes the stamp of what was in progress (`EndedByOne`), so that no stage
is left in progress once nobody owes a stamp (`SpinnersEnd`). The debate is
recorded before synthesis is entered and both before a run completes
(`CapturesInOrder`); every slot behind the worker's cursor has its answer or its
failure (`SlotsBehindCursor`), which is what a deadline serves (`LeftAnswers`); a
completed run went through what its kind promises (`CompletedIsWhole`). A step
writes the row of its own run only, so each action is treated once for its run.
From it follow `StagesInTurn` (`StagesTakeTurns`) and `PromisesKept`
(`FinishedRunKeepsItsPromise`). `ChangesAreStamped` (`EveryChangeIsStamped`) is an
action property: a step stamps its run, purges it, or leaves all that is served
of it.

**`JudgeMemoProofs`**: `PayInvariant` proves `PayInv`: the claim of a run
names its payer while the call is out; a reader that has decided to pay asked
the rails; and nobody pays for a verdict that is in the memo (`PayerMissed`).
The last needs lemmas on the memo as a sequence: a touch keeps its entries,
storing adds only the stored run's (`TouchedKeys`, `StoredKeys`). From it follow
`OnePayer`, `NoUnaskedSpend` and `NeverBoughtTwice`.
`BoughtOnce` proves that **`JudgeMemo` implements `JudgePurchase`**. For it
`BuyInvariant` adds two facts to `PayInv`: the memo has one entry for a run
(`OneEntryPerRun`; with two, moving one to the end could change what the memo says),
and every claim belongs to a reader whose call is to come or out
(`ClaimHasItsCall`; without it, a run whose verdict is evicted might be claimed already).
`WhatReadersDo` sorts the steps: they change nothing `JudgePurchase` knows of, or
claim, or call, or keep. The lemmas on the sequence say that a touch changes nothing
the memo says (`TouchedSays`), and that storing says the stored verdict and of the
others nothing new (`StoredSays`, for every size of the memo).
The second part is about the pages the judge is told of. `PagesInvariant` proves
`PagesInv` of `SourcePages`: there is one row for each address that is behind, in
their order (`RowsAreInOrder`), and while an address is tried the caps have room for
it (`WithinCaps`); a robots.txt that counts was read whole, it is read once, and a
page only after it, so what a row says stays in agreement with it (`RobotsFirst`,
`FetchedAsAllowed`); a body that is not read on was ended by its site, cut at its cap
or its connection was shut (`BodyIsAccountedFor`), which is what tells the end of a
page from the watchdog's; and a child's wall is not beyond the deadline. The lemmas on
the operators say that every address is listed once (`DistinctIsDistinct`,
`DistinctIsWhole`), what a row more counts (`OneMoreTried`), and that no more rows are
shown than may be (`FewAreAhead`). From it follows `PagesReadAsAllowed`, all that
`PagesAreReadAsAllowed` says of the instance: the listing adds up because the lines
that pages stand under and the rows shown are in a bijection (`OneLineEach`), and a
page that was read is always shown because only tried ones come before it
(`ReadPagesAreShown`).

**`SpendLedgerProofs`**: `LedgerInvariant` proves `LedgerInv`: a request between
its check and its insert holds its handle's lock (`ChargerHoldsHandle`), so no
row has come in through that handle since the check (`NoRowSlipsIn`), and a live
run has its charge in the ledger. The two lemmas say what a write does to the
ledger as a sequence. From it follow `LiveRunsStayCharged` and
`ChargesOfOneHandleAreAtomic`; the latter is the part of the cap that one lock
ensures, and what a second handle takes away is the violated run
`ledger_cap_is_its_number`. `RingInvariant` proves `RingInv`: what the ledger and
the ring hold of a run at each place of its charging and settling (`Standing`).
A run that is not booked has no row and no entry; the correction of a run is one
row, its last (`Corrected`); and until the first fault every handle can write
(`SoundUntilFault`), which is what makes the two meters agree so far. From it
follows `RingFollows` (`RingFollowsLedger`).

**`AccountHistoryProofs`**: `DeletionInvariant` proves `DeletionInv`. The
property is about what is left when everybody is done; the invariant says, in
every state before, who owes the cleaning: a session of a deleted account belongs
to a callback that has yet to look at the account (`SessionsAreLooked`), a link to
it has a callback or a deletion at work that will drop it (`LinksAreDropped`), and
a metrics row has its writer or a deletion (`RowsAreCleared`). It rests on ids
being drawn once (`GoneForGood`): a deleted account never exists again, though its
Google identity may sign up anew. From it follow `HistoryStaysGone`,
`NobodyStaysSignedIn`, `LinksGo`, `MetricsLoseTheAccount`, and together
`DeletionIsFinal` (`DeletionLeavesNothing`), for any number of deletions, also of
one account at once, where the run has one.

Its second part, `ListingInvariant`, proves `ListingInv` beside `DeletionInv`.
That a run is listed with its own person and nobody else: each session is replaced
once (`OneSignInPerSession`), so what an anonymous session became stays what it
became (`Became`), and every link, owner and row names that (`ListedWithTheirs`);
a sign-in takes an account for an anonymous session only if it is the browser's
(`PreviousIsTheirs`). That it is listed: a run is `Shown` when it is in the
history or enough newer runs are, and one that is not has a recorder, or a sign-in
with it on its list, at work (`OwnRunsAreShown`, `CarriedRunsAreShown`). The trim
drops at most the oldest row of an account that has one too many (`HistoryIsShort`,
`EndsInOrder`), so what is shown stays shown. `GoneIsGoing` counts the deletions
under way against the marks of an account, which a recorder asks. From it follows
`EveryRunListedRight` (`EveryRunIsListedRight`).

**`SessionProofs`**: two inductive invariants for any number of sessions, threads
and scenarios and any limits the assumptions allow.

`EndingInvariant` proves `EndingInv`. A session that this process did not make and
whose end it did not note is older than the process (`Births`, `KeptInMemory`), so
every cutoff the process meets covers its birth (`CutoffsCover`); a session that
was ended and has a row left is barred, by its age, by a note or a cutoff in
memory, or because the row is older than the deletion (`EndedIsBarred`); a lookup
that has read the row before the end sees the end when it takes the lock again
(`SeesTheEnd`); and the rows a deletion finds late are those of cached sessions
(`WrittenBack`). Steps are classified by what they do to one session (it begins,
ends, is restored, used or written), to one thread, and to one promise. From it
follows `NoEndedSessionActs`: **`Sessions` implements `SessionLife`**. Creating a
session maps to `Begin`, passing the lookup to `Act`, a restart to `Restart`,
revoking, signing out everywhere and deleting to `End`, everything else to a
stutter.

`OutsideInvariant` proves `OutsideInv`: neither the cache, nor the row, nor a
reader's copy says that a session was used later than it was (`UsesAreKnown`); a
session of the account is there only after the account was, which is gone for good
(`AccountStands`); a signed-in session is taken for an anonymous one only when the
account is gone (`TakenForAnonymous`); what the operator was told has ended has no
row and is at or before the cutoff (`SweptAreOver`); and a request that came after
that gets past the lookup only if the account is gone (`LateAreRefused`). With the
limits a cached session is held to, never longer than its own kind's, this gives
`EndedOutsideNeverActs` (`SessionEndedOutsideNeverActs`).

**`HandshakeProofs`**: `HandshakeInvariant` proves `HandshakeInv`. The table of
started sign-ins has at most one start of each session and none that was used
(`TableIsOwn`); a deletion was asked for by the account its session has
(`AsksForItsOwn`); a callback under way holds a start of its own session, taken in
time, that nobody else holds or has completed (`TookItsStart`, `NoTwoReturn`,
`UsedUp`). Sessions, starts and uses only grow (`SessionsGrow`, `StartsGrow`,
`Grows`). A start that was pushed out is accounted for by counting: the table was
full, so as many later starts of other sessions as it holds have followed. From it
follows `SignInsAreTheirOwn` (`StartedSignInIsItsOwn` of `PendingSignIns`, which
the run checks on its instance), for any number of browsers, threads, sessions and
starts and any size of the table.

**`CostGateProofs`**: `GateInvariant` proves `GateInv`: a token has a number no other
quote has and the life it was given when it was quoted (`Numbered`, `Timely`); no
more tokens are kept than the cap; and a dear run that was admitted has used up a
quote of its own (`UsedItsQuote`), which is gone from the store for good, so that no
other run is admitted on it. A purge drops what expired and then keeps exactly as
many as the cap allows of those that last longest; the lemmas
`PlacesBelowTheCap` and `PurgeKeepsTheLongest` rank the tokens and count the ranks.
From it follow `DearRunsWereQuoted` and `EveryQuoteIsHonoured` (`QuotesAreHonoured`
of `CostGate`, which the run checks on its instance), for any number of requests,
any prices and any cap.
`LimitInvariant` proves `LimitInv` of the rate limits, for any callers, bucket and
refill and any order at the lock. Two bounds carry it. What a caller was let through
since any of its requests, and what its bucket still holds, is at most a bucket, one
request, and the refill of the time since, its slips included (`NothingIsGained`);
and what is missing in a bucket went through to its own caller, with all that was
refilled since some request of its (`NothingIsLost`). A bucket that is forgotten or
swept gives back a full one and one request more, which the refill of the idle time
covers: that is the one assumption, `LimitAssumption`. From it follows
`TheLimitIsAdvertised` (`LimitIsAsAdvertised` of `RateLimit`, which the run checks on
its instance). The assumption holds of the session and the account limiter (10 at 10
a minute, 30 at 30, forgotten after five minutes). The limiter of started sign-ins
(5 at 1 a minute) meets it on a clock of whole minutes only; see §5.
`WatchInvariant` proves `WatchInv` of the watchdog over the live switch, for any number
of hosts, any windows and re-affirmations and any moves of production while it reads:
what it read of an endpoint was so at some moment of the check (`ReadsAreOfTheCheck`),
and its verdict alerts when it must and only then (`VerdictIsRight`). The verdict's
part is in the lemmas: a window is attended while it is new or its owner's last word is
(`WhoAttends`, where the last of some moments is a least age), one of the windows that
cover a moment comes before all others (`OneGoverns`, by the least prefix without one),
and each branch of `EvaluatePosture` alerts or not (`WhatAlerts`). From it follows
`TheSwitchIsWatched`. `CloseInvariant` proves `CloseInv` of the closing script: between
its two writes the flags are off and it holds the windows closed as it read them. From
it follows `ClosedWindowsAreClosed`; together the two are what `LiveSwitchIsWatched`
says of the instances. What is assumed of a declaration is its shape, and of a
re-affirmation that it is made on an issue.

**`ServicesProofs`** holds four components that wait for an answer.
`CatalogueInvariant` proves `CatalogueInv` for any number of callers: a caller has
an event in hand from the moment it decides to wait until it looks again
(`WaitsForAnEvent`), the announced event is still to be set (`AnnouncedIsUnset`), and
until the first trouble a waiter waits for the announced fetch or was woken with a
catalogue in place, a fetch under way is announced, and nobody else fetches
(`Sharing`). That an event number is free for a new fetch is a counting argument
(`FreshEventIsFree`). From it follow `FetchIsShared`, and `ReadinessSharesTheFetch`
when the callers are requests for the readiness report, which go on with other work
after their call (what `FetchIsSharedWhileItRuns` says of the instance).
`ViewInvariant` proves `ViewInv` of the page: a question in flight knows its scope
and the run of it, and none is about a later scope (`CallsKnowTheirScope`); the trail
holds handled scopes (`TrailIsOfHandled`); a result that can be gone back to is the
handled scope's (`ResultIsOfScope`); nothing is restored under a run that is watched
(`NothingRestoredWhileRunning`). From it follows `OneRunIsOnScreen`
(`OneRunOnScreen` of `RunView`), whichever answers come late.
`TabInvariant` proves `TabInv` of the tabs, for any number of them: the counter is
past every number that a post, a tab or the renewal with the lock bears
(`CounterIsAhead`); posts are numbered in the order their tokens were issued, and the
answer still to be kept is the newest of all (`PostsAreInOrder`, `AnswerIsNewest`); a
number stands for one token (`OneTokenPerNumber`); and of whatever is newer than what
a listening tab holds, and is its person's, a post is on its way to it
(`NewsIsOnItsWay`), which is what makes the tabs agree once nothing is on its way. A
tab that stopped sharing, or whose renewal failed, drops out of these, and most steps
only let tabs drop out (`Quiet`). From it follow `TheNewestTokenWins` and
`NoTokenIsAnothers`, the two halves of what `TabsHoldTheirToken` says of the instance.
`ComposerInvariant` proves `AskInv` of the composer, for any questions and any number
of calls: each control is busy for a call of the question as it stands, which will
give it back (`FlagsAreHeld`); at most one such call proceeds to a run, and once its
create was sent the question is not dropped (`OneProceeds`); what proceeds, and what
was started, was priced as it stands and not blocked (`ProceedsAsPriced`); and the
ticks the person made cover the risky runs that were started, the one whose create
was sent and the tick that waits (`TicksAreForOne`). It takes from the code that a
drop is refused, or leaves the controls alone, while a create is under way: without
`OneProceeds` the `finally` of a dropped call could free the controls of the next.
From it follow `RunsAreTheOnesPriced`, `RiskyRunsAreTicked` and `NoControlStaysBusy`,
the three parts of `ComposerKeepsItsWord`. The composer is assumed to be left with a
question when a follow-up's context is dropped (`ComposerAssumption`).

**Only model-checked.**

- All liveness (`EveryRunEndsAndFreesItsPermit`, `LedgerRecovers`,
  `LoneReaderGetsItsVerdicts`, `EveryCallerReturns`, and the half of
  `ProbeReportIsTheProvidersWord` that the verdict catches up): out of the prover's
  reach.
- `OverRailsOnlyAcrossHandles` compares sums over the ledger; that a sum grows
  with its rows is an induction over the fold that defines it, which the provers
  cannot do. `EventRowsHold` and the sums of `CostFiguresHold` likewise.
- `PaidVerdictIsKept`: the evaluations memo is filtered, and the filter of a
  sequence is defined by recursion.
- `PanelIsReadAsItSpoke`, `TrustIsEarned`, `EvidenceIsFair`, `AnswerIsAsItCame`:
  what they say is in what folds over texts and answers compute.

## 5. Where code and documents disagree

Shown by a run:

- An error frame that came without a reason is written down "rather than letting a
  broken generation report a clean stop" (`providers.py:3269`), but the reassembly keeps such an error only while no reason
  follows: a frame with an error and no reason, and then one that says `stop`, give an
  answer that is whole to everyone who reads it (`broken_generation`).
  `UnmarkedAnswerIsWhole`, a part of `AnswerIsAsItCame`, says that nothing else does.
- A daily cap is promised to *mean its number* (`costs.py:1548`), but the lock
  that closes the window belongs to the store object, and a reconnect swaps the
  object under a charge in flight (`ledger_cap_is_its_number`).
  `OverRailsOnlyAcrossHandles` checks that this is the only way.
- The two rails are said never to diverge through a reconciliation
  (`costs.py:1668`); the reconciliation reports success for a row that was not
  stored (`ledger_lost_reconciliation`). `RingFollowsLedger` says that nothing
  else makes them diverge.

Met while reading, without a run of their own:

- `docs/29-state-machines.md` lists next states that miss every `cancelled` and
  the early `partial` and `timed_out` the code allows.
- After other runs' verdicts pushed a run's own out of the memo, a later `GET` pays the
  judge again, and no ledger shows that call. The code says so of itself (#216,
  `query_run_orchestration.py:1828` and 2578); `SettledBillStaysTrue` makes it the only
  way. A served receipt may then also turn from measured back to estimated: if the later
  call brought no cost, `_actual_cost` of the same settled run is estimated.
- The page's elapsed time of a run may move after the run ended, because
  marking a run unmetered stamps it at any status (`query_run_orchestration.py:878`;
  the docstring at 780 says it must not).
- `_persist_terminal_run` says that two terminal call sites may double-fire; each
  run reaches one of them only. A legacy (inline) run whose worker raises stays
  active until its purge.
- A history entry is built before it is written, so a cancel's or a carry-over's
  entry can replace the worker's row, verdict included (`account_history.py:63`).
- ADR-0135 places the carry-over before the old session's revocation; the
  callback rotates first (`google_signin.py:820`). The properties hold in the
  code's order.
- A crash between the deletion of an account's rows and of its id on the
  metrics rows leaves the id there (`account_deletion.py:82`).
- "Never moved to another account" is ensured twice over, in the SQL and by the
  check that the old session was anonymous.
- The comment on `Fails OPEN` (`costs.py`, near 1551) precedes the fail-closed
  setting that turns an unmetered run into a refused one.
- A confirmation token is consumed although the create is then refused for
  capacity or because a run is active.
- Figures: where all models are free, equalising the rounds may show one quantum on
  a free line (`costs.py`, near 1866); on an overdrawn day a free run is refused
  beside a remaining of 0.
- The limiter gives an idle full bucket one free pass, and requests that overtake
  each other at its lock gain the time they slipped. Dropping a stale bucket is said
  to grant nothing (`query_runs.py:501`); a request that waits for the lock behind
  the sweep finds a fresh bucket, where it would have found the old one. With 5
  starts at 1 a minute, a caller that returns just after five minutes gets its free
  pass and a full bucket, one more than five minutes refill; the advice at
  `config.py:845` (at most 5 times the rate) leaves that one out.
- If the start-up repair of old rows fails and a later start succeeds, it takes
  the live charges written meanwhile for old ones, where the docstring says that a
  restart repairs it (`feedback_store.py`). A visitor who comes back at exactly the
  promised second is still refused.
- `catalog_loaded` is said to be true iff the catalogue was fetched
  (`readiness.py:191`); the service under it swallows failures
  (`model_slots.py:611`). That all waiters see the populated cache and one thread
  fetches (`list_models`' docstring) fails when a waiter that timed out replaced
  the event, or a fetch fails; `FetchIsSharedWhileItRuns` says when it holds.
- Brackets around a link that is cut out close up, so that `[[a](u)1]` counts as
  the marker 1. A link is said to span from the outermost opener still on the stack
  (`evaluation.py:425`); the scan pops the innermost one.
- An estimate that is answered while a create is in flight opens the cost gate over
  the live run with its button enabled, and a late poll after *Stop it & start new*
  may still finish the old scope (`app.js`).
- `close_live_window.py` run at exactly a window's `opened_at` writes an
  `expires_at` that `parse_windows` then refuses; and closing over a standing
  window whose ADR was revoked exits 0 although the gate refuses the commit.
- A sign-out everywhere that falls into the exchange with Google is not seen by
  the callback, which is a documented limit.

## 6. Plan

Done: the core (`QueryRuns`, `SpendLedger`, `JudgeMemo`, `AccountHistory`), the
sessions and the judge's purchases with their abstract specifications, what stands
before a run, the services, what is made of the answers, the page and the live
switch; proofs of the core's safety properties, of the purchases, of the sessions
and of the handshake, of the cost gate's quotes, of the rate limits, of the live switch and its watchdog, of the
catalogue's single flight, of the page's one run on screen, of the token its tabs
share, of the composer's word and of the pages the judge is told of.

Next, most important first:

1. An abstract specification `RunLedger` (a run is charged at most once and
   settled at most once), implemented by `SpendLedger`.
2. A restart in `AccountHistory` and the verdict column of its rows.

## 7. Not modelled, and why

Prompt building, the parsing of a model's answer, the similarity of two texts,
safety patterns, redaction, HTTP and HTML, configuration parsing and the decoding
of fetched text are sequential and are tested as such. `safety.py` and the
feedback audit match patterns and write reports; logging, request ids and
telemetry are output that nothing reads back; `main.py` and `config.py` wire the
routes, whose handlers with state of their own are modelled. The repository's
tooling (`infra/`, `e2e/`, `.agents/`, and `scripts/` but for the live switch) is
not part of the running program. `PROJECT.json` lists each part with its status
and what of it is left out.
