------------------------ MODULE AccountHistoryProofs ------------------------
(* What AccountHistory promises of a deleted account for every number of    *)
(* runs, sessions, sign-ins, deletions and identities.                       *)
EXTENDS AccountHistory, FiniteSetTheorems, WellFoundedInduction, TLAPS

WorkerLabels == {"none", "asked", "running", "metrics", "mark", "owner", "link", "write", "done"}

SignInLabels == {"idle", "previous", "rotate", "anonymous?", "going?", "link", "collect",
                 "carry", "confirm", "forget", "done", "failed"}

\* What the deletion of an account depends on has its shape.
Shape ==
    /\ accountOf \in [Subjects -> Accounts \cup {Nobody}] /\ drawn \subseteq Accounts
    /\ history \in [Runs -> Accounts \cup {Nobody}]
    /\ metrics \in [Runs -> Ids \cup {Nobody}]
    /\ sessions \subseteq Sessions /\ deleted \subseteq Accounts
    /\ carried \in [Ids -> Accounts \cup {Nobody}]
    /\ runOf \in [Runs -> Ids \cup {Nobody}]
    /\ worker \in [Runs -> [Recorders -> WorkerLabels]]
    /\ owner \in [Runs -> [Recorders -> Accounts \cup {Nobody}]]
    /\ at \in [SignIns -> SignInLabels]
    /\ into \in [SignIns -> Accounts \cup {Nobody}]
    /\ dpc \in [Deletions -> {"idle", "rows", "revoke", "links", "metrics", "end", "done"}]
    /\ victim \in [Deletions -> Accounts \cup {Nobody}]

\* An id is drawn once: an account that is gone never exists again.
GoneForGood ==
    /\ \A s \in Subjects : accountOf[s] \in drawn \cup {Nobody}
    /\ \A g \in deleted : g \in drawn /\ ~Exists(g)
    /\ \A d \in Deletions :
        /\ victim[d] \in drawn \cup {Nobody}
        /\ dpc[d] \in {"rows", "revoke", "links", "metrics"} => victim[d] \in drawn
        /\ dpc[d] \in {"revoke", "links", "metrics"} => ~Exists(victim[d])
        /\ dpc[d] \in {"links", "metrics"} => victim[d] \in deleted

\* A run somebody works on has the account it was asked for under, and only a
\* run that was started is cancelled.
RunsHaveAccounts ==
    \A r \in Runs :
        /\ worker[r]["pipeline"] # "none" => runOf[r] # Nobody
        /\ worker[r]["pipeline"] \in {"none", "asked"} => worker[r]["cancel"] = "none"

\* A session of a deleted account belongs to a sign-in that has yet to look.
SessionsAreLooked ==
    \A p \in SignIns :
        /\ at[p] \notin {"idle", "failed"} => into[p] # Nobody
        /\ p \in sessions =>
            /\ at[p] \in {"anonymous?", "going?", "link", "collect", "carry", "confirm", "done"}
            /\ into[p] \in deleted => at[p] # "done"

\* A link to a deleted account has somebody at work who will drop it.
LinksAreDropped ==
    \A a \in Ids : carried[a] \in deleted =>
        \/ \E p \in SignIns :
              into[p] = carried[a] /\ at[p] \in {"collect", "carry", "confirm", "forget"}
        \/ \E d \in Deletions : victim[d] = carried[a] /\ dpc[d] = "links"

\* A metrics row names the run's own account, and one that names a deleted
\* account has somebody at work who will clear it.
RowsAreCleared ==
    \A r \in Runs : metrics[r] # Nobody =>
        /\ metrics[r] = runOf[r]
        /\ worker[r]["pipeline"] \in {"mark", "owner", "link", "write", "done"}
        /\ metrics[r] \in deleted =>
              \/ worker[r]["pipeline"] = "mark"
              \/ \E d \in Deletions : victim[d] = metrics[r] /\ dpc[d] \in {"links", "metrics"}

DeletionInv ==
    /\ Shape /\ GoneForGood /\ RunsHaveAccounts
    /\ SessionsAreLooked /\ LinksAreDropped /\ RowsAreCleared /\ DeletedHistoryStaysGone

-----------------------------------------------------------------------------
\* A history write (RecordHistory) lists runs only under an account that exists.
LEMMA HistoryWrite ==
    ASSUME Shape, NEW r \in Runs, NEW id \in Accounts \cup {Nobody}, RecordHistory(r, id)
    PROVE  /\ history' \in [Runs -> Accounts \cup {Nobody}]
           /\ \A q \in Runs : history'[q] \in {history[q], Nobody} \/ (history'[q] = id /\ Exists(id))
<1> DEFINE h == IF Exists(id) /\ history[r] = Nobody THEN [history EXCEPT ![r] = id] ELSE history
<1>1. history' = Trim(h, id)
    BY DEF RecordHistory
<1>2. /\ h \in [Runs -> Accounts \cup {Nobody}]
      /\ \A q \in Runs : h[q] = history[q] \/ (h[q] = id /\ Exists(id))
    <2> HIDE DEF Exists
    <2>0. history \in [Runs -> Accounts \cup {Nobody}]
        BY DEF Shape
    <2>1. CASE Exists(id) /\ history[r] = Nobody
        <3>1. h = [history EXCEPT ![r] = id]
            BY <2>1
        <3> QED
            BY <2>0, <2>1, <3>1
    <2>2. CASE ~(Exists(id) /\ history[r] = Nobody)
        <3>1. h = history
            BY <2>2
        <3> QED
            BY <2>0, <3>1
    <2> QED
        BY <2>1, <2>2
<1> HIDE DEF h
<1>3. history' = [q \in Runs |-> IF Listed(h, id, q) THEN h[q] ELSE Nobody]
    BY <1>1 DEF Trim
<1> QED
    BY <1>2, <1>3

-----------------------------------------------------------------------------
\* DeletionInv is inductive: what a deletion, the sign-ins under way and the
\* runs under way owe each other.
THEOREM DeletionInvariant == Spec => []DeletionInv
<1>1. Init => DeletionInv
    BY IdsAssumption DEF Init, DeletionInv, Shape, GoneForGood, RunsHaveAccounts, SessionsAreLooked, LinksAreDropped,
        RowsAreCleared, DeletedHistoryStaysGone, Exists, Sessions, Ids, WorkerLabels, SignInLabels,
        Recorders
<1>2. DeletionInv /\ [Next]_vars => DeletionInv'
    <2> SUFFICES ASSUME DeletionInv, [Next]_vars PROVE DeletionInv'
        OBVIOUS
    <2>0. /\ Shape /\ GoneForGood /\ RunsHaveAccounts
          /\ SessionsAreLooked /\ LinksAreDropped /\ RowsAreCleared /\ DeletedHistoryStaysGone
        BY DEF DeletionInv
    \* A history write, or none.
    <2>h. ASSUME UNCHANGED accountOf,
                 \/ UNCHANGED history
                 \/ \E q \in Runs, id \in Accounts \cup {Nobody} : RecordHistory(q, id)
          PROVE  history' \in [Runs -> Accounts \cup {Nobody}] /\ DeletedHistoryStaysGone'
        <3>1. \A g : Exists(g)' <=> Exists(g)
            BY <2>h DEF Exists
        <3>2. CASE UNCHANGED history
            BY <2>0, <3>1, <3>2 DEF Shape, DeletedHistoryStaysGone
        <3>3. ASSUME NEW q \in Runs, NEW id \in Accounts \cup {Nobody}, RecordHistory(q, id)
              PROVE  history' \in [Runs -> Accounts \cup {Nobody}] /\ DeletedHistoryStaysGone'
            BY <2>0, <3>1, <3>3, HistoryWrite DEF DeletedHistoryStaysGone
        <3> QED
            BY <2>h, <3>2, <3>3
    \* A step of a recorder that touches nothing a deletion clears.
    <2>w. ASSUME NEW r \in Runs, NEW c \in Recorders, NEW to \in WorkerLabels, Step(r, c, to),
                 UNCHANGED <<accountOf, drawn, metrics, sessions, deleted, carried, runOf, at, into,
                             deletions>>,
                 \/ UNCHANGED history
                 \/ \E q \in Runs, id \in Accounts \cup {Nobody} : RecordHistory(q, id),
                 owner' \in [Runs -> [Recorders -> Accounts \cup {Nobody}]],
                 worker[r]["pipeline"] \notin {"none", "asked"},
                 c = "pipeline" => to \notin {"none", "asked"},
                 c = "pipeline" /\ metrics[r] # Nobody =>
                     /\ to \in {"mark", "owner", "link", "write", "done"}
                     /\ worker[r]["pipeline"] # "mark" \/ metrics[r] \notin deleted
          PROVE  DeletionInv'
        <3>0. history' \in [Runs -> Accounts \cup {Nobody}] /\ DeletedHistoryStaysGone'
            BY <2>h, <2>w
        <3>1. /\ Shape'
              /\ \A q \in Runs : q # r => worker'[q] = worker[q]
              /\ worker'[r]["pipeline"] = IF c = "pipeline" THEN to ELSE worker[r]["pipeline"]
            BY <2>0, <2>w, <3>0 DEF Shape, Step, Recorders, deletions
        <3>2. GoneForGood' /\ SessionsAreLooked' /\ LinksAreDropped'
            BY <2>0, <2>w DEF GoneForGood, SessionsAreLooked, LinksAreDropped, Exists, deletions
        <3>3. RowsAreCleared' /\ RunsHaveAccounts'
            BY <2>0, <2>w, <3>1 DEF RowsAreCleared, RunsHaveAccounts, deletions
        <3> QED
            BY <3>0, <3>1, <3>2, <3>3 DEF DeletionInv
    \* A step of a callback that touches nothing but its own place, and the history.
    <2>p. ASSUME NEW p \in SignIns, NEW to \in SignInLabels, Goto(p, to),
                 UNCHANGED <<accountOf, drawn, metrics, sessions, deleted, carried, running,
                             recorders, into, deletions>>,
                 \/ UNCHANGED history
                 \/ \E q \in Runs, id \in Accounts \cup {Nobody} : RecordHistory(q, id),
                 at[p] \notin {"idle", "failed"},
                 p \in sessions => to \in {"anonymous?", "going?", "link", "collect", "carry", "confirm"},
                 at[p] \in {"collect", "carry", "confirm", "forget"} =>
                     to \in {"collect", "carry", "confirm", "forget"}
          PROVE  DeletionInv'
        <3>0. history' \in [Runs -> Accounts \cup {Nobody}] /\ DeletedHistoryStaysGone'
            BY <2>h, <2>p
        <3>1. Shape' /\ \A q \in SignIns : at'[q] = IF q = p THEN to ELSE at[q]
            BY <2>0, <2>p, <3>0 DEF Shape, Goto, running, recorders, deletions
        <3>2. GoneForGood' /\ RunsHaveAccounts' /\ RowsAreCleared'
            BY <2>0, <2>p DEF GoneForGood, RunsHaveAccounts, RowsAreCleared, Exists, running, recorders, deletions
        <3>3. SessionsAreLooked' /\ LinksAreDropped'
            BY <2>0, <2>p, <3>1 DEF SessionsAreLooked, LinksAreDropped, deletions
        <3> QED
            BY <3>0, <3>1, <3>2, <3>3 DEF DeletionInv
    <2>1. ASSUME NEW r \in Runs, RunStep(r)
          PROVE  DeletionInv'
        <3>1. ASSUME NEW s \in Sessions, AskForRun(r, s)
              PROVE  DeletionInv'
            <4>1. Holder(s) \in Ids
                BY <2>0, <3>1, IdsAssumption DEF AskForRun, Shape, SessionsAreLooked, Holder, Sessions,
                    Ids
            <4>2. metrics[r] = Nobody /\ worker[r]["cancel"] = "none"
                BY <2>0, <3>1 DEF RowsAreCleared, RunsHaveAccounts, AskForRun, Shape, Recorders,
                    WorkerLabels
            <4>3. /\ Shape' /\ \A q \in Runs : q # r => worker'[q] = worker[q] /\ runOf'[q] = runOf[q]
                BY <2>0, <3>1, <4>1 DEF Shape, AskForRun, Step, Recorders, WorkerLabels, durable,
                    registry, callbacks, deletions
            <4>4. GoneForGood' /\ SessionsAreLooked' /\ LinksAreDropped' /\ DeletedHistoryStaysGone'
                BY <2>0, <3>1 DEF AskForRun, GoneForGood, SessionsAreLooked, LinksAreDropped,
                    DeletedHistoryStaysGone, Exists, durable, registry, callbacks, deletions
            <4>5. RowsAreCleared' /\ RunsHaveAccounts'
                <5>1. worker'[r] = [worker[r] EXCEPT !["pipeline"] = "asked"] /\ runOf'[r] = Holder(s)
                    BY <2>0, <3>1 DEF AskForRun, Step, Shape
                <5>2. worker'[r]["pipeline"] = "asked" /\ worker'[r]["cancel"] = "none"
                    BY <2>0, <4>2, <5>1 DEF Shape, Recorders
                <5>3. Holder(s) # Nobody
                    BY <4>1, IdsAssumption DEF Ids
                <5>4. RunsHaveAccounts'
                    BY <2>0, <4>3, <5>1, <5>2, <5>3 DEF RunsHaveAccounts
                <5>5. UNCHANGED <<metrics, deleted, deletions>>
                    BY <3>1 DEF AskForRun, durable, registry
                <5>6. RowsAreCleared'
                    BY <2>0, <4>2, <4>3, <5>5 DEF RowsAreCleared, deletions
                <5> QED
                    BY <5>4, <5>6
            <4> QED
                BY <4>3, <4>4, <4>5 DEF DeletionInv
        <3>2. ASSUME NEW s \in Sessions, CancelRun(r, s)
              PROVE  DeletionInv'
            BY <2>0, <3>2, <2>w DEF CancelRun, Recorders, WorkerLabels, Shape, durable, registry, callbacks
        <3>3. CASE StartRun(r)
            <4>1. worker[r]["pipeline"] = "asked" /\ metrics[r] = Nobody
                BY <2>0, <3>3 DEF StartRun, RowsAreCleared
            <4>2. /\ Shape' /\ \A q \in Runs : q # r => worker'[q] = worker[q] /\ runOf'[q] = runOf[q]
                <5>1. PICK to \in {"none", "running"} : Step(r, "pipeline", to)
                    BY <3>3 DEF StartRun
                <5>2. runOf' = runOf \/ runOf' = [runOf EXCEPT ![r] = Nobody]
                    BY <3>3 DEF StartRun
                <5>3. UNCHANGED <<durable, registry, owner, callbacks, deletions>>
                    BY <3>3 DEF StartRun
                <5> QED
                    BY <2>0, <5>1, <5>2, <5>3 DEF Shape, Step, Recorders, WorkerLabels, durable,
                        registry, callbacks, deletions
            <4>3. GoneForGood' /\ SessionsAreLooked' /\ LinksAreDropped' /\ DeletedHistoryStaysGone'
                BY <2>0, <3>3 DEF StartRun, GoneForGood, SessionsAreLooked, LinksAreDropped,
                    DeletedHistoryStaysGone, Exists, durable, registry, callbacks, deletions
            <4>4. RowsAreCleared' /\ RunsHaveAccounts'
                <5>1. /\ worker'[r]["cancel"] = "none"
                      /\ worker'[r]["pipeline"] = "none" \/ runOf'[r] # Nobody
                    BY <2>0, <3>3, <4>1 DEF StartRun, Step, Shape, Recorders, RunsHaveAccounts
                <5> QED
                    BY <2>0, <3>3, <4>1, <4>2, <5>1 DEF StartRun, RowsAreCleared, RunsHaveAccounts,
                        durable, registry, deletions
            <4> QED
                BY <4>2, <4>3, <4>4 DEF DeletionInv
        <3>4. CASE FinishRun(r)
            <4>1. metrics[r] = Nobody
                BY <2>0, <3>4 DEF FinishRun, RowsAreCleared
            <4> QED
                BY <2>0, <3>4, <4>1, <2>w DEF FinishRun, Recorders, WorkerLabels, Shape, durable, registry, callbacks
        <3>5. CASE WriteMetrics(r)
            <4>1. /\ Shape' /\ \A q \in Runs : q # r => worker'[q] = worker[q] /\ metrics'[q] = metrics[q]
                  /\ metrics'[r] = runOf[r] /\ worker'[r]["pipeline"] = "mark"
                BY <2>0, <3>5 DEF Shape, WriteMetrics, Step, Recorders, WorkerLabels, running,
                    registry, callbacks, deletions
            <4>2. GoneForGood' /\ SessionsAreLooked' /\ LinksAreDropped' /\ DeletedHistoryStaysGone'
                BY <2>0, <3>5 DEF WriteMetrics, GoneForGood, SessionsAreLooked, LinksAreDropped,
                    DeletedHistoryStaysGone, Exists, registry, callbacks, deletions
            <4>3. RowsAreCleared' /\ RunsHaveAccounts'
                BY <2>0, <3>5, <4>1 DEF WriteMetrics, RowsAreCleared, RunsHaveAccounts, running,
                    registry, deletions
            <4> QED
                BY <4>1, <4>2, <4>3 DEF DeletionInv
        <3>6. CASE CheckMark(r)
            <4>1. \A q \in Runs : /\ metrics'[q] \in {metrics[q], Nobody}
                                  /\ q = r => metrics'[q] \notin deleted
                BY <2>0, <3>6, IdsAssumption DEF Shape, CheckMark, Anonymised, RowsAreCleared
            <4>2. /\ Shape' /\ \A q \in Runs : q # r => worker'[q] = worker[q]
                  /\ worker'[r]["pipeline"] = "owner"
                BY <2>0, <3>6, <4>1 DEF Shape, CheckMark, Anonymised, Step, Recorders, WorkerLabels,
                    running, registry, callbacks, deletions
            <4>3. GoneForGood' /\ SessionsAreLooked' /\ LinksAreDropped' /\ DeletedHistoryStaysGone'
                BY <2>0, <3>6 DEF CheckMark, GoneForGood, SessionsAreLooked, LinksAreDropped,
                    DeletedHistoryStaysGone, Exists, registry, callbacks, deletions
            <4>4. RowsAreCleared' /\ RunsHaveAccounts'
                BY <2>0, <3>6, <4>1, <4>2 DEF CheckMark, RowsAreCleared, RunsHaveAccounts, running,
                    registry, deletions
            <4> QED
                BY <4>2, <4>3, <4>4 DEF DeletionInv
        <3>7. ASSUME NEW c \in Recorders, FindOwner(r, c)
              PROVE  DeletionInv'
            <4>1. PICK to \in {"write", "link"} : Step(r, c, to)
                BY <3>7 DEF FindOwner
            <4>2. owner' = owner \/ (Exists(runOf[r]) /\ owner' = [owner EXCEPT ![r][c] = runOf[r]])
                BY <3>7 DEF FindOwner
            <4>3. Exists(runOf[r]) => runOf[r] \in Accounts \cup {Nobody}
                BY <2>0 DEF Shape, Exists
            <4>4. owner' \in [Runs -> [Recorders -> Accounts \cup {Nobody}]]
                <5>1. CASE UNCHANGED owner
                    BY <2>0, <5>1 DEF Shape
                <5>2. CASE Exists(runOf[r]) /\ owner' = [owner EXCEPT ![r][c] = runOf[r]]
                    <6>1. runOf[r] \in Accounts \cup {Nobody}
                        BY <4>3, <5>2
                    <6>2. owner \in [Runs -> [Recorders -> Accounts \cup {Nobody}]]
                        BY <2>0 DEF Shape
                    <6> QED
                        BY <5>2, <6>1, <6>2
                <5> QED
                    BY <4>2, <5>1, <5>2
            <4>5. worker[r][c] = "owner" /\ UNCHANGED <<durable, registry, running, callbacks, deletions>>
                BY <3>7 DEF FindOwner
            <4>6. worker[r]["pipeline"] \notin {"none", "asked"}
                <5>1. CASE c = "pipeline"
                    BY <4>5, <5>1
                <5>2. CASE c = "cancel"
                    BY <2>0, <4>5, <5>2 DEF RunsHaveAccounts
                <5> QED
                    BY <5>1, <5>2 DEF Recorders
            <4> QED
                <5>1. /\ UNCHANGED <<accountOf, drawn, metrics, sessions, deleted, carried, runOf, at,
                                     into, deletions>>
                      /\ UNCHANGED history
                    BY <4>5 DEF durable, registry, running, callbacks
                <5>2. to \in WorkerLabels /\ to \in {"link", "write"}
                    BY DEF WorkerLabels
                <5>3. c = "pipeline" => worker[r]["pipeline"] # "mark"
                    BY <4>5
                <5> QED
                    BY <4>1, <4>4, <4>6, <5>1, <5>2, <5>3, <2>w
        <3>8. ASSUME NEW c \in Recorders, FollowLink(r, c)
              PROVE  DeletionInv'
            <4>0. worker[r][c] = "link" /\ UNCHANGED <<durable, registry, running, callbacks, deletions>>
                BY <3>8 DEF FollowLink
            <4>1. PICK to \in {"done", "write"} : Step(r, c, to)
                BY <3>8 DEF FollowLink
            <4>2. owner' \in [Runs -> [Recorders -> Accounts \cup {Nobody}]]
                <5>1. CASE carried[runOf[r]] = Nobody
                    BY <2>0, <3>8, <5>1 DEF FollowLink, Shape
                <5>2. CASE carried[runOf[r]] # Nobody
                    <6>1. runOf[r] \in Ids
                        BY <2>0, <4>0 DEF Shape, RunsHaveAccounts, Recorders
                    <6>2. carried[runOf[r]] \in Accounts \cup {Nobody}
                        BY <2>0, <6>1 DEF Shape
                    <6>3. owner' = [owner EXCEPT ![r][c] = carried[runOf[r]]]
                        BY <3>8, <5>2 DEF FollowLink
                    <6> QED
                        BY <2>0, <6>2, <6>3 DEF Shape
                <5> QED
                    BY <5>1, <5>2
            <4> QED
                BY <2>0, <4>0, <4>1, <4>2, <2>w DEF RunsHaveAccounts, Shape, Recorders, WorkerLabels,
                    durable, registry, running, callbacks
        <3>9. ASSUME NEW c \in Recorders, WriteHistory(r, c)
              PROVE  DeletionInv'
            <4>1. owner[r][c] \in Accounts \cup {Nobody} /\ RecordHistory(r, owner[r][c])
                BY <2>0, <3>9 DEF WriteHistory, Shape
            <4>2. owner' \in [Runs -> [Recorders -> Accounts \cup {Nobody}]]
                BY <2>0, <3>9 DEF WriteHistory, Shape
            <4>3. /\ worker[r][c] = "write" /\ Step(r, c, "done")
                  /\ UNCHANGED <<accountOf, drawn, metrics, registry, running, callbacks, deletions>>
                BY <3>9 DEF WriteHistory
            <4> QED
                BY <2>0, <4>1, <4>2, <4>3, <2>w DEF RunsHaveAccounts, Shape, Recorders, WorkerLabels,
                    registry, running, callbacks
        <3> QED
            BY <2>1, <3>1, <3>2, <3>3, <3>4, <3>5, <3>6, <3>7, <3>8, <3>9 DEF RunStep
    <2>2. ASSUME NEW p \in SignIns, SignInStep(p)
          PROVE  DeletionInv'
        <3>1. ASSUME NEW s \in Sessions, NEW who \in Subjects, StartSignIn(p, s, who)
              PROVE  DeletionInv'
            <4>1. PICK g \in Accounts :
                    /\ IF accountOf[who] = Nobody THEN g \notin drawn ELSE g = accountOf[who]
                    /\ accountOf' = [accountOf EXCEPT ![who] = g]
                    /\ drawn' = drawn \cup {g}
                    /\ into' = [into EXCEPT ![p] = g]
                BY <3>1 DEF StartSignIn
            <4>2. /\ at[p] = "idle" /\ at' = [at EXCEPT ![p] = "previous"] /\ p \notin sessions
                  /\ UNCHANGED <<history, metrics, sessions, deleted, carried, runOf, worker, owner,
                                 dpc, victim>>
                BY <2>0, <3>1 DEF StartSignIn, Goto, SessionsAreLooked, registry, running, recorders,
                    deletions
            <4>3. g \notin deleted
                BY <2>0, <4>1 DEF GoneForGood, Exists
            <4>4. Shape'
                BY <2>0, <4>1, <4>2 DEF Shape, SignInLabels
            <4>5. \A x \in Accounts : /\ Exists(x) => Exists(x)'
                                      /\ x \in drawn /\ ~Exists(x) => ~Exists(x)'
                BY <2>0, <4>1, IdsAssumption DEF Shape, Exists
            <4>6. GoneForGood'
                <5>1. \A s2 \in Subjects : accountOf'[s2] \in drawn' \cup {Nobody}
                    BY <2>0, <4>1 DEF Shape, GoneForGood
                <5>2. \A x \in deleted : x \in drawn' /\ ~Exists(x)'
                    BY <2>0, <4>1, <4>5 DEF Shape, GoneForGood
                <5>3. \A d \in Deletions :
                        /\ victim[d] \in drawn' \cup {Nobody}
                        /\ dpc[d] \in {"rows", "revoke", "links", "metrics"} => victim[d] \in drawn'
                        /\ dpc[d] \in {"links", "metrics"} => victim[d] \in deleted
                    BY <2>0, <4>1 DEF Shape, GoneForGood
                <5>4. ASSUME NEW d \in Deletions, dpc[d] \in {"revoke", "links", "metrics"},
                             NEW x \in Accounts, x = victim[d]
                      PROVE  ~Exists(x)'
                    <6>1. x \in drawn /\ ~Exists(x)
                        BY <2>0, <5>4 DEF GoneForGood
                    <6> QED
                        BY <4>5, <6>1
                <5>5. \A d \in Deletions :
                        dpc[d] \in {"revoke", "links", "metrics"} => victim[d] \in Accounts
                    BY <2>0 DEF Shape, GoneForGood
                <5> QED
                    BY <4>2, <5>1, <5>2, <5>3, <5>4, <5>5 DEF GoneForGood, Exists
            <4>7. RunsHaveAccounts' /\ RowsAreCleared'
                BY <2>0, <4>2 DEF RunsHaveAccounts, RowsAreCleared
            <4>8. SessionsAreLooked'
                BY <2>0, <4>1, <4>2, IdsAssumption DEF Shape, SessionsAreLooked
            <4>9. LinksAreDropped'
                BY <2>0, <4>1, <4>2 DEF Shape, LinksAreDropped
            <4>10. DeletedHistoryStaysGone'
                BY <2>0, <4>2, <4>5 DEF Shape, DeletedHistoryStaysGone
            <4> QED
                BY <4>4, <4>6, <4>7, <4>8, <4>9, <4>10 DEF DeletionInv
        <3>2. CASE ReadPrevious(p)
            <4>1. p \notin sessions
                BY <2>0, <3>2 DEF ReadPrevious, SessionsAreLooked
            <4> QED
                BY <3>2, <4>1, <2>p DEF ReadPrevious, SignInLabels, durable, registry
        <3>3. CASE Rotate(p)
            <4>1. CASE from[p] \in signedOut
                <5>1. p \notin sessions
                    BY <2>0, <3>3 DEF Rotate, SessionsAreLooked
                <5> QED
                    BY <3>3, <4>1, <5>1, <2>p DEF Rotate, SignInLabels, durable
            <4>2. CASE from[p] \notin signedOut
                <5>1. PICK to \in {"confirm", "anonymous?"} : at' = [at EXCEPT ![p] = to]
                    BY <3>3, <4>2 DEF Rotate, Goto
                <5>2. /\ at[p] = "rotate" /\ sessions' = (sessions \ {from[p]}) \cup {p}
                      /\ UNCHANGED <<accountOf, drawn, history, metrics, deleted, carried, runOf,
                                     worker, owner, into, dpc, victim>>
                    BY <3>3, <4>2 DEF Rotate, durable, running, recorders, deletions
                <5>3. Shape' /\ \A q \in SignIns : at'[q] = IF q = p THEN to ELSE at[q]
                    BY <2>0, <5>1, <5>2 DEF Shape, SignInLabels, Sessions
                <5>4. GoneForGood' /\ RunsHaveAccounts' /\ RowsAreCleared' /\ DeletedHistoryStaysGone'
                    BY <2>0, <5>2 DEF GoneForGood, RunsHaveAccounts, RowsAreCleared,
                        DeletedHistoryStaysGone, Exists
                <5>5. SessionsAreLooked' /\ LinksAreDropped'
                    BY <2>0, <5>2, <5>3 DEF SessionsAreLooked, LinksAreDropped
                <5> QED
                    BY <5>3, <5>4, <5>5 DEF DeletionInv
            <4> QED
                BY <4>1, <4>2
        <3>4. CASE CheckAnonymous(p)
            <4>1. PICK to \in {"confirm", "going?"} : Goto(p, to)
                BY <3>4 DEF CheckAnonymous
            <4> QED
                BY <3>4, <4>1, <2>p DEF CheckAnonymous, SignInLabels, durable, registry
        <3>5. CASE CheckGoing(p)
            <4>1. PICK to \in {"confirm", "link"} : Goto(p, to)
                BY <3>5 DEF CheckGoing
            <4> QED
                BY <3>5, <4>1, <2>p DEF CheckGoing, SignInLabels, durable, registry
        <3>6. CASE Link(p)
            <4>1. /\ at[p] = "link" /\ at' = [at EXCEPT ![p] = "collect"]
                  /\ carried' = [carried EXCEPT ![previous[p]] = into[p]]
                  /\ UNCHANGED <<accountOf, drawn, history, metrics, sessions, deleted, runOf, worker,
                                 owner, into, dpc, victim>>
                BY <3>6 DEF Link, Goto, durable, running, recorders, deletions
            <4>2. Shape' /\ \A a \in Ids : carried'[a] \in {carried[a], into[p]}
                BY <2>0, <4>1 DEF Shape, SignInLabels
            <4>3. GoneForGood' /\ RunsHaveAccounts' /\ RowsAreCleared' /\ DeletedHistoryStaysGone'
                BY <2>0, <4>1 DEF GoneForGood, RunsHaveAccounts, RowsAreCleared,
                    DeletedHistoryStaysGone, Exists
            <4>4. SessionsAreLooked'
                BY <2>0, <4>1 DEF Shape, SessionsAreLooked
            <4>5. LinksAreDropped'
                BY <2>0, <4>1, <4>2 DEF Shape, LinksAreDropped
            <4> QED
                BY <4>2, <4>3, <4>4, <4>5 DEF DeletionInv
        <3>7. CASE Collect(p)
            <4>1. PICK to \in {"confirm", "carry"} : Goto(p, to)
                BY <3>7 DEF Collect, CarryOn
            <4> QED
                BY <3>7, <4>1, <2>p DEF Collect, SignInLabels, durable, registry
        <3>8. ASSUME NEW r \in Runs, CarryRun(p, r)
              PROVE  DeletionInv'
            <4>1. PICK to \in {"confirm", "carry"} : Goto(p, to)
                BY <3>8 DEF CarryRun, CarryOn
            <4>2. into[p] \in Accounts \cup {Nobody}
                BY <2>0 DEF Shape
            <4>3. \E q \in Runs, id \in Accounts \cup {Nobody} : RecordHistory(q, id)
                BY <3>8, <4>2 DEF CarryRun
            <4> QED
                BY <3>8, <4>1, <4>3, <2>p DEF CarryRun, SignInLabels, registry
        <3>9. CASE Confirm(p)
            <4>0. /\ at[p] = "confirm"
                  /\ UNCHANGED <<accountOf, drawn, history, metrics, deleted, carried, runOf, worker,
                                 owner, into, dpc, victim>>
                BY <3>9 DEF Confirm, durable, running, recorders, deletions
            <4>1. /\ at' = [at EXCEPT ![p] = IF Exists(into[p]) THEN "done" ELSE "forget"]
                  /\ sessions' = IF Exists(into[p]) THEN sessions ELSE sessions \ {p}
                BY <3>9 DEF Confirm, Goto
            <4>2. Exists(into[p]) => into[p] \notin deleted
                BY <2>0 DEF GoneForGood
            <4>3. Shape' /\ GoneForGood' /\ RunsHaveAccounts' /\ RowsAreCleared' /\ DeletedHistoryStaysGone'
                BY <2>0, <4>0, <4>1 DEF Shape, GoneForGood, RunsHaveAccounts, RowsAreCleared,
                    DeletedHistoryStaysGone, Exists, SignInLabels
            <4>4. SessionsAreLooked'
                BY <2>0, <4>0, <4>1, <4>2 DEF Shape, SessionsAreLooked
            <4>5. LinksAreDropped'
                BY <2>0, <4>0, <4>1, <4>2 DEF Shape, LinksAreDropped
            <4> QED
                BY <4>3, <4>4, <4>5 DEF DeletionInv
        <3>10. CASE ForgetAfterSignIn(p)
            <4>1. /\ at[p] = "forget" /\ at' = [at EXCEPT ![p] = "failed"]
                  /\ into' = [into EXCEPT ![p] = Nobody] /\ carried' = Unlinked(into[p])
                  /\ UNCHANGED <<accountOf, drawn, history, metrics, sessions, deleted, runOf, worker,
                                 owner, dpc, victim>>
                BY <3>10 DEF ForgetAfterSignIn, Goto, durable, running, recorders, deletions
            <4>2. Shape' /\ \A a \in Ids : carried'[a] \in {carried[a], Nobody} /\ carried'[a] # into[p]
                BY <2>0, <4>1 DEF Shape, SignInLabels, Unlinked, SessionsAreLooked
            <4>3. GoneForGood' /\ RunsHaveAccounts' /\ RowsAreCleared' /\ DeletedHistoryStaysGone'
                BY <2>0, <4>1 DEF GoneForGood, RunsHaveAccounts, RowsAreCleared,
                    DeletedHistoryStaysGone, Exists
            <4>4. SessionsAreLooked'
                BY <2>0, <4>1 DEF Shape, SessionsAreLooked
            <4>5. LinksAreDropped'
                BY <2>0, <4>1, <4>2, IdsAssumption DEF Shape, LinksAreDropped
            <4> QED
                BY <4>2, <4>3, <4>4, <4>5 DEF DeletionInv
        <3> QED
            BY <2>2, <3>1, <3>2, <3>3, <3>4, <3>5, <3>6, <3>7, <3>8, <3>9, <3>10 DEF SignInStep
    <2>3. ASSUME NEW d \in Deletions, DeletionStep(d)
          PROVE  DeletionInv'
        <3> DEFINE v == victim[d]
        <3>1. ASSUME NEW s \in Sessions, BeginDeletion(d, s)
              PROVE  DeletionInv'
            <4>1. /\ dpc[d] = "idle" /\ dpc' = [dpc EXCEPT ![d] = "rows"]
                  /\ victim' = [victim EXCEPT ![d] = into[s]] /\ s \in SignIns /\ Exists(into[s])
                  /\ UNCHANGED <<accountOf, drawn, history, metrics, sessions, deleted, carried, runOf,
                                 worker, owner, at, into>>
                BY <3>1, IdsAssumption DEF BeginDeletion, GotoD, Holder, durable, running, recorders,
                    callbacks
            <4>2. s \in sessions /\ into[s] # Nobody
                BY <2>0, <3>1, <4>1 DEF BeginDeletion, SessionsAreLooked
            <4>3. into[s] \in drawn
                BY <2>0, <4>1, <4>2 DEF GoneForGood, Exists
            <4>4. Shape' /\ RunsHaveAccounts' /\ SessionsAreLooked' /\ DeletedHistoryStaysGone'
                BY <2>0, <4>1 DEF Shape, RunsHaveAccounts, SessionsAreLooked, DeletedHistoryStaysGone,
                    Exists
            <4>5. GoneForGood'
                BY <2>0, <4>1, <4>3 DEF Shape, GoneForGood, Exists
            <4>6. LinksAreDropped' /\ RowsAreCleared'
                BY <2>0, <4>1 DEF Shape, LinksAreDropped, RowsAreCleared
            <4> QED
                BY <4>4, <4>5, <4>6 DEF DeletionInv
        <3>2. CASE DeleteRows(d)
            <4>1. /\ dpc[d] = "rows" /\ v \in drawn
                  /\ UNCHANGED <<drawn, metrics, sessions, deleted, carried, runOf, worker, owner, at,
                                 into, victim>>
                BY <2>0, <3>2 DEF DeleteRows, GoneForGood, registry, running, recorders, callbacks
            <4>2. CASE dpc' = [dpc EXCEPT ![d] = "end"] /\ UNCHANGED <<accountOf, history>>
                <5>1. Shape' /\ GoneForGood'
                    BY <2>0, <4>1, <4>2 DEF Shape, GoneForGood, Exists
                <5>2. RunsHaveAccounts' /\ SessionsAreLooked' /\ DeletedHistoryStaysGone'
                    BY <2>0, <4>1, <4>2 DEF RunsHaveAccounts, SessionsAreLooked, DeletedHistoryStaysGone,
                        Exists
                <5>3. LinksAreDropped' /\ RowsAreCleared'
                    BY <2>0, <4>1, <4>2 DEF Shape, LinksAreDropped, RowsAreCleared
                <5> QED
                    BY <5>1, <5>2, <5>3 DEF DeletionInv
            <4>3. CASE /\ accountOf' = [s \in Subjects |-> IF accountOf[s] = v THEN Nobody ELSE accountOf[s]]
                       /\ history' = [r \in Runs |-> IF history[r] = v THEN Nobody ELSE history[r]]
                       /\ dpc' = [dpc EXCEPT ![d] = "revoke"]
                <5>1. Shape'
                    BY <2>0, <4>1, <4>3 DEF Shape
                <5>2. v # Nobody
                    BY <2>0, <4>1, IdsAssumption DEF Shape
                <5>3. ~Exists(v)' /\ \A x \in Accounts : /\ ~Exists(x) => ~Exists(x)'
                                                         /\ Exists(x) /\ x # v => Exists(x)'
                    <6>1. \A s \in Subjects : accountOf'[s] = IF accountOf[s] = v THEN Nobody ELSE accountOf[s]
                        BY <4>3
                    <6>2. \A x \in Accounts : x # Nobody
                        BY IdsAssumption
                    <6> HIDE DEF v
                    <6>3. \A s \in Subjects : accountOf'[s] # v
                        BY <5>2, <6>1
                    <6>4. \A x \in Accounts : \A s \in Subjects : accountOf'[s] = x => accountOf[s] = x
                        BY <6>1, <6>2
                    <6>5. \A x \in Accounts : x # v =>
                            \A s \in Subjects : accountOf[s] = x => accountOf'[s] = x
                        BY <6>1
                    <6>6. ~ \E s \in Subjects : accountOf'[s] = v
                        BY <6>3
                    <6>7. v' = v
                        BY <4>1 DEF v
                    <6> QED
                        BY <6>4, <6>5, <6>6, <6>7 DEF Exists
                <5>4. GoneForGood'
                    <6>1. \A s \in Subjects : accountOf'[s] \in drawn' \cup {Nobody}
                        BY <2>0, <4>1, <4>3 DEF GoneForGood
                    <6>2. \A x \in deleted' : x \in drawn' /\ ~Exists(x)'
                        BY <2>0, <4>1, <5>3 DEF Shape, GoneForGood
                    <6>3. \A e \in Deletions :
                            /\ victim'[e] \in drawn' \cup {Nobody}
                            /\ dpc'[e] \in {"rows", "revoke", "links", "metrics"} => victim'[e] \in drawn'
                            /\ dpc'[e] \in {"revoke", "links", "metrics"} => ~Exists(victim[e])'
                            /\ dpc'[e] \in {"links", "metrics"} => victim'[e] \in deleted'
                        BY <2>0, <4>1, <4>3, <5>3 DEF Shape, GoneForGood
                    <6> QED
                        BY <4>1, <6>1, <6>2, <6>3 DEF GoneForGood, Exists
                <5>5. RunsHaveAccounts' /\ SessionsAreLooked'
                    BY <2>0, <4>1 DEF RunsHaveAccounts, SessionsAreLooked
                <5>6. LinksAreDropped' /\ RowsAreCleared'
                    BY <2>0, <4>1, <4>3 DEF Shape, LinksAreDropped, RowsAreCleared
                <5>7. DeletedHistoryStaysGone'
                    BY <2>0, <4>3, <5>3 DEF Shape, DeletedHistoryStaysGone
                <5> QED
                    BY <5>1, <5>4, <5>5, <5>6, <5>7 DEF DeletionInv
            <4> QED
                BY <3>2, <4>2, <4>3 DEF DeleteRows, GotoD
        <3>3. CASE RevokeAccount(d)
            <4>1. /\ dpc[d] = "revoke" /\ dpc' = [dpc EXCEPT ![d] = "links"]
                  /\ deleted' = deleted \cup {v}
                  /\ sessions' = { s \in sessions : Holder(s) # v }
                  /\ UNCHANGED <<accountOf, drawn, history, metrics, carried, runOf, worker, owner, at,
                                 into, victim>>
                BY <3>3 DEF RevokeAccount, GotoD, durable, running, recorders, callbacks
            <4>2. v \in drawn /\ v \in Accounts /\ ~Exists(v)
                BY <2>0, <4>1 DEF Shape, GoneForGood
            <4>3. Shape' /\ RunsHaveAccounts' /\ DeletedHistoryStaysGone'
                BY <2>0, <4>1, <4>2 DEF Shape, RunsHaveAccounts, DeletedHistoryStaysGone, Exists
            <4>4. GoneForGood'
                BY <2>0, <4>1, <4>2 DEF Shape, GoneForGood, Exists
            <4>5. SessionsAreLooked'
                <5>1. \A p \in SignIns : p \in sessions' => p \in sessions /\ into[p] # v
                    BY <4>1, IdsAssumption DEF Holder
                <5> QED
                    BY <2>0, <4>1, <5>1 DEF SessionsAreLooked
            <4>6. LinksAreDropped' /\ RowsAreCleared'
                BY <2>0, <4>1 DEF Shape, LinksAreDropped, RowsAreCleared
            <4> QED
                BY <4>3, <4>4, <4>5, <4>6 DEF DeletionInv
        <3>4. CASE ForgetLinks(d)
            <4>1. /\ dpc[d] = "links" /\ dpc' = [dpc EXCEPT ![d] = "metrics"]
                  /\ carried' = Unlinked(v)
                  /\ UNCHANGED <<accountOf, drawn, history, metrics, sessions, deleted, runOf, worker,
                                 owner, at, into, victim>>
                BY <3>4 DEF ForgetLinks, GotoD, durable, running, recorders, callbacks
            <4>2. v \in Accounts
                BY <2>0, <4>1 DEF Shape, GoneForGood
            <4>3. Shape' /\ \A a \in Ids : carried'[a] \in {carried[a], Nobody} /\ carried'[a] # v
                BY <2>0, <4>1, <4>2, IdsAssumption DEF Shape, Unlinked
            <4>4. RunsHaveAccounts' /\ SessionsAreLooked' /\ DeletedHistoryStaysGone'
                BY <2>0, <4>1 DEF RunsHaveAccounts, SessionsAreLooked, DeletedHistoryStaysGone, Exists
            <4>5. GoneForGood'
                BY <2>0, <4>1 DEF Shape, GoneForGood, Exists
            <4>6. LinksAreDropped'
                BY <2>0, <4>1, <4>3, IdsAssumption DEF Shape, LinksAreDropped
            <4>7. RowsAreCleared'
                BY <2>0, <4>1 DEF Shape, RowsAreCleared
            <4> QED
                BY <4>3, <4>4, <4>5, <4>6, <4>7 DEF DeletionInv
        <3>5. CASE ForgetMetrics(d)
            <4>1. /\ dpc[d] = "metrics" /\ dpc' = [dpc EXCEPT ![d] = "end"]
                  /\ metrics' = Anonymised(v)
                  /\ UNCHANGED <<accountOf, drawn, history, sessions, deleted, carried, runOf, worker,
                                 owner, at, into, victim>>
                BY <3>5 DEF ForgetMetrics, GotoD, registry, running, recorders, callbacks
            <4>2. v \in Accounts
                BY <2>0, <4>1 DEF Shape, GoneForGood
            <4>3. Shape' /\ \A r \in Runs : metrics'[r] \in {metrics[r], Nobody} /\ metrics'[r] # v
                BY <2>0, <4>1, <4>2, IdsAssumption DEF Shape, Anonymised
            <4>4. RunsHaveAccounts' /\ SessionsAreLooked' /\ DeletedHistoryStaysGone'
                BY <2>0, <4>1 DEF RunsHaveAccounts, SessionsAreLooked, DeletedHistoryStaysGone, Exists
            <4>5. GoneForGood' /\ LinksAreDropped'
                BY <2>0, <4>1 DEF Shape, GoneForGood, LinksAreDropped, Exists
            <4>6. RowsAreCleared'
                BY <2>0, <4>1, <4>3 DEF Shape, RowsAreCleared
            <4> QED
                BY <4>3, <4>4, <4>5, <4>6 DEF DeletionInv
        <3>6. CASE EndDeletion(d)
            BY <2>0, <3>6 DEF EndDeletion, GotoD, DeletionInv, Shape, GoneForGood, RunsHaveAccounts,
                SessionsAreLooked, LinksAreDropped, RowsAreCleared, DeletedHistoryStaysGone, Exists,
                durable, running, recorders, callbacks
        <3> QED
            BY <2>3, <3>1, <3>2, <3>3, <3>4, <3>5, <3>6 DEF DeletionStep
    <2>4. CASE UNCHANGED vars
        BY <2>0, <2>4 DEF DeletionInv, Shape, GoneForGood, RunsHaveAccounts, SessionsAreLooked,
            LinksAreDropped, RowsAreCleared, DeletedHistoryStaysGone, Exists, vars, durable, registry,
            running, recorders, callbacks, deletions
    <2> QED
        BY <2>1, <2>2, <2>3, <2>4 DEF Next
<1> QED
    BY <1>1, <1>2, PTL DEF Spec

\* DeletedHistoryStaysGone: whatever runs and sign-ins were under way, and however
\* many, no run is ever listed under an account that has no row.
THEOREM HistoryStaysGone == Spec => []DeletedHistoryStaysGone
BY DeletionInvariant, PTL DEF DeletionInv

\* NoSessionOfTheDeleted: a sign-in that raced the deletion of its account never
\* ends signed in to it.
THEOREM NobodyStaysSignedIn == Spec => []NoSessionOfTheDeleted
<1>1. DeletionInv => NoSessionOfTheDeleted
    BY DEF DeletionInv, SessionsAreLooked, NoSessionOfTheDeleted, Deleted
<1> QED
    BY <1>1, DeletionInvariant, PTL

\* NoLinkToTheDeleted: a carry-over link to a deleted account is there only while
\* a sign-in that will drop it is under way.
THEOREM LinksGo == Spec => []NoLinkToTheDeleted
<1>1. DeletionInv => NoLinkToTheDeleted
    BY DEF DeletionInv, LinksAreDropped, NoLinkToTheDeleted, Deleted
<1> QED
    BY <1>1, DeletionInvariant, PTL

\* DeletedAccountLeavesNoMetrics: whichever of a run's metrics row and the deletion
\* of its account is written first, the row loses the account.
THEOREM MetricsLoseTheAccount == Spec => []DeletedAccountLeavesNoMetrics
<1>1. DeletionInv => DeletedAccountLeavesNoMetrics
    BY IdsAssumption DEF DeletionInv, RowsAreCleared, DeletedAccountLeavesNoMetrics, Deleted
<1> QED
    BY <1>1, DeletionInvariant, PTL

\* DeletionLeavesNothing: the four together, of the account's history, metrics,
\* links and sessions (delete_account and every writer that may race it).
THEOREM DeletionIsFinal == Spec => []DeletionLeavesNothing
BY HistoryStaysGone, MetricsLoseTheAccount, LinksGo, NobodyStaysSignedIn, PTL DEF DeletionLeavesNothing

-----------------------------------------------------------------------------
(***************************************************************************)
(* Part two: what AccountHistory promises of a run's place in a history,   *)
(* for every number of runs, sessions, sign-ins, deletions and identities: *)
(* it is listed with its own person, and it is listed.                     *)
(***************************************************************************)

CallbackShape ==
    /\ from \in [SignIns -> Sessions \cup {Nobody}]
    /\ previous \in [SignIns -> Ids \cup {Nobody}]
    /\ todo \in [SignIns -> SUBSET Runs]
    /\ signedOut \subseteq Sessions

ListingShape ==
    CallbackShape /\ endedAt \in [Runs -> Nat] /\ deleting \in [Accounts -> Int]

-----------------------------------------------------------------------------
(* The parts of the invariant.                                               *)

\* The mark of an account counts the deletions under way, and an account that
\* was and is no more has a deletion under way or is marked for good.
UnderWay(g) == { d \in Deletions : victim[d] = g /\ dpc[d] \notin {"idle", "done"} }

GoneIsGoing ==
    /\ \A g \in Accounts : IsFiniteSet(UnderWay(g)) /\ deleting[g] = Cardinality(UnderWay(g))
    /\ \A g \in drawn :
          \/ Exists(g) \/ g \in deleted
          \/ \E d \in Deletions : victim[d] = g /\ dpc[d] = "revoke"

\* Runs end one after the other.
Ended == { r \in Runs : Terminal(r) }

EndsInOrder ==
    /\ IsFiniteSet(Ended)
    /\ \A r \in Ended : endedAt[r] <= Cardinality(Ended)
    /\ \A q, r \in Ended : endedAt[q] = endedAt[r] => q = r

\* A run that is recorded has ended.
RecordedRunsEnded ==
    \A r \in Runs :
        /\ Terminal(r) <=> \/ worker[r]["pipeline"] \in WorkerLabels \ {"none", "asked", "running"}
                           \/ worker[r]["cancel"] # "none"
        /\ worker[r]["cancel"] \in WorkerLabels \ {"asked", "running", "metrics", "mark"}
        /\ history[r] # Nobody => Terminal(r)
        /\ \A c \in Recorders : owner[r][c] # Nobody <=> worker[r][c] = "write"
        /\ runOf[r] \in drawn \cup Anonymous \cup {Nobody}

\* No account has more rows than it may keep.
RowsUnder(g) == { r \in Runs : history[r] = g }

HistoryIsShort ==
    \A g \in Accounts : IsFiniteSet(RowsUnder(g)) /\ Cardinality(RowsUnder(g)) <= KeepCount

\* Sign-ins that got past the rotation of their session.
Rotated == {"anonymous?", "going?", "link", "collect", "carry", "confirm", "forget", "done"}
Issued(p) == at[p] \in Rotated \/ p \in signedOut

\* A session is replaced once.
TakesItsSession(p) ==
    /\ Issued(p) => from[p] \in signedOut /\ at[p] \in Rotated \cup {"failed"}
    /\ at[p] # "idle" => from[p] # Nobody
    /\ from[p] \in SignIns => Issued(from[p])
    /\ into[p] \in drawn \cup {Nobody}
    /\ at[p] = "forget" => p \in signedOut /\ ~Exists(into[p])

OneSignInPerSession ==
    /\ \A p \in SignIns : TakesItsSession(p)
    /\ \A p, q \in SignIns : Issued(p) /\ Issued(q) /\ from[p] = from[q] => p = q
    /\ \A a \in Anonymous : a \in sessions \/ a \in signedOut

\* The previous account of a sign-in, once it is taken for an anonymous one, is
\* the anonymous session the browser had.
KnowsPrevious(p) ==
    /\ previous[p] \in drawn \cup Anonymous \cup {Nobody}
    /\ previous[p] \in Anonymous => previous[p] = from[p]
    /\ at[p] \in {"idle", "previous"} => previous[p] = Nobody
    /\ at[p] = "rotate" /\ from[p] \in Anonymous \ signedOut => previous[p] = from[p]
    /\ at[p] \in {"anonymous?", "going?", "link", "collect", "carry"} =>
          previous[p] # Nobody /\ (from[p] \in Anonymous => previous[p] = from[p])
    /\ at[p] = "going?" => ~Exists(previous[p])
    /\ at[p] \in {"link", "collect", "carry"} => previous[p] \in Anonymous
    /\ at[p] = "carry" => \A r \in todo[p] : runOf[r] = previous[p] /\ Terminal(r)

PreviousIsTheirs == \A p \in SignIns : KnowsPrevious(p)

\* g is the account the anonymous session a became, as long as that exists.
Became(a, g) ==
    /\ a \in Anonymous
    /\ \E p \in SignIns :
          /\ from[p] = a /\ Issued(p)
          /\ into[p] = g \/ (into[p] = Nobody /\ g \in drawn /\ ~Exists(g))

ListedWithTheirs ==
    /\ \A a \in Ids : carried[a] # Nobody => Became(a, carried[a])
    /\ \A r \in Runs : history[r] \notin {Nobody, runOf[r]} => Became(runOf[r], history[r])
    /\ \A r \in Runs, c \in Recorders :
          owner[r][c] \notin {Nobody, runOf[r]} => Became(runOf[r], owner[r][c])

\* A run is in an account's history, or enough newer ones are.
Newer(r, g) == { q \in Runs : history[q] = g /\ endedAt[q] > endedAt[r] }
Shown(r, g) == history[r] = g \/ Cardinality(Newer(r, g)) >= KeepCount

\* The run of an account finds its owner ...
OwnRunsAreShown ==
    \A r \in Runs : runOf[r] \in Accounts /\ Exists(runOf[r]) =>
        \A c \in Recorders :
            worker[r][c] # "link" /\ (worker[r][c] = "done" => Shown(r, runOf[r]))

\* ... and the run of a session that signed in finds the link, unless it ended
\* before the sign-in looked for such runs.
AtWork == {"running", "metrics", "mark", "owner", "link", "write"}
Recording(r) == \E c \in Recorders : worker[r][c] \in AtWork

CarriesTheirs(p) ==
    at[p] \in {"collect", "carry", "confirm", "done"} /\ from[p] \in Anonymous /\ Exists(into[p]) =>
        /\ carried[from[p]] = into[p]
        /\ at[p] # "collect" =>
             \A r \in Runs : runOf[r] = from[p] /\ Terminal(r) =>
                Shown(r, into[p]) \/ (at[p] = "carry" /\ r \in todo[p]) \/ Recording(r)

CarriedRunsAreShown == \A p \in SignIns : CarriesTheirs(p)

ListingInv ==
    /\ ListingShape /\ GoneIsGoing /\ EndsInOrder /\ RecordedRunsEnded /\ HistoryIsShort
    /\ OneSignInPerSession /\ PreviousIsTheirs /\ ListedWithTheirs
    /\ OwnRunsAreShown /\ CarriedRunsAreShown

-----------------------------------------------------------------------------
(* Accounts come and go.                                                     *)

\* The steps that touch the accounts table or a deletion.
LEMMA QuietForAccounts ==
    ASSUME [Next]_vars,
           ~ \E p \in SignIns, s \in Sessions, who \in Subjects : StartSignIn(p, s, who),
           ~ \E d \in Deletions : DeletionStep(d)
    PROVE  UNCHANGED <<accountOf, drawn, deleting, deleted, dpc, victim>>
<1>1. CASE \E r \in Runs : RunStep(r)
    BY <1>1 DEF RunStep, AskForRun, CancelRun, StartRun, FinishRun, WriteMetrics, CheckMark,
        FindOwner, FollowLink, WriteHistory, durable, registry, deletions
<1>2. CASE \E p \in SignIns : SignInStep(p)
    BY <1>2 DEF SignInStep, ReadPrevious, Rotate, CheckAnonymous, CheckGoing, Link, Collect, Confirm,
        ForgetAfterSignIn, CarryRun, durable, registry, deletions
<1>3. CASE UNCHANGED vars
    BY <1>3 DEF vars, durable, registry, deletions
<1> QED
    BY <1>1, <1>2, <1>3 DEF Next

\* An id that was drawn does not come back: the accounts it names only go, by
\* the one transaction of a deletion.
LEMMA AccountsOnlyGo ==
    ASSUME DeletionInv, ListingInv, [Next]_vars
    PROVE  /\ drawn \subseteq drawn'
           /\ \A g \in drawn : Exists(g)' => Exists(g)
           /\ \A g \in drawn : Exists(g) /\ ~Exists(g)' =>
                 \E d \in Deletions : DeleteRows(d) /\ victim[d] = g
<1>0. Shape /\ GoneForGood
    BY DEF DeletionInv
<1>1. ASSUME NEW p \in SignIns, NEW s \in Sessions, NEW who \in Subjects, StartSignIn(p, s, who)
      PROVE  drawn \subseteq drawn' /\ \A g \in drawn : Exists(g)' <=> Exists(g)
    <2>1. PICK g0 \in Accounts :
             /\ IF accountOf[who] = Nobody THEN g0 \notin drawn ELSE g0 = accountOf[who]
             /\ accountOf' = [accountOf EXCEPT ![who] = g0]
             /\ drawn' = drawn \cup {g0}
        BY <1>1 DEF StartSignIn
    <2>2. \A x \in Subjects : accountOf'[x] = IF x = who THEN g0 ELSE accountOf[x]
        BY <1>0, <2>1 DEF Shape
    <2>3. ASSUME NEW g \in drawn PROVE Exists(g)' <=> Exists(g)
        <3>1. g # Nobody
            BY <1>0, IdsAssumption DEF Shape
        <3>2. CASE accountOf[who] = Nobody
            BY <2>1, <2>2, <3>1, <3>2 DEF Exists
        <3>3. CASE accountOf[who] # Nobody
            BY <2>1, <2>2, <3>3 DEF Exists
        <3> QED
            BY <3>2, <3>3
    <2> QED
        BY <2>1, <2>3
<1>2. ASSUME NEW d \in Deletions, DeleteRows(d)
      PROVE  /\ drawn' = drawn
             /\ \A g \in drawn : Exists(g)' => Exists(g)
             /\ \A g \in drawn : Exists(g) /\ ~Exists(g)' => victim[d] = g
    <2>1. \/ accountOf' = [s \in Subjects |-> IF accountOf[s] = victim[d] THEN Nobody
                                              ELSE accountOf[s]]
          \/ accountOf' = accountOf
        BY <1>2 DEF DeleteRows
    <2>2. drawn' = drawn /\ \A g \in drawn : g # Nobody
        BY <1>0, <1>2, IdsAssumption DEF DeleteRows, Shape
    <2> QED
        BY <2>1, <2>2 DEF Exists
<1>3. ASSUME NEW d \in Deletions, DeletionStep(d), ~DeleteRows(d)
      PROVE  UNCHANGED <<accountOf, drawn>>
    BY <1>3 DEF DeletionStep, BeginDeletion, RevokeAccount, ForgetLinks, ForgetMetrics, EndDeletion,
        durable
<1>4. CASE UNCHANGED <<accountOf, drawn>>
    BY <1>4 DEF Exists
<1> QED
    BY <1>1, <1>2, <1>3, <1>4, QuietForAccounts

\* GoneIsGoing is kept: a deletion is counted from its mark to its end, and has
\* marked the account for good before it stops being counted.
LEMMA GoneIsGoingKept ==
    ASSUME DeletionInv, ListingInv, [Next]_vars
    PROVE  GoneIsGoing'
<1>0. Shape /\ GoneForGood /\ ListingShape /\ GoneIsGoing
    BY DEF DeletionInv, ListingInv
<1>1. ASSUME NEW p \in SignIns, NEW s \in Sessions, NEW who \in Subjects, StartSignIn(p, s, who)
      PROVE  GoneIsGoing'
    <2>1. PICK g0 \in Accounts :
             /\ accountOf' = [accountOf EXCEPT ![who] = g0]
             /\ drawn' = drawn \cup {g0}
        BY <1>1 DEF StartSignIn
    <2>2. Exists(g0)'
        BY <1>0, <2>1 DEF Shape, Exists
    <2>3. \A g \in drawn : Exists(g) => Exists(g)'
        <3>1. \A g \in drawn : Exists(g) /\ ~Exists(g)' =>
                 \E d \in Deletions : DeleteRows(d) /\ victim[d] = g
            BY AccountsOnlyGo
        <3>2. \A d \in Deletions : DeleteRows(d) => UNCHANGED at
            BY DEF DeleteRows, callbacks
        <3>3. at' # at
            BY <1>0, <1>1 DEF StartSignIn, Goto, Shape
        <3> QED
            BY <3>1, <3>2, <3>3
    <2>4. UNCHANGED <<deleting, deleted, dpc, victim>>
        BY <1>1 DEF StartSignIn, registry, deletions
    <2>5. \A g \in Accounts : UnderWay(g)' = UnderWay(g)
        BY <2>4 DEF UnderWay
    <2>6. \A g \in Accounts : IsFiniteSet(UnderWay(g))' /\ (deleting[g] = Cardinality(UnderWay(g)))'
        BY <1>0, <2>4, <2>5 DEF GoneIsGoing
    <2>7. \A g \in drawn' :
              \/ Exists(g)' \/ g \in deleted'
              \/ \E d \in Deletions : victim'[d] = g /\ dpc'[d] = "revoke"
        BY <1>0, <2>1, <2>2, <2>3, <2>4 DEF GoneIsGoing
    <2> QED
        BY <2>6, <2>7 DEF GoneIsGoing
\* A deletion that goes on is counted all the same.
<1>2. ASSUME NEW d \in Deletions, NEW to,
             dpc[d] \notin {"idle", "done"}, to \notin {"idle", "done"},
             dpc' = [dpc EXCEPT ![d] = to], UNCHANGED <<deleting, victim>>
      PROVE  \A g \in Accounts : IsFiniteSet(UnderWay(g))' /\ (deleting[g] = Cardinality(UnderWay(g)))'
    <2>1. \A g \in Accounts : UnderWay(g)' = UnderWay(g)
        BY <1>0, <1>2 DEF UnderWay, Shape
    <2> QED
        BY <1>0, <1>2, <2>1 DEF GoneIsGoing
<1>3. ASSUME NEW d \in Deletions, NEW s \in Sessions, BeginDeletion(d, s)
      PROVE  GoneIsGoing'
    <2>1. Holder(s) \in Accounts
        <3>1. s \in SignIns \cap sessions
            BY <1>3 DEF BeginDeletion
        <3>2. Holder(s) = into[s]
            BY <3>1, IdsAssumption DEF Holder
        <3>3. into[s] \in Accounts \cup {Nobody} /\ at[s] \notin {"idle", "failed"}
            BY <1>0, <3>1 DEF DeletionInv, SessionsAreLooked, Shape
        <3>4. into[s] # Nobody
            BY <3>1, <3>3 DEF DeletionInv, SessionsAreLooked
        <3> QED
            BY <3>2, <3>3, <3>4
    <2>a. PICK v \in Accounts : v = Holder(s)
        BY <2>1
    <2>2. /\ dpc[d] = "idle" /\ dpc' = [dpc EXCEPT ![d] = "rows"]
          /\ victim' = [victim EXCEPT ![d] = v] /\ deleting' = [deleting EXCEPT ![v] = @ + 1]
          /\ UNCHANGED <<accountOf, drawn, deleted>>
        BY <1>3, <2>a DEF BeginDeletion, GotoD, durable
    <2>3. UnderWay(v)' = UnderWay(v) \cup {d} /\ d \notin UnderWay(v)
        BY <1>0, <2>2 DEF UnderWay, Shape
    <2>4. \A g \in Accounts \ {v} : UnderWay(g)' = UnderWay(g) /\ deleting'[g] = deleting[g]
        BY <1>0, <2>2 DEF UnderWay, Shape, ListingShape
    <2>5. deleting'[v] = deleting[v] + 1
        BY <1>0, <2>2 DEF ListingShape
    <2>6. IsFiniteSet(UnderWay(v)') /\ Cardinality(UnderWay(v)') = deleting'[v]
        BY <1>0, <2>3, <2>5, FS_AddElement DEF GoneIsGoing
    <2>7. \A g \in Accounts : IsFiniteSet(UnderWay(g))' /\ (deleting[g] = Cardinality(UnderWay(g)))'
        BY <1>0, <2>4, <2>6 DEF GoneIsGoing
    <2>8. \A g \in drawn' :
              \/ Exists(g)' \/ g \in deleted'
              \/ \E x \in Deletions : victim'[x] = g /\ dpc'[x] = "revoke"
        <3>1. \A x \in Deletions : dpc[x] = "revoke" => victim'[x] = victim[x] /\ dpc'[x] = dpc[x]
            BY <1>0, <2>2 DEF Shape
        <3>2. \A g : Exists(g)' <=> Exists(g)
            BY <2>2 DEF Exists
        <3> QED
            BY <1>0, <2>2, <3>1, <3>2 DEF GoneIsGoing
    <2> QED
        BY <2>7, <2>8 DEF GoneIsGoing
<1>4. ASSUME NEW d \in Deletions, DeleteRows(d)
      PROVE  GoneIsGoing'
    <2>1. /\ dpc[d] = "rows" /\ UNCHANGED <<drawn, deleting, deleted, victim>>
          /\ \/ dpc' = [dpc EXCEPT ![d] = "revoke"]
             \/ dpc' = [dpc EXCEPT ![d] = "end"] /\ UNCHANGED accountOf
        BY <1>4 DEF DeleteRows, GotoD, registry
    <2>2. \A g \in Accounts : IsFiniteSet(UnderWay(g))' /\ (deleting[g] = Cardinality(UnderWay(g)))'
        BY <1>2, <2>1
    <2>3. \A g \in drawn' :
              \/ Exists(g)' \/ g \in deleted'
              \/ \E x \in Deletions : victim'[x] = g /\ dpc'[x] = "revoke"
        <3>1. \A x \in Deletions : dpc[x] = "revoke" => victim'[x] = victim[x] /\ dpc'[x] = dpc[x]
            BY <1>0, <2>1 DEF Shape
        <3>2. CASE dpc' = [dpc EXCEPT ![d] = "revoke"]
            <4>1. victim'[d] = victim[d] /\ dpc'[d] = "revoke"
                BY <1>0, <2>1, <3>2 DEF Shape
            <4>2. \A g \in drawn : Exists(g) => Exists(g)' \/ victim[d] = g
                <5>1. \A g \in drawn : g # Nobody
                    BY <1>0, IdsAssumption DEF Shape
                <5>2. \/ accountOf' = [s \in Subjects |-> IF accountOf[s] = victim[d] THEN Nobody
                                                          ELSE accountOf[s]]
                      \/ accountOf' = accountOf
                    BY <1>4 DEF DeleteRows
                <5> QED
                    BY <5>1, <5>2 DEF Exists
            <4> QED
                BY <1>0, <2>1, <3>1, <4>1, <4>2 DEF GoneIsGoing
        <3>3. CASE UNCHANGED accountOf
            <4>1. \A g : Exists(g)' <=> Exists(g)
                BY <3>3 DEF Exists
            <4> QED
                BY <1>0, <2>1, <3>1, <4>1 DEF GoneIsGoing
        <3> QED
            BY <2>1, <3>2, <3>3
    <2> QED
        BY <2>2, <2>3 DEF GoneIsGoing
<1>5. ASSUME NEW d \in Deletions, RevokeAccount(d) \/ ForgetLinks(d) \/ ForgetMetrics(d)
      PROVE  GoneIsGoing'
    <2>1. /\ \/ /\ dpc[d] = "revoke" /\ dpc' = [dpc EXCEPT ![d] = "links"]
                /\ deleted' = deleted \cup {victim[d]}
             \/ dpc[d] = "links" /\ dpc' = [dpc EXCEPT ![d] = "metrics"] /\ UNCHANGED deleted
             \/ dpc[d] = "metrics" /\ dpc' = [dpc EXCEPT ![d] = "end"] /\ UNCHANGED deleted
          /\ UNCHANGED <<accountOf, drawn, deleting, victim>>
        BY <1>5 DEF RevokeAccount, ForgetLinks, ForgetMetrics, GotoD, durable, registry
    <2>2. \A g \in Accounts : IsFiniteSet(UnderWay(g))' /\ (deleting[g] = Cardinality(UnderWay(g)))'
        BY <1>2, <2>1
    <2>3. \A g \in drawn' :
              \/ Exists(g)' \/ g \in deleted'
              \/ \E x \in Deletions : victim'[x] = g /\ dpc'[x] = "revoke"
        <3>1. \A g : Exists(g)' <=> Exists(g)
            BY <2>1 DEF Exists
        <3>2. \A x \in Deletions : dpc[x] = "revoke" =>
                 victim'[x] \in deleted' \/ (victim'[x] = victim[x] /\ dpc'[x] = dpc[x])
            BY <1>0, <2>1 DEF Shape
        <3>3. \A x \in Deletions : victim'[x] = victim[x]
            BY <2>1
        <3> QED
            BY <1>0, <2>1, <3>1, <3>2, <3>3 DEF GoneIsGoing
    <2> QED
        BY <2>2, <2>3 DEF GoneIsGoing
<1>6. ASSUME NEW d \in Deletions, EndDeletion(d)
      PROVE  GoneIsGoing'
    <2>a. PICK v \in Accounts \cup {Nobody} : v = victim[d]
        BY <1>0 DEF Shape
    <2>1. /\ dpc[d] = "end" /\ dpc' = [dpc EXCEPT ![d] = "done"]
          /\ deleting' = [deleting EXCEPT ![v] = @ - 1]
          /\ UNCHANGED <<accountOf, drawn, deleted, victim>>
        BY <1>6, <2>a DEF EndDeletion, GotoD, durable
    <2>2. UnderWay(v)' = UnderWay(v) \ {d} /\ d \in UnderWay(v)
        BY <1>0, <2>a, <2>1 DEF UnderWay, Shape
    <2>3. \A g \in Accounts \ {v} : UnderWay(g)' = UnderWay(g) /\ deleting'[g] = deleting[g]
        BY <1>0, <2>a, <2>1 DEF UnderWay, Shape, ListingShape
    <2>4. v \in Accounts => deleting'[v] = deleting[v] - 1
        BY <1>0, <2>1 DEF ListingShape
    <2>5. v \in Accounts => IsFiniteSet(UnderWay(v)') /\ Cardinality(UnderWay(v)') = deleting'[v]
        BY <1>0, <2>2, <2>4, FS_RemoveElement DEF GoneIsGoing
    <2>6. \A g \in Accounts : IsFiniteSet(UnderWay(g))' /\ (deleting[g] = Cardinality(UnderWay(g)))'
        BY <1>0, <2>3, <2>5 DEF GoneIsGoing
    <2>7. \A g \in drawn' :
              \/ Exists(g)' \/ g \in deleted'
              \/ \E x \in Deletions : victim'[x] = g /\ dpc'[x] = "revoke"
        <3>1. \A x \in Deletions : dpc[x] = "revoke" => victim'[x] = victim[x] /\ dpc'[x] = dpc[x]
            BY <1>0, <2>1 DEF Shape
        <3>2. \A g : Exists(g)' <=> Exists(g)
            BY <2>1 DEF Exists
        <3> QED
            BY <1>0, <2>1, <3>1, <3>2 DEF GoneIsGoing
    <2> QED
        BY <2>6, <2>7 DEF GoneIsGoing
<1>7. CASE UNCHANGED <<accountOf, drawn, deleting, deleted, dpc, victim>>
    <2>1. \A g : UnderWay(g)' = UnderWay(g) /\ (Exists(g)' <=> Exists(g))
        BY <1>7 DEF UnderWay, Exists
    <2> QED
        BY <1>0, <1>7, <2>1 DEF GoneIsGoing
<1> QED
    BY <1>1, <1>3, <1>4, <1>5, <1>6, <1>7, QuietForAccounts DEF DeletionStep

-----------------------------------------------------------------------------
(* Who changes what of a run.                                                *)

\* Only a run's own steps change where it is.
LEMMA QuietForRuns ==
    ASSUME [Next]_vars, ~ \E r \in Runs : RunStep(r)
    PROVE  UNCHANGED <<runOf, endedAt, worker, owner>>
<1>1. CASE \E p \in SignIns : SignInStep(p)
    BY <1>1 DEF SignInStep, StartSignIn, ReadPrevious, Rotate, CheckAnonymous, CheckGoing, Link,
        Collect, Confirm, ForgetAfterSignIn, CarryRun, running, recorders
<1>2. CASE \E d \in Deletions : DeletionStep(d)
    BY <1>2 DEF DeletionStep, BeginDeletion, DeleteRows, RevokeAccount, ForgetLinks, ForgetMetrics,
        EndDeletion, running, recorders
<1>3. CASE UNCHANGED vars
    BY <1>3 DEF vars, running, recorders
<1> QED
    BY <1>1, <1>2, <1>3 DEF Next

\* A history write puts the one run it is about under the account it names, if
\* that exists, and takes no other run but out.
LEMMA HistoryWriteOf ==
    ASSUME Shape, NEW r \in Runs, NEW id \in Accounts \cup {Nobody}, RecordHistory(r, id)
    PROVE  /\ \A q \in Runs \ {r} : history'[q] \in {history[q], Nobody}
           /\ history'[r] \in {history[r], Nobody} \/ (history'[r] = id /\ Exists(id))
<1> DEFINE h == IF Exists(id) /\ history[r] = Nobody THEN [history EXCEPT ![r] = id] ELSE history
<1>1. history' = Trim(h, id)
    BY DEF RecordHistory
<1>2. /\ \A q \in Runs \ {r} : h[q] = history[q]
      /\ h[r] = history[r] \/ (h[r] = id /\ Exists(id))
    BY DEF Shape
<1> HIDE DEF h
<1>3. history' = [q \in Runs |-> IF Listed(h, id, q) THEN h[q] ELSE Nobody]
    BY <1>1 DEF Trim
<1> QED
    BY <1>2, <1>3

\* A run is listed anew only by its own recorder or by a sign-in that carries it.
LEMMA WhoListsARun ==
    ASSUME DeletionInv, ListingInv, [Next]_vars, NEW q \in Runs,
           history'[q] \notin {history[q], Nobody}
    PROVE  \/ \E c \in Recorders : /\ WriteHistory(q, c)
                                   /\ history'[q] = owner[q][c] /\ Exists(owner[q][c])
           \/ \E p \in SignIns : /\ CarryRun(p, q)
                                 /\ history'[q] = into[p] /\ Exists(into[p])
<1>0. Shape
    BY DEF DeletionInv
<1>1. ASSUME NEW r \in Runs, NEW c \in Recorders, WriteHistory(r, c)
      PROVE  r = q /\ history'[q] = owner[q][c] /\ Exists(owner[q][c])
    <2>1. owner[r][c] \in Accounts \cup {Nobody}
        BY <1>0 DEF Shape
    <2> QED
        BY <1>0, <1>1, <2>1, HistoryWriteOf DEF WriteHistory
<1>2. ASSUME NEW p \in SignIns, NEW r \in Runs, CarryRun(p, r)
      PROVE  r = q /\ history'[q] = into[p] /\ Exists(into[p])
    <2>1. into[p] \in Accounts \cup {Nobody}
        BY <1>0 DEF Shape
    <2> QED
        BY <1>0, <1>2, <2>1, HistoryWriteOf DEF CarryRun
<1>3. ~ UNCHANGED history
    OBVIOUS
<1>4. CASE \E r \in Runs : RunStep(r)
    <2>1. \E r \in Runs, c \in Recorders : WriteHistory(r, c)
        BY <1>3, <1>4 DEF RunStep, AskForRun, CancelRun, StartRun, FinishRun, WriteMetrics, CheckMark,
            FindOwner, FollowLink, durable
    <2> QED
        BY <1>1, <2>1
<1>5. CASE \E p \in SignIns : SignInStep(p)
    <2>1. \E p \in SignIns, r \in Runs : CarryRun(p, r)
        BY <1>3, <1>5 DEF SignInStep, StartSignIn, ReadPrevious, Rotate, CheckAnonymous, CheckGoing,
            Link, Collect, Confirm, ForgetAfterSignIn, durable
    <2> QED
        BY <1>2, <2>1
<1>6. CASE \E d \in Deletions : DeletionStep(d)
    <2>1. PICK d \in Deletions : DeleteRows(d)
        BY <1>3, <1>6 DEF DeletionStep, BeginDeletion, RevokeAccount, ForgetLinks, ForgetMetrics,
            EndDeletion, durable
    <2>2. history'[q] \in {history[q], Nobody}
        BY <2>1 DEF DeleteRows
    <2> QED
        BY <2>2
<1> QED
    BY <1>3, <1>4, <1>5, <1>6 DEF Next, vars, durable

\* Where a step of a recorder leaves the others.
LEMMA StepMoves ==
    ASSUME Shape, NEW r \in Runs, NEW c \in Recorders, NEW to, Step(r, c, to)
    PROVE  \A q \in Runs, x \in Recorders :
               worker'[q][x] = IF q = r /\ x = c THEN to ELSE worker[q][x]
BY DEF Shape, Step

-----------------------------------------------------------------------------
\* EndsInOrder is kept: a run that ends is the last one.
LEMMA EndsInOrderKept ==
    ASSUME DeletionInv, ListingInv, [Next]_vars
    PROVE  EndsInOrder' /\ endedAt' \in [Runs -> Nat]
<1>0. endedAt \in [Runs -> Nat] /\ EndsInOrder
    BY DEF ListingInv, ListingShape
<1>1. CASE UNCHANGED endedAt
    BY <1>0, <1>1 DEF EndsInOrder, Ended, Terminal
<1>2. ASSUME NEW r \in Runs, ~Terminal(r), endedAt' = [endedAt EXCEPT ![r] = NextEnd]
      PROVE  EndsInOrder' /\ endedAt' \in [Runs -> Nat]
    <2> DEFINE n == Cardinality(Ended)
    <2>1. n \in Nat /\ NextEnd = n + 1
        BY <1>0, FS_CardinalityType DEF EndsInOrder, NextEnd, Ended
    <2>2. endedAt' = [endedAt EXCEPT ![r] = n + 1]
        BY <1>2, <2>1
    <2>3. Ended' = Ended \cup {r} /\ r \notin Ended
        BY <1>0, <1>2, <2>1, <2>2 DEF Ended, Terminal
    <2>4. IsFiniteSet(Ended') /\ Cardinality(Ended') = n + 1
        BY <1>0, <2>3, FS_AddElement DEF EndsInOrder
    <2>5. \A q \in Ended : endedAt[q] <= n
        BY <1>0 DEF EndsInOrder
    <2> HIDE DEF n
    <2>6. endedAt' \in [Runs -> Nat]
        BY <1>0, <2>1, <2>2
    <2>7. Ended \subseteq Runs
        BY DEF Ended
    <2>8. \A q \in Ended' : endedAt'[q] <= n + 1
        BY <1>0, <2>1, <2>2, <2>3, <2>5, <2>7
    <2>9. \A q, x \in Ended' : endedAt'[q] = endedAt'[x] => q = x
        BY <1>0, <2>1, <2>2, <2>3, <2>5, <2>7 DEF EndsInOrder
    <2> QED
        BY <2>4, <2>6, <2>8, <2>9 DEF EndsInOrder
<1>3. ASSUME NEW r \in Runs, RunStep(r)
      PROVE  \/ UNCHANGED endedAt
             \/ ~Terminal(r) /\ endedAt' = [endedAt EXCEPT ![r] = NextEnd]
    BY <1>3 DEF RunStep, AskForRun, CancelRun, StartRun, FinishRun, WriteMetrics, CheckMark,
        FindOwner, FollowLink, WriteHistory, running
<1> QED
    BY <1>1, <1>2, <1>3, QuietForRuns

\* RecordedRunsEnded is kept.
LEMMA RecordedRunsEndedKept ==
    ASSUME DeletionInv, DeletionInv', ListingInv, [Next]_vars
    PROVE  RecordedRunsEnded'
<1>0. /\ Shape /\ Shape' /\ RunsHaveAccounts /\ RecordedRunsEnded
      /\ endedAt \in [Runs -> Nat] /\ drawn \subseteq drawn'
    BY AccountsOnlyGo DEF DeletionInv, ListingInv, ListingShape
<1>1. \A q \in Runs : history'[q] # Nobody => history[q] # Nobody \/ Terminal(q)
    <2> SUFFICES ASSUME NEW q \in Runs, history'[q] \notin {history[q], Nobody}
                 PROVE  Terminal(q)
        OBVIOUS
    <2>1. ASSUME NEW c \in Recorders, WriteHistory(q, c) PROVE Terminal(q)
        BY <1>0, <2>1 DEF WriteHistory, RecordedRunsEnded, Recorders, WorkerLabels
    <2>2. ASSUME NEW p \in SignIns, CarryRun(p, q) PROVE Terminal(q)
        BY <2>2 DEF CarryRun, ListingInv, PreviousIsTheirs, KnowsPrevious
    <2> QED
        BY <2>1, <2>2, WhoListsARun
<1>2. CASE ~ \E r \in Runs : RunStep(r)
    <2>1. UNCHANGED <<runOf, endedAt, worker, owner>>
        BY <1>2, QuietForRuns
    <2> QED
        BY <1>0, <1>1, <2>1 DEF RecordedRunsEnded, Terminal
<1>3. ASSUME NEW r \in Runs, RunStep(r)
      PROVE  RecordedRunsEnded'
    \* A step of a recorder of an ended run.
    <2>1. ASSUME NEW c \in Recorders, Terminal(r),
                 NEW to \in WorkerLabels \ {"none", "asked", "running"},
                 c = "cancel" => to \notin {"metrics", "mark"}, worker[r][c] # "none",
                 c = "pipeline" => worker[r][c] \notin {"asked", "running"},
                 Step(r, c, to), UNCHANGED <<runOf, endedAt>>,
                 \A x \in Recorders, q \in Runs :
                     owner'[q][x] # Nobody <=> IF q = r /\ x = c THEN to = "write"
                                               ELSE owner[q][x] # Nobody
          PROVE  RecordedRunsEnded'
        <3>1. \A q \in Runs, x \in Recorders :
                 worker'[q][x] = IF q = r /\ x = c THEN to ELSE worker[q][x]
            BY <1>0, <2>1, StepMoves
        <3>2. \A q \in Runs : Terminal(q)' <=> Terminal(q)
            BY <2>1 DEF Terminal
        <3> QED
            BY <1>0, <1>1, <2>1, <3>1, <3>2 DEF RecordedRunsEnded, Recorders
    <2>2. ASSUME NEW s \in Sessions, AskForRun(r, s) PROVE RecordedRunsEnded'
        <3>1. /\ Step(r, "pipeline", "asked") /\ worker[r]["pipeline"] = "none"
              /\ worker[r]["cancel"] = "none" /\ UNCHANGED <<endedAt, owner, history>>
            BY <1>0, <2>2 DEF AskForRun, RunsHaveAccounts, durable
        <3>2. \A q \in Runs, x \in Recorders :
                 worker'[q][x] = IF q = r /\ x = "pipeline" THEN "asked" ELSE worker[q][x]
            BY <1>0, <3>1, StepMoves DEF Recorders
        <3>3. runOf' = [runOf EXCEPT ![r] = Holder(s)] /\ Holder(s) \in drawn \cup Anonymous \cup {Nobody}
            BY <2>2 DEF AskForRun, Holder, Sessions, ListingInv, OneSignInPerSession, TakesItsSession
        <3> QED
            BY <1>0, <3>1, <3>2, <3>3 DEF RecordedRunsEnded, Terminal, WorkerLabels, Recorders, Shape
    <2>3. ASSUME StartRun(r) PROVE RecordedRunsEnded'
        <3>1. /\ worker[r]["pipeline"] = "asked" /\ UNCHANGED <<endedAt, owner, history>>
              /\ \E to \in {"none", "running"} : Step(r, "pipeline", to)
              /\ runOf' = runOf \/ runOf' = [runOf EXCEPT ![r] = Nobody]
            BY <2>3 DEF StartRun, durable
        <3>2. \A q \in Runs, x \in Recorders :
                 \/ worker'[q][x] = worker[q][x] /\ (q # r \/ x # "pipeline")
                 \/ q = r /\ x = "pipeline" /\ worker'[q][x] \in {"none", "running"}
            BY <1>0, <3>1, StepMoves DEF Recorders
        <3> QED
            BY <1>0, <3>1, <3>2 DEF RecordedRunsEnded, Terminal, WorkerLabels, Recorders, Shape
    \* A run that ends.
    <2>4. ASSUME ~Terminal(r), endedAt' = [endedAt EXCEPT ![r] = NextEnd],
                 worker[r]["pipeline"] = "running",
                 \/ Step(r, "pipeline", "metrics") \/ Step(r, "cancel", "owner"),
                 UNCHANGED <<runOf, owner, history>>
          PROVE  RecordedRunsEnded'
        <3>1. Terminal(r)' /\ \A q \in Runs \ {r} : Terminal(q)' <=> Terminal(q)
            <4>1. Cardinality(Ended) \in Nat
                BY FS_CardinalityType DEF ListingInv, EndsInOrder
            <4>2. NextEnd > 0
                BY <4>1 DEF NextEnd, Ended
            <4> QED
                BY <1>0, <2>4, <4>2 DEF Terminal
        <3>2. CASE Step(r, "pipeline", "metrics")
            <4>1. \A q \in Runs, x \in Recorders :
                     worker'[q][x] = IF q = r /\ x = "pipeline" THEN "metrics" ELSE worker[q][x]
                BY <1>0, <3>2, StepMoves DEF Recorders
            <4> QED
                BY <1>0, <2>4, <3>1, <4>1 DEF RecordedRunsEnded, WorkerLabels, Recorders
        <3>3. CASE Step(r, "cancel", "owner")
            <4>1. \A q \in Runs, x \in Recorders :
                     worker'[q][x] = IF q = r /\ x = "cancel" THEN "owner" ELSE worker[q][x]
                BY <1>0, <3>3, StepMoves DEF Recorders
            <4> QED
                BY <1>0, <2>4, <3>1, <4>1 DEF RecordedRunsEnded, WorkerLabels, Recorders
        <3> QED
            BY <2>4, <3>2, <3>3
    <2>5. ASSUME FinishRun(r) PROVE RecordedRunsEnded'
        <3>1. CASE ~Terminal(r)
            BY <2>4, <2>5, <3>1 DEF FinishRun, durable
        <3>2. CASE Terminal(r)
            <4>1. /\ Step(r, "pipeline", "metrics") /\ UNCHANGED <<runOf, endedAt, owner, history>>
                  /\ worker[r]["pipeline"] = "running"
                BY <2>5, <3>2 DEF FinishRun, durable
            <4>2. \A q \in Runs, x \in Recorders :
                     worker'[q][x] = IF q = r /\ x = "pipeline" THEN "metrics" ELSE worker[q][x]
                BY <1>0, <4>1, StepMoves DEF Recorders
            <4> QED
                BY <1>0, <3>2, <4>1, <4>2 DEF RecordedRunsEnded, Terminal, WorkerLabels, Recorders
        <3> QED
            BY <3>1, <3>2
    <2>6. ASSUME NEW s \in Sessions, CancelRun(r, s) PROVE RecordedRunsEnded'
        BY <2>4, <2>6 DEF CancelRun, durable
    <2>7. ASSUME WriteMetrics(r) \/ CheckMark(r) PROVE RecordedRunsEnded'
        <3>1. /\ \E to \in {"mark", "owner"} : Step(r, "pipeline", to)
              /\ worker[r]["pipeline"] \in {"metrics", "mark"}
              /\ UNCHANGED <<runOf, endedAt, owner>>
            BY <2>7 DEF WriteMetrics, CheckMark, running
        <3>2. Terminal(r) /\ \A x \in Recorders, q \in Runs : owner'[q][x] = owner[q][x]
            BY <1>0, <3>1 DEF RecordedRunsEnded, WorkerLabels
        <3>3. owner[r]["pipeline"] = Nobody
            BY <1>0, <3>1 DEF RecordedRunsEnded, Recorders
        <3> QED
            BY <2>1, <3>1, <3>2, <3>3 DEF WorkerLabels, Recorders
    <2>8. ASSUME NEW c \in Recorders, FindOwner(r, c) \/ FollowLink(r, c) \/ WriteHistory(r, c)
          PROVE RecordedRunsEnded'
        <3>1. Terminal(r) /\ worker[r][c] \in {"owner", "link", "write"}
            BY <1>0, <2>8 DEF FindOwner, FollowLink, WriteHistory, RecordedRunsEnded, Recorders,
                WorkerLabels
        <3>2. UNCHANGED <<runOf, endedAt>>
            BY <2>8 DEF FindOwner, FollowLink, WriteHistory, running
        <3>3. PICK to \in {"link", "write", "done"} :
                 /\ Step(r, c, to)
                 /\ IF to = "write" THEN \E id : id # Nobody /\ owner' = [owner EXCEPT ![r][c] = id]
                    ELSE owner' = owner \/ owner' = [owner EXCEPT ![r][c] = Nobody]
                 /\ worker[r][c] = "write" => owner' = [owner EXCEPT ![r][c] = Nobody]
            <4>1. CASE FindOwner(r, c)
                <5>1. runOf[r] # Nobody
                    BY <1>0, <3>1 DEF RecordedRunsEnded, RunsHaveAccounts, Recorders
                <5> QED
                    BY <4>1, <5>1 DEF FindOwner
            <4>2. CASE FollowLink(r, c)
                BY <4>2 DEF FollowLink
            <4>3. CASE WriteHistory(r, c)
                BY <4>3 DEF WriteHistory
            <4> QED
                BY <2>8, <4>1, <4>2, <4>3
        <3>4. \A x \in Recorders, q \in Runs :
                 owner'[q][x] # Nobody <=> IF q = r /\ x = c THEN to = "write"
                                           ELSE owner[q][x] # Nobody
            <4>1. worker[r][c] # "write" => owner[r][c] = Nobody
                BY <1>0 DEF RecordedRunsEnded
            <4> QED
                BY <1>0, <3>1, <3>3, <4>1 DEF Shape
        <3> QED
            BY <2>1, <3>1, <3>2, <3>3, <3>4 DEF WorkerLabels, Recorders
    <2> QED
        BY <1>3, <2>2, <2>3, <2>5, <2>6, <2>7, <2>8 DEF RunStep
<1> QED
    BY <1>2, <1>3

-----------------------------------------------------------------------------
(* What trimming to the newest rows leaves.                                  *)

\* A set ranked by naturals has an oldest member.
LEMMA OldestOf ==
    ASSUME NEW S, NEW rank, \A x \in S : rank[x] \in Nat, S # {}
    PROVE  \E m \in S : \A x \in S : rank[m] <= rank[x]
<1> DEFINE T == { rank[x] : x \in S }
<1>1. T \subseteq Nat /\ T # {}
    OBVIOUS
<1> HIDE DEF T
<1>2. \E n \in T : \A k \in T : ~ (<<k, n>> \in OpToRel(<, Nat))
    BY <1>1, NatLessThanWellFounded, WFMin
<1>3. PICK n \in T : \A k \in T : ~ (k < n)
    BY <1>1, <1>2 DEF OpToRel
<1>4. PICK m \in S : n = rank[m]
    BY DEF T
<1>5. \A x \in S : rank[x] \in T
    BY DEF T
<1>6. ASSUME NEW x \in S PROVE rank[m] <= rank[x]
    <2>1. ~ (rank[x] < rank[m]) /\ rank[x] \in Nat /\ rank[m] \in Nat
        BY <1>3, <1>4, <1>5
    <2> QED
        BY <2>1
<1> QED
    BY <1>6

\* Of at most one row too many, the trim drops the oldest one, and nothing else.
LEMMA KeptRows ==
    ASSUME NEW R, IsFiniteSet(R), NEW rank \in [R -> Nat],
           \A x, y \in R : rank[x] = rank[y] => x = y,
           NEW K \in Nat, Cardinality(R) <= K + 1,
           NEW Above \in [R -> SUBSET R],
           \A q, x \in R : x \in Above[q] <=> rank[x] > rank[q],
           NEW Kept \in SUBSET R, \A q \in R : q \in Kept <=> Cardinality(Above[q]) < K
    PROVE  /\ IsFiniteSet(Kept) /\ Cardinality(Kept) <= K
           /\ \/ Kept = R
              \/ \E m \in R : /\ Kept = R \ {m} /\ Cardinality(Kept) = K
                              /\ \A x \in Kept : rank[x] > rank[m]
<1>0. Cardinality(R) \in Nat
    BY FS_CardinalityType
<1>1. \A q \in R : /\ Above[q] \subseteq R \ {q} /\ IsFiniteSet(R \ {q})
                   /\ Cardinality(R \ {q}) = Cardinality(R) - 1
    BY FS_RemoveElement
<1>2. \A q \in R : /\ IsFiniteSet(Above[q]) /\ Cardinality(Above[q]) \in Nat
                   /\ Cardinality(Above[q]) <= Cardinality(R) - 1
                   /\ Cardinality(R) - 1 = Cardinality(Above[q]) => Above[q] = R \ {q}
    <2> SUFFICES ASSUME NEW q \in R
                 PROVE  /\ IsFiniteSet(Above[q]) /\ Cardinality(Above[q]) \in Nat
                        /\ Cardinality(Above[q]) <= Cardinality(R) - 1
                        /\ Cardinality(R) - 1 = Cardinality(Above[q]) => Above[q] = R \ {q}
        OBVIOUS
    <2>1. /\ IsFiniteSet(Above[q]) /\ Cardinality(Above[q]) <= Cardinality(R \ {q})
          /\ Cardinality(R \ {q}) = Cardinality(Above[q]) => Above[q] = R \ {q}
        BY <1>1, FS_Subset
    <2>2. Cardinality(Above[q]) \in Nat
        BY <2>1, FS_CardinalityType
    <2> QED
        BY <1>0, <1>1, <2>1, <2>2
<1>3. CASE \A q \in R : Cardinality(Above[q]) < K
    <2>1. Kept = R
        BY <1>3
    <2>2. ASSUME R # {}, Cardinality(R) = K + 1 PROVE FALSE
        <3>1. PICK m \in R : \A x \in R : rank[m] <= rank[x]
            BY <2>2, OldestOf
        <3>2. \A x \in R \ {m} : x \in Above[m]
            <4> SUFFICES ASSUME NEW x \in R \ {m} PROVE rank[x] > rank[m]
                OBVIOUS
            <4>1. rank[x] # rank[m] /\ rank[m] <= rank[x] /\ rank[x] \in Nat /\ rank[m] \in Nat
                BY <3>1
            <4> QED
                BY <4>1
        <3>3. Above[m] = R \ {m}
            BY <1>1, <3>2
        <3>4. Cardinality(R \ {m}) = Cardinality(R) - 1
            BY <1>1, <3>1
        <3>5. Cardinality(R \ {m}) = K
            BY <1>0, <2>2, <3>4
        <3>6. Cardinality(Above[m]) < K
            BY <1>3, <3>1
        <3> QED
            BY <3>3, <3>5, <3>6
    <2>3. CASE R = {}
        BY <2>1, <2>3, FS_EmptySet
    <2>4. CASE Cardinality(R) # K + 1
        BY <1>0, <2>1, <2>4
    <2> QED
        BY <2>2, <2>3, <2>4
<1>4. ASSUME NEW m \in R, ~ (Cardinality(Above[m]) < K)
      PROVE  /\ Kept = R \ {m} /\ Cardinality(Kept) = K /\ IsFiniteSet(Kept)
             /\ \A x \in Kept : rank[x] > rank[m]
    <2>1. Cardinality(R) = K + 1 /\ Above[m] = R \ {m}
        BY <1>0, <1>2, <1>4
    <2>2. \A x \in R \ {m} : rank[x] > rank[m]
        BY <2>1
    <2>3. ASSUME NEW q \in R \ {m} PROVE Cardinality(Above[q]) < K
        <3>1. ~ (rank[m] > rank[q])
            <4>1. rank[q] \in Nat /\ rank[m] \in Nat /\ rank[q] > rank[m]
                BY <2>2
            <4> QED
                BY <4>1
        <3>2. Above[q] # R \ {q}
            BY <3>1
        <3>3. /\ Cardinality(Above[q]) \in Nat /\ Cardinality(Above[q]) <= K
              /\ Cardinality(Above[q]) # K
            BY <1>2, <2>1, <3>2
        <3> QED
            BY <3>3
    <2>4. Kept = R \ {m}
        BY <1>4, <2>3
    <2> QED
        BY <1>0, <1>1, <2>1, <2>2, <2>4
<1> QED
    BY <1>3, <1>4

\* Writing a run under an account leaves that account with no more rows than it
\* may keep, the run shown, and every run shown that was.
LEMMA HistoryWriteShows ==
    ASSUME Shape, endedAt \in [Runs -> Nat], EndsInOrder, HistoryIsShort,
           \A q \in Runs : history[q] # Nobody => Terminal(q),
           NEW r \in Runs, Terminal(r), NEW id \in Accounts, RecordHistory(r, id), UNCHANGED endedAt
    PROVE  /\ HistoryIsShort'
           /\ Exists(id) /\ history[r] \in {Nobody, id} => Shown(r, id)'
           /\ \A q \in Runs, g \in Accounts : Shown(q, g) => Shown(q, g)'
<1>0. history \in [Runs -> Accounts \cup {Nobody}] /\ Nobody \notin Accounts
    BY IdsAssumption DEF Shape
<1>1. PICK h \in [Runs -> Accounts \cup {Nobody}] :
         /\ h = IF Exists(id) /\ history[r] = Nobody THEN [history EXCEPT ![r] = id] ELSE history
         /\ history' = Trim(h, id)
    BY <1>0 DEF RecordHistory
<1>2. /\ \A q \in Runs \ {r} : h[q] = history[q]
      /\ h[r] = history[r] \/ (history[r] = Nobody /\ h[r] = id)
      /\ Exists(id) /\ history[r] \in {Nobody, id} => h[r] = id
    BY <1>0, <1>1
<1>3. \A q \in Runs : history'[q] = IF Listed(h, id, q) THEN h[q] ELSE Nobody
    BY <1>1 DEF Trim
\* The other accounts.
<1>4. ASSUME NEW g \in Accounts \ {id}
      PROVE  /\ RowsUnder(g)' = RowsUnder(g)
             /\ \A q \in Runs : Shown(q, g) => Shown(q, g)'
    <2>0. \A q \in Runs : h[q] # id => history'[q] = h[q]
        <3>1. \A q \in Runs : h[q] # id => Listed(h, id, q)
            BY DEF Listed
        <3> QED
            BY <1>3, <3>1
    <2>a. \A q \in Runs : h[q] = id => history'[q] \in {id, Nobody}
        BY <1>3
    <2>b. \A q \in Runs : h[q] = g <=> history[q] = g
        BY <1>0, <1>2, <1>4
    <2>1. \A q \in Runs : history'[q] = g <=> history[q] = g
        BY <1>0, <1>4, <2>0, <2>a, <2>b
    <2>2. \A q \in Runs : Newer(q, g)' = Newer(q, g)
        BY <2>1 DEF Newer
    <2> QED
        BY <2>1, <2>2 DEF RowsUnder, Shown
\* The account itself: R before the trim, K afterwards.
<1>5. PICK R \in SUBSET Runs : R = { q \in Runs : h[q] = id }
    OBVIOUS
<1>6. PICK K \in SUBSET Runs : K = RowsUnder(id)'
    BY DEF RowsUnder
<1>7. PICK Above \in [R -> SUBSET R] :
         \A q \in R : Above[q] = { x \in R : endedAt[x] > endedAt[q] }
    <2>1. [q \in R |-> { x \in R : endedAt[x] > endedAt[q] }] \in [R -> SUBSET R]
        OBVIOUS
    <2> QED
        BY <2>1
<1>8. IsFiniteSet(R) /\ Cardinality(R) <= KeepCount + 1
    <2>1. R = RowsUnder(id) \/ R = RowsUnder(id) \cup {r}
        BY <1>2, <1>5 DEF RowsUnder
    <2>2. IsFiniteSet(RowsUnder(id)) /\ Cardinality(RowsUnder(id)) <= KeepCount
        BY DEF HistoryIsShort
    <2>3. Cardinality(RowsUnder(id)) \in Nat
        BY <2>2, FS_CardinalityType
    <2>4. /\ IsFiniteSet(RowsUnder(id) \cup {r})
          /\ Cardinality(RowsUnder(id) \cup {r}) <= Cardinality(RowsUnder(id)) + 1
        <3>1. /\ IsFiniteSet(RowsUnder(id) \cup {r})
              /\ Cardinality(RowsUnder(id) \cup {r})
                   = IF r \in RowsUnder(id) THEN Cardinality(RowsUnder(id))
                     ELSE Cardinality(RowsUnder(id)) + 1
            BY <2>2, FS_AddElement
        <3> QED
            BY <2>3, <3>1
    <2>5. KeepCount \in Nat
        BY KeepAssumption
    <2>6. CASE R = RowsUnder(id)
        BY <2>2, <2>3, <2>5, <2>6
    <2>7. CASE R = RowsUnder(id) \cup {r}
        <3>1. Cardinality(R) \in Nat
            BY <2>4, <2>7, FS_CardinalityType
        <3> QED
            BY <2>2, <2>3, <2>4, <2>5, <2>7, <3>1
    <2> QED
        BY <2>1, <2>6, <2>7
<1>9. /\ \A x \in R : endedAt[x] \in Nat
      /\ \A x, y \in R : endedAt[x] = endedAt[y] => x = y
    <2>1. R \subseteq Ended
        BY <1>0, <1>2, <1>5 DEF Ended
    <2> QED
        BY <2>1 DEF EndsInOrder
<1>10. K \subseteq R /\ \A q \in R : q \in K <=> Cardinality(Above[q]) < KeepCount
    <2>1. \A q \in Runs : q \in K <=> history'[q] = id
        BY <1>6 DEF RowsUnder
    <2>2. K \subseteq R
        BY <1>0, <1>3, <1>5, <2>1
    <2>3. ASSUME NEW q \in R PROVE q \in K <=> Cardinality(Above[q]) < KeepCount
        <3>1. Above[q] = { x \in Runs : h[x] = id /\ endedAt[x] > endedAt[q] }
            BY <1>5, <1>7
        <3>2. Listed(h, id, q) <=> Cardinality(Above[q]) < KeepCount
            BY <1>5, <3>1 DEF Listed
        <3> QED
            BY <1>0, <1>3, <1>5, <2>1, <3>2
    <2> QED
        BY <2>2, <2>3
<1>11. /\ IsFiniteSet(K) /\ Cardinality(K) <= KeepCount
       /\ \/ K = R
          \/ \E m \in R : /\ K = R \ {m} /\ Cardinality(K) = KeepCount
                          /\ \A x \in K : endedAt[x] > endedAt[m]
    <2>1. PICK rank \in [R -> Nat] : \A x \in R : rank[x] = endedAt[x]
        <3>1. [x \in R |-> endedAt[x]] \in [R -> Nat]
            OBVIOUS
        <3> QED
            BY <3>1
    <2>2. \A q, x \in R : x \in Above[q] <=> rank[x] > rank[q]
        BY <1>7, <2>1
    <2>3. KeepCount \in Nat /\ K \in SUBSET R
        BY <1>10, KeepAssumption
    <2>4. IsFiniteSet(R) /\ Cardinality(R) <= KeepCount + 1
        BY <1>8
    <2>5. \A x, y \in R : rank[x] = rank[y] => x = y
        BY <1>9, <2>1
    <2>6. \A q \in R : q \in K <=> Cardinality(Above[q]) < KeepCount
        BY <1>10
    <2>7. /\ IsFiniteSet(K) /\ Cardinality(K) <= KeepCount
          /\ \/ K = R
             \/ \E m \in R : /\ K = R \ {m} /\ Cardinality(K) = KeepCount
                             /\ \A x \in K : rank[x] > rank[m]
        BY <2>2, <2>3, <2>4, <2>5, <2>6, KeptRows
    <2> QED
        BY <2>1, <2>3, <2>7
<1>12. HistoryIsShort'
    BY <1>4, <1>6, <1>11 DEF HistoryIsShort
<1>13. \A q \in Runs : Shown(q, id)' <=>
          q \in K \/ Cardinality({ x \in K : endedAt[x] > endedAt[q] }) >= KeepCount
    <2> SUFFICES ASSUME NEW q \in Runs
                 PROVE  Shown(q, id)' <=>
                           q \in K \/ Cardinality({ x \in K : endedAt[x] > endedAt[q] }) >= KeepCount
        OBVIOUS
    <2>1. Newer(q, id)' = { x \in K : endedAt[x] > endedAt[q] }
        BY <1>6 DEF Newer, RowsUnder
    <2>2. q \in K <=> history'[q] = id
        BY <1>6 DEF RowsUnder
    <2> QED
        BY <2>1, <2>2 DEF Shown
\* What was shown, with the new row, is shown.
<1>14. ASSUME NEW q \in Runs,
              q \in R \/ Cardinality({ x \in R : endedAt[x] > endedAt[q] }) >= KeepCount
       PROVE  Shown(q, id)'
    <2>1. CASE K = R
        BY <1>13, <1>14, <2>1
    <2>2. ASSUME NEW m \in R, K = R \ {m}, Cardinality(K) = KeepCount,
                 \A x \in K : endedAt[x] > endedAt[m]
          PROVE  Shown(q, id)'
        <3>1. PICK N \in SUBSET K : N = { x \in K : endedAt[x] > endedAt[q] }
            OBVIOUS
        <3>2. endedAt[q] \in Nat /\ \A x \in Runs : endedAt[x] \in Nat
            OBVIOUS
        <3>3. CASE endedAt[q] <= endedAt[m]
            <4>1. N = K
                BY <2>2, <3>1, <3>2, <3>3
            <4> QED
                BY <1>13, <2>2, <3>1, <4>1, KeepAssumption
        <3>4. CASE endedAt[m] < endedAt[q]
            <4>1. N = { x \in R : endedAt[x] > endedAt[q] } /\ q # m
                BY <2>2, <3>1, <3>2, <3>4
            <4> QED
                BY <1>13, <1>14, <2>2, <3>1, <4>1
        <3> QED
            BY <3>2, <3>3, <3>4
    <2> QED
        BY <1>11, <2>1, <2>2
<1>15. ASSUME NEW q \in Runs, Shown(q, id) PROVE Shown(q, id)'
    <2>1. CASE history[q] = id
        BY <1>0, <1>2, <1>5, <1>14, <2>1
    <2>2. CASE Cardinality(Newer(q, id)) >= KeepCount
        <3>1. PICK N \in SUBSET R : N = { x \in R : endedAt[x] > endedAt[q] }
            OBVIOUS
        <3>2. Newer(q, id) \in SUBSET N
            BY <1>0, <1>2, <1>5, <3>1 DEF Newer
        <3>3. IsFiniteSet(N)
            BY <1>8, <3>1, FS_Subset
        <3>4. /\ Cardinality(Newer(q, id)) <= Cardinality(N) /\ Cardinality(N) \in Nat
              /\ Cardinality(Newer(q, id)) \in Nat
            BY <3>2, <3>3, FS_Subset, FS_CardinalityType
        <3>5. Cardinality(N) >= KeepCount
            BY <2>2, <3>4, KeepAssumption
        <3> QED
            BY <1>14, <3>1, <3>5
    <2> QED
        BY <1>15, <2>1, <2>2 DEF Shown
<1>16. Exists(id) /\ history[r] \in {Nobody, id} => Shown(r, id)'
    BY <1>2, <1>5, <1>14
<1> QED
    BY <1>4, <1>12, <1>15, <1>16

\* Both writers of a history write a run that ended, under an account.
LEMMA HistoryWritten ==
    ASSUME DeletionInv, ListingInv, NEW r \in Runs, NEW id,
           \/ \E c \in Recorders : WriteHistory(r, c) /\ id = owner[r][c]
           \/ \E p \in SignIns : CarryRun(p, r) /\ id = into[p]
    PROVE  /\ id \in Accounts /\ Terminal(r) /\ RecordHistory(r, id)
           /\ UNCHANGED <<endedAt, accountOf, runOf>>
           /\ HistoryIsShort'
           /\ Exists(id) /\ history[r] \in {Nobody, id} => Shown(r, id)'
           /\ \A q \in Runs, g \in Accounts : Shown(q, g) => Shown(q, g)'
<1>0. /\ Shape /\ endedAt \in [Runs -> Nat] /\ EndsInOrder /\ HistoryIsShort
      /\ RecordedRunsEnded /\ PreviousIsTheirs /\ SessionsAreLooked
    BY DEF DeletionInv, ListingInv, ListingShape
<1>1. /\ id \in Accounts /\ Terminal(r) /\ RecordHistory(r, id)
      /\ UNCHANGED <<endedAt, accountOf, runOf>>
    <2>1. ASSUME NEW c \in Recorders, WriteHistory(r, c), id = owner[r][c]
          PROVE  /\ id \in Accounts /\ Terminal(r) /\ RecordHistory(r, id)
                 /\ UNCHANGED <<endedAt, accountOf, runOf>>
        <3>1. worker[r][c] = "write" /\ RecordHistory(r, id) /\ UNCHANGED <<endedAt, accountOf, runOf>>
            BY <2>1 DEF WriteHistory, running
        <3>2. id # Nobody /\ id \in Accounts \cup {Nobody}
            BY <1>0, <2>1, <3>1 DEF RecordedRunsEnded, Shape
        <3>3. Terminal(r)
            BY <1>0, <3>1 DEF RecordedRunsEnded, Recorders, WorkerLabels
        <3> QED
            BY <3>1, <3>2, <3>3
    <2>2. ASSUME NEW p \in SignIns, CarryRun(p, r), id = into[p]
          PROVE  /\ id \in Accounts /\ Terminal(r) /\ RecordHistory(r, id)
                 /\ UNCHANGED <<endedAt, accountOf, runOf>>
        <3>1. /\ at[p] = "carry" /\ r \in todo[p] /\ RecordHistory(r, id)
              /\ UNCHANGED <<endedAt, accountOf, runOf>>
            BY <2>2 DEF CarryRun, running
        <3>2. id # Nobody /\ id \in Accounts \cup {Nobody}
            BY <1>0, <2>2, <3>1 DEF SessionsAreLooked, Shape
        <3>3. Terminal(r)
            BY <1>0, <3>1 DEF PreviousIsTheirs, KnowsPrevious
        <3> QED
            BY <3>1, <3>2, <3>3
    <2> QED
        BY <2>1, <2>2
<1>2. \A q \in Runs : history[q] # Nobody => Terminal(q)
    BY <1>0 DEF RecordedRunsEnded
<1> QED
    BY <1>0, <1>1, <1>2, HistoryWriteShows

\* A history changes by these writes and by a deletion's transaction.
LEMMA HistoryChanges ==
    ASSUME [Next]_vars
    PROVE  \/ UNCHANGED history
           \/ \E r \in Runs, c \in Recorders : WriteHistory(r, c)
           \/ \E p \in SignIns, r \in Runs : CarryRun(p, r)
           \/ \E d \in Deletions : DeleteRows(d)
<1>1. CASE \E r \in Runs : RunStep(r)
    BY <1>1 DEF RunStep, AskForRun, CancelRun, StartRun, FinishRun, WriteMetrics, CheckMark,
        FindOwner, FollowLink, durable
<1>2. CASE \E p \in SignIns : SignInStep(p)
    BY <1>2 DEF SignInStep, StartSignIn, ReadPrevious, Rotate, CheckAnonymous, CheckGoing,
        Link, Collect, Confirm, ForgetAfterSignIn, durable
<1>3. CASE \E d \in Deletions : DeletionStep(d)
    BY <1>3 DEF DeletionStep, BeginDeletion, RevokeAccount, ForgetLinks, ForgetMetrics,
        EndDeletion, durable
<1>4. CASE UNCHANGED vars
    BY <1>4 DEF vars, durable
<1> QED
    BY <1>1, <1>2, <1>3, <1>4 DEF Next

\* An ended run keeps the moment it ended at.
LEMMA EndsStay ==
    ASSUME ListingInv, [Next]_vars
    PROVE  \A q \in Runs : Terminal(q) => endedAt'[q] = endedAt[q] /\ Terminal(q)'
<1>1. ASSUME NEW r \in Runs, RunStep(r)
      PROVE  \/ UNCHANGED endedAt
             \/ ~Terminal(r) /\ endedAt' = [endedAt EXCEPT ![r] = NextEnd]
    BY <1>1 DEF RunStep, AskForRun, CancelRun, StartRun, FinishRun, WriteMetrics, CheckMark,
        FindOwner, FollowLink, WriteHistory, running
<1>2. endedAt \in [Runs -> Nat]
    BY DEF ListingInv, ListingShape
<1> QED
    BY <1>1, <1>2, QuietForRuns DEF Terminal

\* Nothing takes a run out of the sight of an account that stays.
LEMMA ShownStays ==
    ASSUME DeletionInv, ListingInv, [Next]_vars
    PROVE  /\ HistoryIsShort'
           /\ \A q \in Runs, g \in Accounts :
                  Shown(q, g) /\ Terminal(q) /\ Exists(g)' => Shown(q, g)'
<1>0. Shape /\ GoneForGood /\ HistoryIsShort /\ RecordedRunsEnded /\ endedAt \in [Runs -> Nat]
    BY DEF DeletionInv, ListingInv, ListingShape
<1>1. ASSUME NEW g \in Accounts, NEW q \in Runs, \A x \in Runs : history'[x] = g <=> history[x] = g,
             Terminal(q)
      PROVE  Shown(q, g) => Shown(q, g)'
    <2>1. \A x \in Runs : history[x] = g => Terminal(x)
        BY <1>0, IdsAssumption DEF RecordedRunsEnded
    <2>2. \A x \in Runs : Terminal(x) => endedAt'[x] = endedAt[x]
        BY EndsStay
    <2>3. Newer(q, g)' = Newer(q, g)
        BY <1>1, <2>1, <2>2 DEF Newer
    <2> QED
        BY <1>1, <2>3 DEF Shown
<1>2. CASE UNCHANGED history
    <2>1. \A g \in Accounts : RowsUnder(g)' = RowsUnder(g)
        BY <1>2 DEF RowsUnder
    <2> QED
        BY <1>0, <1>1, <1>2, <2>1 DEF HistoryIsShort
<1>3. ASSUME NEW r \in Runs, NEW id,
             \/ \E c \in Recorders : WriteHistory(r, c) /\ id = owner[r][c]
             \/ \E p \in SignIns : CarryRun(p, r) /\ id = into[p]
      PROVE  /\ HistoryIsShort'
             /\ \A q \in Runs, g \in Accounts : Shown(q, g) => Shown(q, g)'
    BY <1>3, HistoryWritten
<1>4. ASSUME NEW d \in Deletions, DeleteRows(d), ~ UNCHANGED history
      PROVE  /\ HistoryIsShort'
             /\ \A q \in Runs, g \in Accounts :
                    Shown(q, g) /\ Terminal(q) /\ Exists(g)' => Shown(q, g)'
    <2>1. /\ history' = [r \in Runs |-> IF history[r] = victim[d] THEN Nobody ELSE history[r]]
          /\ accountOf' = [s \in Subjects |-> IF accountOf[s] = victim[d] THEN Nobody ELSE accountOf[s]]
        BY <1>4 DEF DeleteRows
    <2>2. \A g \in Accounts : g # Nobody
        BY IdsAssumption
    <2>3. \A g \in Accounts : Exists(g)' => \A x \in Runs : history'[x] = g <=> history[x] = g
        BY <2>1, <2>2 DEF Exists
    <2>4. ASSUME NEW g \in Accounts
          PROVE  IsFiniteSet(RowsUnder(g)') /\ Cardinality(RowsUnder(g)') <= KeepCount
        <3>1. RowsUnder(g)' \in SUBSET RowsUnder(g)
            BY <2>1, <2>2 DEF RowsUnder
        <3>2. IsFiniteSet(RowsUnder(g)) /\ Cardinality(RowsUnder(g)) <= KeepCount
            BY <1>0 DEF HistoryIsShort
        <3>3. IsFiniteSet(RowsUnder(g)') /\ Cardinality(RowsUnder(g)') <= Cardinality(RowsUnder(g))
            BY <3>1, <3>2, FS_Subset
        <3>4. Cardinality(RowsUnder(g)') \in Nat /\ Cardinality(RowsUnder(g)) \in Nat
            BY <3>2, <3>3, FS_CardinalityType
        <3> QED
            BY <3>2, <3>3, <3>4, KeepAssumption
    <2> QED
        BY <1>1, <2>3, <2>4 DEF HistoryIsShort
<1> QED
    BY <1>2, <1>3, <1>4, HistoryChanges

-----------------------------------------------------------------------------
(* A sign-in and the session it replaces.                                    *)

\* Only a sign-in's own steps change where it is.
LEMMA QuietForSignIns ==
    ASSUME [Next]_vars, ~ \E p \in SignIns : SignInStep(p)
    PROVE  UNCHANGED <<at, from, into, previous, todo, signedOut>>
<1>1. CASE \E r \in Runs : RunStep(r)
    BY <1>1 DEF RunStep, AskForRun, CancelRun, StartRun, FinishRun, WriteMetrics, CheckMark,
        FindOwner, FollowLink, WriteHistory, callbacks, registry
<1>2. CASE \E d \in Deletions : DeletionStep(d)
    BY <1>2 DEF DeletionStep, BeginDeletion, DeleteRows, RevokeAccount, ForgetLinks, ForgetMetrics,
        EndDeletion, callbacks, registry
<1>3. CASE UNCHANGED vars
    BY <1>3 DEF vars, callbacks, registry
<1> QED
    BY <1>1, <1>2, <1>3 DEF Next

\* The steps that change the sessions.
LEMMA QuietForSessions ==
    ASSUME [Next]_vars, ~ \E p \in SignIns : Rotate(p) \/ Confirm(p)
    PROVE  UNCHANGED sessions \/ \E d \in Deletions : RevokeAccount(d)
<1>1. CASE \E r \in Runs : RunStep(r)
    BY <1>1 DEF RunStep, AskForRun, CancelRun, StartRun, FinishRun, WriteMetrics, CheckMark,
        FindOwner, FollowLink, WriteHistory, registry
<1>2. CASE \E p \in SignIns : SignInStep(p)
    BY <1>2 DEF SignInStep, StartSignIn, ReadPrevious, CheckAnonymous, CheckGoing, Link, Collect,
        CarryRun, ForgetAfterSignIn, registry
<1>3. CASE \E d \in Deletions : DeletionStep(d)
    BY <1>3 DEF DeletionStep, BeginDeletion, DeleteRows, RevokeAccount, ForgetLinks, ForgetMetrics,
        EndDeletion, registry
<1>4. CASE UNCHANGED vars
    BY <1>4 DEF vars, registry
<1> QED
    BY <1>1, <1>2, <1>3, <1>4 DEF Next

\* ListingShape is kept.
LEMMA ListingShapeKept ==
    ASSUME DeletionInv, DeletionInv', ListingInv, [Next]_vars
    PROVE  ListingShape'
<1>0. Shape /\ ListingShape /\ endedAt' \in [Runs -> Nat]
    BY EndsInOrderKept DEF DeletionInv, ListingInv
<1>1. CallbackShape'
    <2>1. CASE ~ \E p \in SignIns : SignInStep(p)
        BY <1>0, <2>1, QuietForSignIns DEF ListingShape, CallbackShape
    <2>2. ASSUME NEW p \in SignIns, NEW s \in Sessions, NEW who \in Subjects, StartSignIn(p, s, who)
          PROVE  CallbackShape'
        BY <1>0, <2>2 DEF StartSignIn, ListingShape, CallbackShape, registry
    <2>3. ASSUME NEW p \in SignIns, ReadPrevious(p) PROVE CallbackShape'
        <3>1. \A s \in Sessions : Holder(s) \in Ids \cup {Nobody}
            BY <1>0 DEF Holder, Sessions, Ids, Shape
        <3>2. /\ UNCHANGED <<from, todo, signedOut>>
              /\ \E x \in Ids \cup {Nobody} : previous' = [previous EXCEPT ![p] = x]
            BY <1>0, <2>3, <3>1 DEF ReadPrevious, registry, Shape
        <3> QED
            BY <1>0, <3>2 DEF ListingShape, CallbackShape
    <2>4. ASSUME NEW p \in SignIns, Rotate(p) PROVE CallbackShape'
        <3>1. /\ UNCHANGED <<from, todo, previous>> /\ at[p] = "rotate"
              /\ signedOut' = signedOut \/ signedOut' = signedOut \cup {from[p]}
            BY <2>4 DEF Rotate
        <3>2. from[p] \in Sessions
            BY <1>0, <3>1 DEF ListingShape, CallbackShape, ListingInv, OneSignInPerSession, TakesItsSession
        <3> QED
            BY <1>0, <3>1, <3>2 DEF ListingShape, CallbackShape
    <2>5. ASSUME NEW p \in SignIns, CheckAnonymous(p) \/ CheckGoing(p) \/ Link(p) \/ ForgetAfterSignIn(p)
          PROVE CallbackShape'
        BY <1>0, <2>5 DEF CheckAnonymous, CheckGoing, Link, ForgetAfterSignIn, registry, ListingShape, CallbackShape
    <2>6. ASSUME NEW p \in SignIns, Collect(p) PROVE CallbackShape'
        BY <1>0, <2>6 DEF Collect, CarryOn, registry, ListingShape, CallbackShape
    <2>7. ASSUME NEW p \in SignIns, NEW r \in Runs, CarryRun(p, r) PROVE CallbackShape'
        BY <1>0, <2>7 DEF CarryRun, CarryOn, registry, ListingShape, CallbackShape
    <2>8. ASSUME NEW p \in SignIns, Confirm(p) PROVE CallbackShape'
        BY <1>0, <2>8 DEF Confirm, registry, ListingShape, CallbackShape, Sessions
    <2> QED
        BY <2>1, <2>2, <2>3, <2>4, <2>5, <2>6, <2>7, <2>8 DEF SignInStep
<1>2. deleting' \in [Accounts -> Int]
    <2>1. CASE ~ \E d \in Deletions : DeletionStep(d)
        <3>1. \A p \in SignIns, s \in Sessions, who \in Subjects :
                 StartSignIn(p, s, who) => UNCHANGED deleting
            BY DEF StartSignIn, registry
        <3> QED
            BY <1>0, <2>1, <3>1, QuietForAccounts DEF ListingShape
    <2>2. ASSUME NEW d \in Deletions, DeletionStep(d)
          PROVE  deleting' \in [Accounts -> Int]
        BY <1>0, <2>2 DEF DeletionStep, BeginDeletion, DeleteRows, RevokeAccount, ForgetLinks,
            ForgetMetrics, EndDeletion, registry, ListingShape
    <2> QED
        BY <2>1, <2>2
<1> QED
    BY <1>0, <1>1, <1>2 DEF ListingShape, CallbackShape

\* A sign-in's steps are about itself, and only its first one reads the browser's
\* session.
LEMMA SignInMoves ==
    ASSUME Shape, CallbackShape, NEW p \in SignIns, SignInStep(p)
    PROVE  /\ \A q \in SignIns \ {p} :
                 /\ at'[q] = at[q] /\ from'[q] = from[q] /\ into'[q] = into[q]
                 /\ previous'[q] = previous[q] /\ todo'[q] = todo[q]
           /\ \/ \E s \in Sessions, who \in Subjects : StartSignIn(p, s, who)
              \/ /\ at[p] # "idle" /\ at'[p] # "idle" /\ from'[p] = from[p]
                 /\ into'[p] = into[p] \/ ForgetAfterSignIn(p)
           /\ at[p] \in Rotated => at'[p] \in Rotated \/ ForgetAfterSignIn(p)
           /\ at'[p] \in Rotated => at[p] \in Rotated \/ Rotate(p)
           /\ at'[p] = "forget" => Confirm(p)
<1>1. ASSUME NEW s \in Sessions, NEW who \in Subjects, StartSignIn(p, s, who)
      PROVE  /\ \A q \in SignIns \ {p} :
                   /\ at'[q] = at[q] /\ from'[q] = from[q] /\ into'[q] = into[q]
                   /\ previous'[q] = previous[q] /\ todo'[q] = todo[q]
             /\ at[p] = "idle" /\ at'[p] = "previous"
    BY <1>1 DEF StartSignIn, Goto, Shape, CallbackShape
<1>2. CASE ReadPrevious(p)
    BY <1>2 DEF ReadPrevious, Goto, Shape, CallbackShape, Rotated
<1>3. CASE Rotate(p)
    BY <1>3 DEF Rotate, Goto, Shape, CallbackShape, Rotated
<1>4. CASE CheckAnonymous(p)
    BY <1>4 DEF CheckAnonymous, Goto, Shape, CallbackShape, Rotated
<1>5. CASE CheckGoing(p)
    BY <1>5 DEF CheckGoing, Goto, Shape, CallbackShape, Rotated
<1>6. CASE Link(p)
    BY <1>6 DEF Link, Goto, Shape, CallbackShape, Rotated
<1>7. CASE Collect(p)
    BY <1>7 DEF Collect, CarryOn, Goto, Shape, CallbackShape, Rotated
<1>8. ASSUME NEW r \in Runs, CarryRun(p, r)
      PROVE  /\ \A q \in SignIns \ {p} :
                   /\ at'[q] = at[q] /\ from'[q] = from[q] /\ into'[q] = into[q]
                   /\ previous'[q] = previous[q] /\ todo'[q] = todo[q]
             /\ from'[p] = from[p] /\ into'[p] = into[p]
             /\ at[p] = "carry" /\ at'[p] \in {"carry", "confirm"}
    BY <1>8 DEF CarryRun, CarryOn, Goto, Shape, CallbackShape
<1>9. CASE Confirm(p)
    BY <1>9 DEF Confirm, Goto, Shape, CallbackShape, Rotated
<1>10. CASE ForgetAfterSignIn(p)
    BY <1>10 DEF ForgetAfterSignIn, Goto, Shape, CallbackShape, Rotated
<1>11. CASE \E s \in Sessions, who \in Subjects : StartSignIn(p, s, who)
    BY <1>1, <1>11 DEF Rotated
<1>12. CASE \E r \in Runs : CarryRun(p, r)
    BY <1>8, <1>12 DEF Rotated
<1> QED
    BY <1>2, <1>3, <1>4, <1>5, <1>6, <1>7, <1>9, <1>10, <1>11, <1>12 DEF SignInStep

\* A session is issued once, by the rotation of one that nobody had replaced.
LEMMA IssuedOnce ==
    ASSUME DeletionInv, ListingInv, [Next]_vars
    PROVE  /\ signedOut \subseteq signedOut'
           /\ \A p \in SignIns : Issued(p) => Issued(p)' /\ from'[p] = from[p]
           /\ \A p \in SignIns : Issued(p)' /\ ~Issued(p) =>
                 /\ Rotate(p) /\ from[p] \notin signedOut /\ from[p] \in signedOut'
                 /\ from'[p] = from[p] /\ at'[p] \in Rotated
<1>0. Shape /\ CallbackShape /\ OneSignInPerSession
    BY DEF DeletionInv, ListingInv, ListingShape
<1>1. CASE ~ \E p \in SignIns : SignInStep(p)
    BY <1>0, <1>1, QuietForSignIns DEF Issued
<1>2. ASSUME NEW p \in SignIns, SignInStep(p)
      PROVE  /\ signedOut \subseteq signedOut'
             /\ \A q \in SignIns : Issued(q) => Issued(q)' /\ from'[q] = from[q]
             /\ \A q \in SignIns : Issued(q)' /\ ~Issued(q) =>
                   /\ Rotate(q) /\ from[q] \notin signedOut /\ from[q] \in signedOut'
                   /\ from'[q] = from[q] /\ at'[q] \in Rotated
    <2>1. \/ UNCHANGED signedOut
          \/ Rotate(p) /\ from[p] \notin signedOut /\ signedOut' = signedOut \cup {from[p]}
          \/ Confirm(p) /\ signedOut' = signedOut \cup {p}
        BY <1>2 DEF SignInStep, StartSignIn, ReadPrevious, Rotate, CheckAnonymous, CheckGoing, Link,
            Collect, CarryRun, Confirm, ForgetAfterSignIn, registry
    <2>2. signedOut \subseteq signedOut'
        BY <2>1
    <2>3. \A q \in SignIns : at[q] \in Rotated => at'[q] \in Rotated \/ q \in signedOut'
        <3>1. ForgetAfterSignIn(p) => p \in signedOut
            BY <1>0 DEF ForgetAfterSignIn, OneSignInPerSession, TakesItsSession
        <3> QED
            BY <1>0, <1>2, <2>2, <3>1, SignInMoves
    <2>4. \A q \in SignIns : Issued(q) => Issued(q)' /\ from'[q] = from[q]
        <3>1. \A q \in SignIns : Issued(q) => Issued(q)'
            BY <2>2, <2>3 DEF Issued
        <3>2. \A q \in SignIns : Issued(q) => at[q] # "idle"
            BY <1>0 DEF OneSignInPerSession, TakesItsSession, Rotated
        <3>3. \A s \in Sessions, who \in Subjects : StartSignIn(p, s, who) => at[p] = "idle"
            BY DEF StartSignIn
        <3> QED
            BY <1>0, <1>2, <3>1, <3>2, <3>3, SignInMoves
    <2>5. ASSUME NEW q \in SignIns, Issued(q)', ~Issued(q)
          PROVE  /\ Rotate(q) /\ from[q] \notin signedOut /\ from[q] \in signedOut'
                 /\ from'[q] = from[q] /\ at'[q] \in Rotated
        <3>1. q \notin signedOut /\ at[q] \notin Rotated
            BY <2>5 DEF Issued
        <3>2. q \notin signedOut'
            <4>1. from[p] = q => Issued(q)
                BY <1>0 DEF OneSignInPerSession, TakesItsSession
            <4>2. Confirm(p) => at[p] \in Rotated
                BY DEF Confirm, Rotated
            <4> QED
                BY <2>1, <2>5, <3>1, <4>1, <4>2
        <3>3. at'[q] \in Rotated
            BY <2>5, <3>2 DEF Issued
        <3>4. q = p /\ Rotate(p)
            BY <1>0, <1>2, <3>1, <3>3, SignInMoves
        <3>5. at'[p] # "failed"
            BY <3>3, <3>4 DEF Rotated
        <3>6. from[p] \notin signedOut /\ from[p] \in signedOut' /\ from' = from
            BY <1>0, <3>4, <3>5 DEF Rotate, Goto, Shape
        <3> QED
            BY <3>3, <3>4, <3>6
    <2> QED
        BY <2>2, <2>4, <2>5
<1> QED
    BY <1>1, <1>2

\* OneSignInPerSession is kept.
LEMMA OneSignInPerSessionKept ==
    ASSUME DeletionInv, DeletionInv', ListingInv, [Next]_vars
    PROVE  OneSignInPerSession'
<1>0. /\ Shape /\ CallbackShape /\ OneSignInPerSession /\ SessionsAreLooked /\ SessionsAreLooked'
      /\ drawn \subseteq drawn' /\ drawn \subseteq Accounts /\ signedOut \subseteq signedOut'
    BY AccountsOnlyGo, IssuedOnce DEF DeletionInv, ListingInv, ListingShape, Shape
<1>1. ASSUME NEW p \in SignIns
      PROVE  Issued(p)' => from'[p] \in signedOut' /\ at'[p] \in Rotated \cup {"failed"}
    <2>1. CASE Issued(p)
        <3>1. from'[p] \in signedOut'
            BY <1>0, <2>1, IssuedOnce DEF OneSignInPerSession, TakesItsSession
        <3>2. at[p] \in Rotated \cup {"failed"}
            BY <1>0, <2>1 DEF OneSignInPerSession, TakesItsSession
        <3>3. at'[p] \in Rotated \cup {"failed"}
            <4>1. CASE SignInStep(p)
                <5>1. ForgetAfterSignIn(p) => at'[p] = "failed"
                    BY <1>0 DEF ForgetAfterSignIn, Goto, Shape
                <5>2. at[p] # "failed"
                    BY <4>1 DEF SignInStep, StartSignIn, ReadPrevious, Rotate, CheckAnonymous,
                        CheckGoing, Link, Collect, CarryRun, Confirm, ForgetAfterSignIn
                <5>3. at'[p] \in Rotated \/ ForgetAfterSignIn(p)
                    BY <1>0, <3>2, <4>1, <5>2, SignInMoves
                <5> QED
                    BY <5>1, <5>3
            <4>2. ASSUME NEW q \in SignIns \ {p}, SignInStep(q) PROVE at'[p] = at[p]
                BY <1>0, <4>2, SignInMoves
            <4>3. CASE ~ \E q \in SignIns : SignInStep(q)
                BY <3>2, <4>3, QuietForSignIns
            <4> QED
                BY <3>2, <4>1, <4>2, <4>3
        <3> QED
            BY <3>1, <3>3
    <2>2. CASE ~Issued(p)
        BY <2>2, IssuedOnce
    <2> QED
        BY <2>1, <2>2
<1>2. ASSUME NEW p \in SignIns, SignInStep(p)
      PROVE  TakesItsSession(p)'
    <2>1. ASSUME NEW s \in Sessions, NEW who \in Subjects, StartSignIn(p, s, who)
          PROVE  /\ from'[p] = s /\ s \in sessions /\ at'[p] = "previous"
                 /\ into'[p] \in drawn'
        BY <1>0, <2>1 DEF StartSignIn, Goto, Shape, CallbackShape
    <2>2. \A s \in SignIns \cap sessions : Issued(s)'
        <3>1. \A s \in SignIns \cap sessions : Issued(s)
            BY <1>0 DEF SessionsAreLooked, Issued, Rotated
        <3> QED
            BY <3>1, IssuedOnce
    <2>3. \A s \in Sessions : s # Nobody
        BY IdsAssumption DEF Sessions
    <2>4. CASE \E s \in Sessions, who \in Subjects : StartSignIn(p, s, who)
        <3>1. (from[p] \in SignIns => Issued(from[p]))'
            BY <2>1, <2>2, <2>4 DEF Issued
        <3> QED
            BY <1>1, <2>1, <2>3, <2>4, <3>1 DEF TakesItsSession
    <2>5. CASE ~ \E s \in Sessions, who \in Subjects : StartSignIn(p, s, who)
        <3>1. /\ at[p] # "idle" /\ from'[p] = from[p]
              /\ into'[p] = into[p] \/ ForgetAfterSignIn(p)
              /\ at'[p] = "forget" => Confirm(p)
            BY <1>0, <1>2, <2>5, SignInMoves
        <3>2. ForgetAfterSignIn(p) => into'[p] = Nobody
            BY <1>0 DEF ForgetAfterSignIn, Shape
        <3>3. (from[p] \in SignIns => Issued(from[p]))'
            <4>1. from[p] \in SignIns => Issued(from[p])
                BY <1>0 DEF OneSignInPerSession, TakesItsSession
            <4> QED
                BY <3>1, <4>1, IssuedOnce DEF Issued
        <3>4. Confirm(p) /\ at'[p] = "forget" => p \in signedOut' /\ ~Exists(into[p])'
            <4> SUFFICES ASSUME Confirm(p), at'[p] = "forget"
                         PROVE  p \in signedOut' /\ ~Exists(into[p])'
                OBVIOUS
            <4>1. /\ UNCHANGED <<accountOf, into>>
                  /\ ~Exists(into[p]) /\ p \in signedOut'
                BY <1>0 DEF Confirm, Goto, Shape, durable
            <4> QED
                BY <4>1 DEF Exists
        <3> QED
            <4>1. at[p] # "idle" => from[p] # Nobody
                BY <1>0 DEF OneSignInPerSession, TakesItsSession
            <4>2. into[p] \in drawn \cup {Nobody}
                BY <1>0 DEF OneSignInPerSession, TakesItsSession
            <4> QED
                BY <1>0, <1>1, <3>1, <3>2, <3>3, <3>4, <4>1, <4>2 DEF TakesItsSession
    <2> QED
        BY <2>4, <2>5
<1>3. ASSUME NEW p \in SignIns, ~SignInStep(p)
      PROVE  TakesItsSession(p)'
    <2>1. at'[p] = at[p] /\ from'[p] = from[p] /\ into'[p] = into[p]
        <3>1. ASSUME NEW q \in SignIns \ {p}, SignInStep(q)
              PROVE  at'[p] = at[p] /\ from'[p] = from[p] /\ into'[p] = into[p]
            BY <1>0, <3>1, SignInMoves
        <3>2. CASE ~ \E q \in SignIns : SignInStep(q)
            BY <3>2, QuietForSignIns
        <3> QED
            BY <1>3, <3>1, <3>2
    <2>2. TakesItsSession(p)
        BY <1>0 DEF OneSignInPerSession
    <2>3. (from[p] \in SignIns => Issued(from[p]))'
        BY <2>1, <2>2, IssuedOnce DEF TakesItsSession, Issued
    <2>4. (at[p] = "forget" => p \in signedOut /\ ~Exists(into[p]))'
        <3>1. at[p] = "forget" => into[p] \in drawn /\ p \in signedOut /\ ~Exists(into[p])
            BY <1>0, <2>2 DEF TakesItsSession, SessionsAreLooked
        <3>2. at[p] = "forget" => ~Exists(into[p])'
            <4> SUFFICES ASSUME at[p] = "forget", Exists(into[p])' PROVE FALSE
                OBVIOUS
            <4>1. PICK g \in drawn : g = into[p]
                BY <3>1
            <4>2. Exists(g)'
                BY <2>1, <4>1 DEF Exists
            <4> QED
                BY <3>1, <4>1, <4>2, AccountsOnlyGo
        <3> QED
            BY <1>0, <2>1, <3>1, <3>2
    <2> QED
        BY <1>0, <1>1, <2>1, <2>2, <2>3, <2>4 DEF TakesItsSession
<1>4. ASSUME NEW p \in SignIns, NEW q \in SignIns, Issued(p)', Issued(q)', from'[p] = from'[q]
      PROVE  p = q
    <2>1. CASE Issued(p) /\ Issued(q)
        BY <1>0, <1>4, <2>1, IssuedOnce DEF OneSignInPerSession, TakesItsSession
    <2>2. CASE Issued(p) /\ ~Issued(q)
        BY <1>0, <1>4, <2>2, IssuedOnce DEF OneSignInPerSession, TakesItsSession
    <2>3. CASE ~Issued(p) /\ Issued(q)
        BY <1>0, <1>4, <2>3, IssuedOnce DEF OneSignInPerSession, TakesItsSession
    <2>4. CASE ~Issued(p) /\ ~Issued(q)
        <3>1. Rotate(p) /\ Rotate(q) /\ at'[q] \in Rotated
            BY <1>4, <2>4, IssuedOnce
        <3>2. at[q] = "rotate"
            BY <3>1 DEF Rotate
        <3>3. p # q => at'[q] = at[q]
            BY <1>0, <3>1, SignInMoves DEF SignInStep
        <3> QED
            BY <3>1, <3>2, <3>3 DEF Rotated
    <2> QED
        BY <2>1, <2>2, <2>3, <2>4
<1>5. ASSUME NEW a \in Anonymous PROVE a \in sessions' \/ a \in signedOut'
    <2>1. a \in sessions \/ a \in signedOut
        BY <1>0 DEF OneSignInPerSession, TakesItsSession
    <2>2. ASSUME NEW p \in SignIns, Rotate(p) PROVE a \in sessions => a \in sessions' \/ a \in signedOut'
        BY <2>2 DEF Rotate
    <2>3. ASSUME NEW p \in SignIns, Confirm(p) PROVE a \in sessions => a \in sessions'
        BY <2>3, IdsAssumption DEF Confirm
    <2>4. ASSUME NEW d \in Deletions, RevokeAccount(d) PROVE a \in sessions => a \in sessions'
        <3>1. Holder(a) # victim[d]
            BY <1>0, IdsAssumption DEF Holder, Shape
        <3> QED
            BY <2>4, <3>1 DEF RevokeAccount
    <2> QED
        BY <1>0, <2>1, <2>2, <2>3, <2>4, QuietForSessions
<1>6. \A p \in SignIns : TakesItsSession(p)'
    BY <1>2, <1>3
<1> QED
    BY <1>4, <1>5, <1>6 DEF OneSignInPerSession

\* An ended run keeps its account.
LEMMA AccountsOfRunsStay ==
    ASSUME DeletionInv, ListingInv, [Next]_vars
    PROVE  \A r \in Runs : /\ Terminal(r) => runOf'[r] = runOf[r]
                           /\ runOf[r] # Nobody => runOf'[r] \in {runOf[r], Nobody}
<1>0. Shape /\ RecordedRunsEnded
    BY DEF DeletionInv, ListingInv
<1>1. ASSUME NEW r \in Runs, RunStep(r)
      PROVE  \/ UNCHANGED runOf
             \/ runOf[r] = Nobody /\ \E id : id # Nobody /\ runOf' = [runOf EXCEPT ![r] = id]
             \/ ~Terminal(r) /\ runOf' = [runOf EXCEPT ![r] = Nobody]
    <2>1. ASSUME NEW s \in Sessions, AskForRun(r, s)
          PROVE  runOf[r] = Nobody /\ \E id : id # Nobody /\ runOf' = [runOf EXCEPT ![r] = id]
        <3>1. Holder(s) # Nobody
            BY <2>1, IdsAssumption DEF AskForRun, Holder, Sessions, DeletionInv, SessionsAreLooked
        <3> QED
            BY <2>1, <3>1 DEF AskForRun
    <2>2. ASSUME StartRun(r)
          PROVE  runOf' = runOf \/ (~Terminal(r) /\ runOf' = [runOf EXCEPT ![r] = Nobody])
        <3>1. worker[r]["pipeline"] = "asked" /\ worker[r]["cancel"] = "none"
            BY <2>2 DEF StartRun, DeletionInv, RunsHaveAccounts
        <3>2. ~Terminal(r)
            BY <1>0, <3>1 DEF RecordedRunsEnded
        <3> QED
            BY <2>2, <3>2 DEF StartRun
    <2> QED
        BY <1>1, <2>1, <2>2 DEF RunStep, CancelRun, FinishRun, WriteMetrics, CheckMark,
            FindOwner, FollowLink, WriteHistory, running
<1>2. \A r \in Runs : Terminal(r) => runOf[r] # Nobody
    BY <1>0 DEF RecordedRunsEnded, DeletionInv, RunsHaveAccounts, Recorders, WorkerLabels
<1> QED
    BY <1>0, <1>1, <1>2, QuietForRuns DEF Shape

\* PreviousIsTheirs is kept: the check for a deletion under way leaves a sign-in
\* that carries runs with the anonymous session of its own browser.
LEMMA PreviousIsTheirsKept ==
    ASSUME DeletionInv, DeletionInv', ListingInv, [Next]_vars
    PROVE  PreviousIsTheirs'
<1>0. /\ Shape /\ CallbackShape /\ OneSignInPerSession /\ SessionsAreLooked /\ PreviousIsTheirs
      /\ GoneIsGoing /\ drawn \subseteq drawn' /\ drawn \subseteq Accounts
      /\ signedOut \subseteq signedOut'
    BY AccountsOnlyGo, IssuedOnce DEF DeletionInv, ListingInv, ListingShape, Shape
\* What holds of a sign-in that makes no step.
<1>1. ASSUME NEW p \in SignIns, ~SignInStep(p)
      PROVE  KnowsPrevious(p)'
    <2>1. /\ at'[p] = at[p] /\ from'[p] = from[p] /\ previous'[p] = previous[p]
          /\ todo'[p] = todo[p]
        <3>1. ASSUME NEW q \in SignIns \ {p}, SignInStep(q)
              PROVE  /\ at'[p] = at[p] /\ from'[p] = from[p] /\ previous'[p] = previous[p]
                     /\ todo'[p] = todo[p]
            BY <1>0, <3>1, SignInMoves
        <3>2. CASE ~ \E q \in SignIns : SignInStep(q)
            BY <3>2, QuietForSignIns
        <3> QED
            BY <1>1, <3>1, <3>2
    <2>2. KnowsPrevious(p)
        BY <1>0 DEF PreviousIsTheirs
    <2>3. (at[p] = "going?" => ~Exists(previous[p]))'
        <3> SUFFICES ASSUME at[p] = "going?", Exists(previous[p])' PROVE FALSE
            BY <2>1
        <3>1. /\ previous[p] \in drawn \cup Anonymous
              /\ ~Exists(previous[p])
            BY <2>2 DEF KnowsPrevious
        <3>2. PICK g \in drawn \cup Anonymous : g = previous[p]
            BY <3>1
        <3>3. Exists(g)'
            BY <2>1, <3>2 DEF Exists
        <3>4. g \in Accounts
            <4>1. accountOf' \in [Subjects -> Accounts \cup {Nobody}] /\ g # Nobody
                BY <1>0, <3>2, IdsAssumption DEF DeletionInv, Shape
            <4> QED
                BY <3>3, <4>1 DEF Exists
        <3>5. g \in drawn
            BY <3>2, <3>4, IdsAssumption
        <3> QED
            BY <3>1, <3>2, <3>3, <3>5, AccountsOnlyGo
    <2>4. (at[p] = "carry" => \A r \in todo[p] : runOf[r] = previous[p] /\ Terminal(r))'
        <3>1. todo[p] \in SUBSET Runs
            BY <1>0 DEF CallbackShape
        <3>2. at[p] = "carry" => \A r \in todo[p] : runOf[r] = previous[p] /\ Terminal(r)
            BY <2>2 DEF KnowsPrevious
        <3>3. at[p] = "carry" => \A r \in todo[p] : runOf'[r] = previous[p] /\ Terminal(r)'
            BY <3>1, <3>2, AccountsOfRunsStay, EndsStay
        <3> QED
            BY <2>1, <3>3
    <2> QED
        BY <1>0, <2>1, <2>2, <2>3, <2>4 DEF KnowsPrevious
<1>2. ASSUME NEW p \in SignIns, SignInStep(p)
      PROVE  KnowsPrevious(p)'
    <2>0. /\ KnowsPrevious(p) /\ TakesItsSession(p)
          /\ UNCHANGED <<runOf, endedAt>> /\ todo[p] \in SUBSET Runs
        <3>1. UNCHANGED <<runOf, endedAt>>
            BY <1>2 DEF SignInStep, StartSignIn, ReadPrevious, Rotate, CheckAnonymous, CheckGoing,
                Link, Collect, CarryRun, Confirm, ForgetAfterSignIn, running
        <3> QED
            BY <1>0, <3>1 DEF PreviousIsTheirs, OneSignInPerSession, CallbackShape
    <2>1. ASSUME NEW s \in Sessions, NEW who \in Subjects, StartSignIn(p, s, who)
          PROVE  KnowsPrevious(p)'
        <3>1. /\ at[p] = "idle" /\ at'[p] = "previous" /\ previous'[p] = previous[p]
            BY <1>0, <2>1 DEF StartSignIn, Goto, Shape, CallbackShape
        <3> QED
            BY <1>0, <2>0, <3>1, IdsAssumption DEF KnowsPrevious
    <2>2. CASE ReadPrevious(p)
        <3>1. PICK a \in Sessions \cup {Nobody} : a = from[p]
            BY <1>0 DEF CallbackShape
        <3>2. /\ at'[p] = "rotate" /\ from'[p] = a /\ UNCHANGED <<drawn, signedOut>>
              /\ previous'[p] = IF a \in sessions THEN Holder(a) ELSE Nobody
            BY <1>0, <2>2, <3>1 DEF ReadPrevious, Goto, Shape, CallbackShape, durable, registry
        <3>3. a \in Anonymous => Holder(a) = a /\ (a \in sessions \/ a \in signedOut)
            BY <1>0 DEF Holder, OneSignInPerSession
        <3>4. a \in SignIns => Holder(a) \in drawn \cup {Nobody}
            BY <1>0, IdsAssumption DEF Holder, OneSignInPerSession, TakesItsSession
        <3>5. previous'[p] \in drawn' \cup Anonymous \cup {Nobody}
            BY <1>0, <3>2, <3>3, <3>4 DEF Sessions, Shape
        <3>6. previous'[p] \in Anonymous => previous'[p] = from'[p]
            BY <1>0, <3>2, <3>3, <3>4, IdsAssumption DEF Sessions, Shape
        <3>7. from'[p] \in Anonymous \ signedOut' => previous'[p] = from'[p]
            BY <3>2, <3>3
        <3> QED
            BY <3>2, <3>5, <3>6, <3>7 DEF KnowsPrevious
    <2>3. CASE Rotate(p)
        <3>1. /\ at[p] = "rotate" /\ UNCHANGED <<from, previous, drawn>>
              /\ \/ at'[p] = "failed" \/ at'[p] = "confirm"
                 \/ at'[p] = "anonymous?" /\ previous[p] # Nobody /\ from[p] \notin signedOut
            BY <1>0, <2>3 DEF Rotate, Goto, Shape, durable
        <3> QED
            BY <2>0, <3>1 DEF KnowsPrevious
    <2>4. CASE CheckAnonymous(p)
        <3>1. /\ at[p] = "anonymous?" /\ UNCHANGED <<from, previous, drawn, accountOf, signedOut>>
              /\ at'[p] = "confirm" \/ (at'[p] = "going?" /\ ~Exists(previous[p]))
            BY <1>0, <2>4 DEF CheckAnonymous, Goto, Shape, durable, registry
        <3>2. at'[p] = "going?" => ~Exists(previous[p])'
            BY <3>1 DEF Exists
        <3> QED
            BY <2>0, <3>1, <3>2 DEF KnowsPrevious
    <2>5. CASE CheckGoing(p)
        <3>1. /\ at[p] = "going?" /\ UNCHANGED <<from, previous, drawn, accountOf, signedOut>>
              /\ at'[p] = "confirm" \/ (at'[p] = "link" /\ ~IsGoing(previous[p]))
            BY <1>0, <2>5 DEF CheckGoing, Goto, Shape, durable, registry
        <3>2. at'[p] = "link" => previous[p] \in Anonymous
            <4> SUFFICES ASSUME ~IsGoing(previous[p]), previous[p] \in drawn PROVE FALSE
                BY <2>0, <3>1 DEF KnowsPrevious
            <4>1. PICK g \in drawn : g = previous[p]
                OBVIOUS
            <4>2. ~Exists(g) /\ g \in Accounts
                BY <1>0, <2>0, <3>1, <4>1 DEF KnowsPrevious
            <4>3. g \notin deleted /\ ~(deleting[g] > 0)
                BY <4>1, <4>2 DEF IsGoing
            <4>4. PICK d \in Deletions : victim[d] = g /\ dpc[d] = "revoke"
                BY <1>0, <4>2, <4>3 DEF GoneIsGoing
            <4>5. d \in UnderWay(g)
                BY <4>4 DEF UnderWay
            <4>6. IsFiniteSet(UnderWay(g)) /\ deleting[g] = Cardinality(UnderWay(g))
                BY <1>0, <4>2 DEF GoneIsGoing
            <4>7. Cardinality(UnderWay(g)) \in Nat /\ Cardinality(UnderWay(g)) # 0
                BY <4>5, <4>6, FS_CardinalityType, FS_EmptySet
            <4> QED
                BY <4>3, <4>6, <4>7
        <3> QED
            BY <2>0, <3>1, <3>2 DEF KnowsPrevious
    <2>6. CASE Link(p)
        <3>1. /\ at[p] = "link" /\ UNCHANGED <<from, previous, drawn, signedOut>> /\ at'[p] = "collect"
            BY <1>0, <2>6 DEF Link, Goto, Shape, durable
        <3> QED
            BY <2>0, <3>1 DEF KnowsPrevious
    <2>7. CASE Collect(p)
        <3>1. /\ at[p] = "collect" /\ UNCHANGED <<from, previous, drawn, signedOut>>
              /\ at'[p] \in {"carry", "confirm"}
              /\ todo'[p] = { r \in Runs : runOf[r] = previous[p] /\ Terminal(r) }
            BY <1>0, <2>7 DEF Collect, CarryOn, Goto, Shape, CallbackShape, durable, registry
        <3>2. (\A r \in todo[p] : runOf[r] = previous[p] /\ Terminal(r))'
            BY <2>0, <3>1 DEF Terminal
        <3> QED
            BY <2>0, <3>1, <3>2 DEF KnowsPrevious
    <2>8. ASSUME NEW r \in Runs, CarryRun(p, r)
          PROVE  KnowsPrevious(p)'
        <3>1. /\ at[p] = "carry" /\ UNCHANGED <<from, previous, drawn, signedOut>>
              /\ at'[p] \in {"carry", "confirm"} /\ todo'[p] = todo[p] \ {r}
            BY <1>0, <2>8 DEF CarryRun, CarryOn, Goto, Shape, CallbackShape, registry
        <3>2. (\A q \in todo[p] : runOf[q] = previous[p] /\ Terminal(q))'
            BY <2>0, <3>1 DEF Terminal, KnowsPrevious
        <3> QED
            BY <2>0, <3>1, <3>2 DEF KnowsPrevious
    <2>9. CASE Confirm(p)
        <3>1. at'[p] \in {"done", "forget"} /\ previous'[p] = Nobody
            BY <1>0, <2>9 DEF Confirm, Goto, Shape, CallbackShape
        <3> QED
            BY <3>1, IdsAssumption DEF KnowsPrevious
    <2>10. CASE ForgetAfterSignIn(p)
        <3>1. at'[p] = "failed" /\ UNCHANGED <<from, previous, drawn>>
            BY <1>0, <2>10 DEF ForgetAfterSignIn, Goto, Shape, durable
        <3> QED
            BY <2>0, <3>1 DEF KnowsPrevious
    <2> QED
        BY <1>2, <2>1, <2>2, <2>3, <2>4, <2>5, <2>6, <2>7, <2>8, <2>9, <2>10 DEF SignInStep
<1> QED
    BY <1>1, <1>2 DEF PreviousIsTheirs

-----------------------------------------------------------------------------
(* A run is listed with its own person.                                      *)

\* What an anonymous session became stays what it became.
LEMMA BecameStays ==
    ASSUME DeletionInv, ListingInv, [Next]_vars, NEW a, NEW g, g # Nobody, Became(a, g)
    PROVE  Became(a, g)'
<1>0. /\ Shape /\ CallbackShape /\ OneSignInPerSession /\ SessionsAreLooked
      /\ drawn \subseteq drawn' /\ drawn \subseteq Accounts
    BY AccountsOnlyGo DEF DeletionInv, ListingInv, ListingShape, Shape
<1>1. PICK p \in SignIns :
         /\ from[p] = a /\ Issued(p)
         /\ into[p] = g \/ (into[p] = Nobody /\ g \in drawn /\ ~Exists(g))
    BY DEF Became
<1>2. a \in Anonymous /\ from'[p] = a /\ Issued(p)' /\ TakesItsSession(p)
    BY <1>0, <1>1, IssuedOnce DEF Became, OneSignInPerSession
<1>3. ~Exists(g) /\ g \in drawn => ~Exists(g)' /\ g \in drawn'
    BY AccountsOnlyGo
<1>4. CASE ForgetAfterSignIn(p)
    <2>1. at[p] = "forget" /\ into'[p] = Nobody
        BY <1>0, <1>4 DEF ForgetAfterSignIn, Shape
    <2>2. ~Exists(g) /\ g \in drawn
        BY <1>0, <1>1, <1>2, <2>1 DEF TakesItsSession, SessionsAreLooked
    <2> QED
        BY <1>2, <1>3, <2>1, <2>2 DEF Became
<1>5. CASE ~ForgetAfterSignIn(p)
    <2>1. into'[p] = into[p]
        <3>1. CASE SignInStep(p)
            <4>1. \A s \in Sessions, who \in Subjects : ~StartSignIn(p, s, who)
                BY <1>1, <1>2 DEF StartSignIn, TakesItsSession, Rotated
            <4> QED
                BY <1>0, <1>5, <3>1, <4>1, SignInMoves
        <3>2. ASSUME NEW q \in SignIns \ {p}, SignInStep(q) PROVE into'[p] = into[p]
            BY <1>0, <3>2, SignInMoves
        <3>3. CASE ~ \E q \in SignIns : SignInStep(q)
            BY <3>3, QuietForSignIns
        <3> QED
            BY <3>1, <3>2, <3>3
    <2> QED
        BY <1>1, <1>2, <1>3, <2>1 DEF Became
<1> QED
    BY <1>4, <1>5

\* A link leads from the anonymous session of a sign-in to its account.
LEMMA LinksAreTheirs ==
    ASSUME DeletionInv, ListingInv, [Next]_vars, NEW a \in Ids
    PROVE  \/ carried'[a] \in {carried[a], Nobody}
           \/ \E p \in SignIns : /\ Link(p) /\ a = previous[p] /\ carried'[a] = into[p]
                                 /\ a = from[p] /\ a \in Anonymous /\ Issued(p)
<1>0. Shape /\ PreviousIsTheirs
    BY DEF DeletionInv, ListingInv
<1>1. ASSUME NEW p \in SignIns, Link(p)
      PROVE  \/ carried'[a] \in {carried[a], Nobody}
             \/ /\ a = previous[p] /\ carried'[a] = into[p]
                /\ a = from[p] /\ a \in Anonymous /\ Issued(p)
    <2>1. /\ carried' = [carried EXCEPT ![previous[p]] = into[p]]
          /\ previous[p] \in Anonymous /\ previous[p] = from[p] /\ Issued(p)
        BY <1>0, <1>1 DEF Link, PreviousIsTheirs, KnowsPrevious, Issued, Rotated
    <2> QED
        BY <1>0, <2>1 DEF Shape
<1>2. CASE UNCHANGED carried
    BY <1>2
<1>3. \A id : carried' = Unlinked(id) => carried'[a] \in {carried[a], Nobody}
    BY DEF Unlinked
<1>4. CASE \E r \in Runs : RunStep(r)
    BY <1>2, <1>4 DEF RunStep, AskForRun, CancelRun, StartRun, FinishRun, WriteMetrics, CheckMark,
        FindOwner, FollowLink, WriteHistory, registry
<1>5. ASSUME NEW p \in SignIns, SignInStep(p), ~Link(p)
      PROVE  carried'[a] \in {carried[a], Nobody}
    <2>1. UNCHANGED carried \/ ForgetAfterSignIn(p)
        BY <1>5 DEF SignInStep, StartSignIn, ReadPrevious, Rotate, CheckAnonymous, CheckGoing,
            Collect, CarryRun, Confirm, registry
    <2> QED
        BY <1>2, <1>3, <2>1 DEF ForgetAfterSignIn
<1>6. ASSUME NEW d \in Deletions, DeletionStep(d)
      PROVE  carried'[a] \in {carried[a], Nobody}
    <2>1. UNCHANGED carried \/ ForgetLinks(d)
        BY <1>6 DEF DeletionStep, BeginDeletion, DeleteRows, RevokeAccount, ForgetMetrics,
            EndDeletion, registry
    <2> QED
        BY <1>2, <1>3, <2>1 DEF ForgetLinks
<1>7. CASE UNCHANGED vars
    BY <1>2, <1>7 DEF vars, registry
<1> QED
    BY <1>1, <1>4, <1>5, <1>6, <1>7 DEF Next

\* ListedWithTheirs is kept.
LEMMA ListedWithTheirsKept ==
    ASSUME DeletionInv, DeletionInv', ListingInv, [Next]_vars
    PROVE  ListedWithTheirs'
<1>0. /\ Shape /\ Shape' /\ CallbackShape /\ OneSignInPerSession /\ PreviousIsTheirs
      /\ ListedWithTheirs /\ RecordedRunsEnded /\ RunsHaveAccounts
    BY DEF DeletionInv, ListingInv, ListingShape
\* A sign-in that got past the rotation is what its anonymous session became.
<1>1. \A p \in SignIns : from[p] \in Anonymous /\ Issued(p) => Became(from[p], into[p])
    BY DEF Became
<1>2. \A a, g : g # Nobody /\ Became(a, g) => Became(a, g)'
    BY BecameStays
<1>3. ASSUME NEW a \in Ids, carried'[a] # Nobody
      PROVE  Became(a, carried[a])'
    <2>1. PICK g : g = carried'[a]
        OBVIOUS
    <2>2. Became(a, g)
        <3>1. CASE carried'[a] = carried[a]
            BY <1>0, <1>3, <2>1, <3>1 DEF ListedWithTheirs
        <3>2. CASE carried'[a] # carried[a]
            <4>1. PICK p \in SignIns : /\ carried'[a] = into[p]
                                       /\ a = from[p] /\ a \in Anonymous /\ Issued(p)
                BY <1>3, <3>2, LinksAreTheirs
            <4> QED
                BY <1>1, <2>1, <4>1
        <3> QED
            BY <3>1, <3>2
    <2>3. Became(a, g)'
        BY <1>2, <1>3, <2>1, <2>2
    <2> QED
        BY <2>1, <2>3 DEF Became
\* An owner that was found.
<1>4. ASSUME NEW r \in Runs, NEW c \in Recorders, owner[r][c] \notin {Nobody, runOf[r]}
      PROVE  Became(runOf[r], owner[r][c])
    BY <1>0, <1>4 DEF ListedWithTheirs
<1>5. ASSUME NEW r \in Runs, history'[r] \notin {Nobody, runOf'[r]}
      PROVE  Became(runOf[r], history[r])'
    <2>1. PICK g : g = history'[r]
        OBVIOUS
    <2>2. CASE history'[r] = history[r]
        <3>1. Terminal(r)
            BY <1>0, <1>5, <2>2 DEF RecordedRunsEnded
        <3>2. runOf'[r] = runOf[r]
            BY <3>1, AccountsOfRunsStay
        <3>3. Became(runOf[r], g)
            BY <1>0, <1>5, <2>1, <2>2, <3>2 DEF ListedWithTheirs
        <3>4. PICK a : a = runOf[r]
            OBVIOUS
        <3>5. Became(a, g)'
            BY <1>2, <1>5, <2>1, <3>3, <3>4
        <3> QED
            BY <2>1, <3>2, <3>4, <3>5 DEF Became
    <2>3. ASSUME NEW c \in Recorders, WriteHistory(r, c), g = owner[r][c]
          PROVE  Became(runOf[r], history[r])'
        <3>1. UNCHANGED runOf
            BY <2>3 DEF WriteHistory, running
        <3>2. PICK a : a = runOf[r]
            OBVIOUS
        <3>3. Became(a, g)
            BY <1>4, <1>5, <2>1, <2>3, <3>1, <3>2
        <3>4. Became(a, g)'
            BY <1>2, <1>5, <2>1, <3>3
        <3> QED
            BY <2>1, <3>1, <3>2, <3>4 DEF Became
    <2>4. ASSUME NEW p \in SignIns, CarryRun(p, r), g = into[p]
          PROVE  Became(runOf[r], history[r])'
        <3>1. /\ UNCHANGED runOf /\ at[p] = "carry" /\ r \in todo[p]
            BY <2>4 DEF CarryRun, running
        <3>2. /\ runOf[r] = from[p] /\ from[p] \in Anonymous /\ Issued(p)
            BY <1>0, <3>1 DEF PreviousIsTheirs, KnowsPrevious, Issued, Rotated
        <3>3. PICK a : a = runOf[r]
            OBVIOUS
        <3>4. Became(a, g)'
            BY <1>1, <1>2, <1>5, <2>1, <2>4, <3>2, <3>3
        <3> QED
            BY <2>1, <3>1, <3>3, <3>4 DEF Became
    <2> QED
        BY <1>5, <2>1, <2>2, <2>3, <2>4, WhoListsARun
<1>6. ASSUME NEW r \in Runs, NEW c \in Recorders, owner'[r][c] \notin {Nobody, runOf'[r]}
      PROVE  Became(runOf[r], owner[r][c])'
    <2>1. PICK g : g = owner'[r][c]
        OBVIOUS
    <2>2. PICK a : a = runOf[r]
        OBVIOUS
    <2>3. CASE owner'[r][c] = owner[r][c]
        <3>1. Terminal(r)
            BY <1>0, <1>6, <2>3 DEF RecordedRunsEnded, Recorders, WorkerLabels
        <3>2. runOf'[r] = runOf[r]
            BY <3>1, AccountsOfRunsStay
        <3>3. Became(a, g)
            BY <1>4, <1>6, <2>1, <2>2, <2>3, <3>2
        <3>4. Became(a, g)'
            BY <1>2, <1>6, <2>1, <3>3
        <3> QED
            BY <2>1, <2>2, <3>2, <3>4 DEF Became
    <2>4. ASSUME FollowLink(r, c), carried[a] # Nobody, g = carried[a]
          PROVE  Became(runOf[r], owner[r][c])'
        <3>1. UNCHANGED runOf /\ worker[r][c] = "link"
            BY <2>4 DEF FollowLink, running
        <3>2. a \in Ids
            BY <1>0, <2>2, <3>1 DEF Shape, RunsHaveAccounts, Recorders
        <3>3. Became(a, g)
            BY <1>0, <2>4, <3>2 DEF ListedWithTheirs
        <3>4. Became(a, g)'
            BY <1>2, <2>4, <3>3
        <3> QED
            BY <2>1, <2>2, <3>1, <3>4 DEF Became
    <2>5. CASE owner'[r][c] # owner[r][c]
        <3>1. PICK q \in Runs : RunStep(q)
            BY <2>5, QuietForRuns
        <3>2. PICK x \in Recorders : FindOwner(q, x) \/ FollowLink(q, x) \/ WriteHistory(q, x)
            BY <2>5, <3>1 DEF RunStep, AskForRun, CancelRun, StartRun, FinishRun, WriteMetrics, CheckMark
        <3>3. CASE FindOwner(q, x)
            <4>1. owner \in [Runs -> [Recorders -> Accounts \cup {Nobody}]] /\ UNCHANGED runOf
                BY <1>0, <3>3 DEF FindOwner, running, Shape
            <4>2. owner' = [owner EXCEPT ![q][x] = runOf[q]]
                BY <2>5, <3>3 DEF FindOwner
            <4>3. owner'[r][c] = runOf'[r]
                BY <2>5, <4>1, <4>2
            <4> QED
                BY <1>6, <4>3
        <3>4. CASE WriteHistory(q, x)
            BY <1>0, <1>6, <2>5, <3>4 DEF WriteHistory, running, Shape
        <3>5. CASE FollowLink(q, x)
            <4>1. q = r /\ x = c /\ carried[a] # Nobody /\ g = carried[a]
                BY <1>0, <1>6, <2>1, <2>2, <2>5, <3>5 DEF FollowLink, running, Shape
            <4> QED
                BY <2>4, <3>5, <4>1
        <3> QED
            BY <3>2, <3>3, <3>4, <3>5
    <2> QED
        BY <2>3, <2>5
<1> QED
    BY <1>3, <1>5, <1>6 DEF ListedWithTheirs

-----------------------------------------------------------------------------
(* A run is listed.                                                          *)

\* Where a step may take the recorders of a run.
Moves(r) ==
    /\ \A c \in Recorders : worker'[r][c] # worker[r][c] =>
          /\ worker'[r][c] = "link" => FindOwner(r, c) /\ ~Exists(runOf[r])
          /\ worker'[r][c] = "done" =>
                WriteHistory(r, c) \/ (FollowLink(r, c) /\ carried[runOf[r]] = Nobody)
          /\ worker[r][c] \in AtWork => worker'[r][c] \in AtWork \cup {"done"}
    /\ Terminal(r)' /\ ~Terminal(r) =>
          runOf'[r] = runOf[r] /\ \E c \in Recorders : worker'[r][c] \in AtWork
    /\ runOf[r] = Nobody /\ runOf'[r] # Nobody =>
          \A c \in Recorders : worker'[r][c] \in {"none", "asked"}

LEMMA RecorderMoves ==
    ASSUME DeletionInv, ListingInv, [Next]_vars, NEW r \in Runs
    PROVE  Moves(r)
<1>0. Shape /\ RunsHaveAccounts /\ RecordedRunsEnded /\ endedAt \in [Runs -> Nat]
    BY DEF DeletionInv, ListingInv, ListingShape
<1>1. CASE ~ \E q \in Runs : RunStep(q)
    BY <1>1, QuietForRuns DEF Moves, Terminal
<1>2. ASSUME NEW q \in Runs, NEW s \in Sessions, AskForRun(q, s)
      PROVE  Moves(r)
    <2>1. /\ Step(q, "pipeline", "asked") /\ worker[q]["pipeline"] = "none"
          /\ worker[q]["cancel"] = "none" /\ UNCHANGED endedAt
          /\ runOf' = [runOf EXCEPT ![q] = Holder(s)]
        BY <1>0, <1>2 DEF AskForRun, RunsHaveAccounts
    <2>2. \A x \in Runs, c \in Recorders :
             worker'[x][c] = IF x = q /\ c = "pipeline" THEN "asked" ELSE worker[x][c]
        BY <1>0, <2>1, StepMoves DEF Recorders
    <2>3. r # q => runOf'[r] = runOf[r]
        BY <1>0, <2>1 DEF Shape
    <2> QED
        BY <2>1, <2>2, <2>3 DEF Moves, Terminal, AtWork, Recorders
<1>3. ASSUME NEW q \in Runs, StartRun(q)
      PROVE  Moves(r)
    <2>1. /\ worker[q]["pipeline"] = "asked" /\ UNCHANGED endedAt
          /\ \E to \in {"none", "running"} : Step(q, "pipeline", to)
          /\ runOf' = runOf \/ runOf' = [runOf EXCEPT ![q] = Nobody]
        BY <1>3 DEF StartRun
    <2>2. \A x \in Runs, c \in Recorders :
             \/ worker'[x][c] = worker[x][c]
             \/ worker[x][c] = "asked" /\ worker'[x][c] \in {"none", "running"}
        BY <1>0, <2>1, StepMoves DEF Recorders
    <2>3. runOf[r] = Nobody => runOf'[r] = Nobody
        BY <1>0, <2>1 DEF Shape
    <2> QED
        BY <2>1, <2>2, <2>3 DEF Moves, Terminal, AtWork
<1>4. ASSUME NEW q \in Runs, NEW c0 \in Recorders, NEW to \in {"metrics", "mark", "owner"},
             Step(q, c0, to), UNCHANGED runOf, \A x \in Runs \ {q} : endedAt'[x] = endedAt[x]
      PROVE  Moves(r)
    <2>1. \A x \in Runs, c \in Recorders :
             worker'[x][c] = IF x = q /\ c = c0 THEN to ELSE worker[x][c]
        BY <1>0, <1>4, StepMoves
    <2>2. \A c \in Recorders : worker'[r][c] # worker[r][c] => worker'[r][c] \in {"metrics", "mark", "owner"}
        BY <2>1
    <2>3. Terminal(r)' /\ ~Terminal(r) => \E c \in Recorders : worker'[r][c] \in AtWork
        BY <1>4, <2>1 DEF Terminal, AtWork
    <2> QED
        BY <1>4, <2>2, <2>3 DEF Moves, AtWork
<1>5. ASSUME NEW q \in Runs,
             \/ FinishRun(q) \/ WriteMetrics(q) \/ CheckMark(q)
             \/ \E s \in Sessions : CancelRun(q, s)
      PROVE  Moves(r)
    <2>1. \A x \in Runs \ {q} : endedAt'[x] = endedAt[x]
        BY <1>0, <1>5 DEF FinishRun, WriteMetrics, CheckMark, CancelRun, running
    <2>2. UNCHANGED runOf
        BY <1>5 DEF FinishRun, WriteMetrics, CheckMark, CancelRun, running
    <2>3. \E c0 \in Recorders, to \in {"metrics", "mark", "owner"} : Step(q, c0, to)
        BY <1>5 DEF FinishRun, WriteMetrics, CheckMark, CancelRun, Recorders
    <2> QED
        BY <1>4, <2>1, <2>2, <2>3
<1>6. ASSUME NEW q \in Runs, NEW c0 \in Recorders,
             FindOwner(q, c0) \/ FollowLink(q, c0) \/ WriteHistory(q, c0)
      PROVE  Moves(r)
    <2>1. UNCHANGED <<runOf, endedAt>>
        BY <1>6 DEF FindOwner, FollowLink, WriteHistory, running
    <2>2. PICK to \in {"link", "write", "done"} :
             /\ Step(q, c0, to)
             /\ to = "link" => FindOwner(q, c0) /\ ~Exists(runOf[q])
             /\ to = "done" => WriteHistory(q, c0) \/ (FollowLink(q, c0) /\ carried[runOf[q]] = Nobody)
        BY <1>6 DEF FindOwner, FollowLink, WriteHistory
    <2>3. \A x \in Runs, c \in Recorders :
             worker'[x][c] = IF x = q /\ c = c0 THEN to ELSE worker[x][c]
        BY <1>0, <2>2, StepMoves
    <2> QED
        BY <2>1, <2>2, <2>3 DEF Moves, Terminal, AtWork
<1> QED
    BY <1>1, <1>2, <1>3, <1>5, <1>6 DEF RunStep

\* An anonymous session became one account.
LEMMA BecameOne ==
    ASSUME OneSignInPerSession, NEW p \in SignIns, Issued(p), into[p] \in Accounts,
           NEW h, Became(from[p], h)
    PROVE  h = into[p]
<1>1. PICK q \in SignIns : /\ from[q] = from[p] /\ Issued(q)
                           /\ into[q] = h \/ into[q] = Nobody
    BY DEF Became
<1>2. q = p
    BY <1>1 DEF OneSignInPerSession
<1> QED
    BY <1>1, <1>2, IdsAssumption

\* A recorder that writes the run of an account that exists, or of a session that
\* became one, leaves it shown there.
LEMMA WrittenIsShown ==
    ASSUME DeletionInv, ListingInv, NEW r \in Runs, NEW g \in Accounts, Exists(g),
           \/ runOf[r] = g
           \/ \E p \in SignIns : Issued(p) /\ from[p] = runOf[r] /\ into[p] = g /\ runOf[r] \in Anonymous,
           \/ \E c \in Recorders : WriteHistory(r, c)
           \/ \E p \in SignIns : CarryRun(p, r) /\ into[p] = g
    PROVE  Shown(r, g)'
<1>0. Shape /\ OneSignInPerSession /\ ListedWithTheirs
    BY DEF DeletionInv, ListingInv
\* The run is listed under g or not at all.
<1>1. ASSUME NEW h \in Accounts, h # runOf[r] => Became(runOf[r], h)
      PROVE  h = g
    <2>1. CASE runOf[r] = g
        <3>1. ~Became(runOf[r], h)
            BY <2>1, IdsAssumption DEF Became
        <3> QED
            BY <1>1, <2>1, <3>1
    <2>2. ASSUME NEW p \in SignIns, Issued(p), from[p] = runOf[r], into[p] = g, runOf[r] \in Anonymous
          PROVE  h = g
        <3>1. h # runOf[r]
            BY <2>2, IdsAssumption
        <3> QED
            BY <1>0, <1>1, <2>2, <3>1, BecameOne
    <2> QED
        BY <2>1, <2>2
<1>2. history[r] \in {Nobody, g}
    BY <1>0, <1>1 DEF Shape, ListedWithTheirs
<1>3. ASSUME NEW c \in Recorders, WriteHistory(r, c)
      PROVE  Shown(r, g)'
    <2>1. PICK id : id = owner[r][c]
        OBVIOUS
    <2>2. id \in Accounts
        BY <1>3, <2>1, HistoryWritten
    <2>3. id = g
        <3>1. id # runOf[r] => Became(runOf[r], id)
            BY <1>0, <2>1, <2>2, IdsAssumption DEF ListedWithTheirs
        <3> QED
            BY <1>1, <2>2, <3>1
    <2> QED
        BY <1>2, <1>3, <2>1, <2>3, HistoryWritten
<1>4. ASSUME NEW p \in SignIns, CarryRun(p, r), into[p] = g
      PROVE  Shown(r, g)'
    BY <1>2, <1>4, HistoryWritten
<1> QED
    BY <1>3, <1>4

\* OwnRunsAreShown is kept.
LEMMA OwnRunsAreShownKept ==
    ASSUME DeletionInv, DeletionInv', ListingInv, [Next]_vars
    PROVE  OwnRunsAreShown'
<1>0. /\ Shape /\ RecordedRunsEnded /\ OwnRunsAreShown
      /\ drawn \subseteq drawn' /\ drawn \subseteq Accounts
    BY AccountsOnlyGo DEF DeletionInv, ListingInv, Shape
<1>1. SUFFICES ASSUME NEW r \in Runs, runOf'[r] \in Accounts, Exists(runOf[r])', NEW c \in Recorders
               PROVE  worker'[r][c] # "link" /\ (worker'[r][c] = "done" => Shown(r, runOf[r])')
    BY DEF OwnRunsAreShown
<1>2. PICK g \in Accounts : g = runOf'[r]
    BY <1>1
<1>3. Exists(g)' /\ Moves(r)
    BY <1>1, <1>2, RecorderMoves DEF Exists
<1>4. CASE runOf[r] = Nobody
    BY <1>2, <1>3, <1>4, IdsAssumption DEF Moves
<1>5. CASE runOf[r] # Nobody
    <2>1. runOf[r] = g
        BY <1>2, <1>5, AccountsOfRunsStay, IdsAssumption
    <2>2. g \in drawn
        BY <1>0, <2>1, IdsAssumption DEF RecordedRunsEnded
    <2>3. Exists(g)
        BY <1>3, <2>2, AccountsOnlyGo
    <2>4. worker[r][c] # "link" /\ (worker[r][c] = "done" => Shown(r, g))
        <3>1. runOf[r] \in Accounts /\ Exists(runOf[r])
            BY <2>1, <2>3
        <3> QED
            BY <1>0, <2>1, <3>1 DEF OwnRunsAreShown
    <2>5. worker[r][c] = "done" => Terminal(r)
        BY <1>0 DEF RecordedRunsEnded, Recorders, WorkerLabels
    <2>6. Shown(r, g)' => Shown(r, runOf[r])'
        BY <1>2 DEF Shown, Newer
    <2>7. CASE worker'[r][c] = worker[r][c]
        BY <1>3, <2>4, <2>5, <2>6, <2>7, ShownStays
    <2>8. CASE worker'[r][c] # worker[r][c]
        <3>1. worker'[r][c] # "link"
            BY <1>3, <2>1, <2>3, <2>8 DEF Moves
        <3>2. worker'[r][c] = "done" => WriteHistory(r, c)
            <4>1. FollowLink(r, c) => worker[r][c] = "link"
                BY DEF FollowLink
            <4> QED
                BY <1>3, <2>4, <2>8, <4>1 DEF Moves
        <3>3. WriteHistory(r, c) => Shown(r, g)'
            BY <2>1, <2>3, WrittenIsShown
        <3> QED
            BY <2>6, <3>1, <3>2, <3>3
    <2> QED
        BY <2>7, <2>8
<1> QED
    BY <1>4, <1>5

\* The link to an account that exists is there to stay, unless another sign-in
\* of the same session makes one.
LEMMA LinksStay ==
    ASSUME DeletionInv, ListingInv, [Next]_vars, NEW a \in Anonymous, carried[a] # Nobody,
           Exists(carried[a])
    PROVE  \/ carried'[a] = carried[a]
           \/ \E p \in SignIns : Link(p) /\ a = from[p] /\ Issued(p)
<1>0. Shape /\ OneSignInPerSession /\ GoneForGood /\ a \in Ids /\ a \notin Accounts \cup {Nobody}
    BY IdsAssumption DEF DeletionInv, ListingInv, Ids
<1>1. CASE \E p \in SignIns : Link(p) /\ a = from[p] /\ Issued(p)
    BY <1>1
<1>2. CASE ~ \E p \in SignIns : Link(p) /\ a = from[p] /\ Issued(p)
    <2>1. carried'[a] \in {carried[a], Nobody}
        BY <1>0, <1>2, LinksAreTheirs
    <2>2. ASSUME NEW id \in Accounts \cup {Nobody}, id # carried[a], carried' = Unlinked(id)
          PROVE  carried'[a] = carried[a]
        BY <1>0, <2>2 DEF Unlinked
    <2>3. ASSUME NEW p \in SignIns, ForgetAfterSignIn(p) PROVE carried'[a] = carried[a]
        <3>1. ~Exists(into[p]) /\ into[p] \in Accounts \cup {Nobody} /\ carried' = Unlinked(into[p])
            BY <1>0, <2>3 DEF ForgetAfterSignIn, OneSignInPerSession, TakesItsSession, Shape
        <3> QED
            BY <2>2, <3>1
    <2>4. ASSUME NEW d \in Deletions, ForgetLinks(d) PROVE carried'[a] = carried[a]
        <3>1. ~Exists(victim[d]) /\ victim[d] \in Accounts \cup {Nobody} /\ carried' = Unlinked(victim[d])
            BY <1>0, <2>4 DEF ForgetLinks, GoneForGood, Shape
        <3> QED
            BY <2>2, <3>1
    <2>5. ASSUME NEW p \in SignIns, Link(p) PROVE carried'[a] = carried[a]
        <3>1. /\ carried' = [carried EXCEPT ![previous[p]] = into[p]]
              /\ previous[p] \in Anonymous /\ previous[p] = from[p] /\ Issued(p)
            BY <2>5 DEF Link, ListingInv, PreviousIsTheirs, KnowsPrevious, Issued, Rotated
        <3> QED
            BY <1>0, <1>2, <2>5, <3>1 DEF Shape
    <2>6. CASE \E r \in Runs : RunStep(r)
        BY <2>6 DEF RunStep, AskForRun, CancelRun, StartRun, FinishRun, WriteMetrics, CheckMark,
            FindOwner, FollowLink, WriteHistory, registry
    <2>7. CASE \E p \in SignIns : SignInStep(p)
        BY <2>3, <2>5, <2>7 DEF SignInStep, StartSignIn, ReadPrevious, Rotate, CheckAnonymous,
            CheckGoing, Collect, CarryRun, Confirm, registry
    <2>8. CASE \E d \in Deletions : DeletionStep(d)
        BY <2>4, <2>8 DEF DeletionStep, BeginDeletion, DeleteRows, RevokeAccount, ForgetMetrics,
            EndDeletion, registry
    <2> QED
        BY <2>6, <2>7, <2>8 DEF Next, vars, registry
<1> QED
    BY <1>1, <1>2

\* CarriedRunsAreShown is kept.
LEMMA CarriedRunsAreShownKept ==
    ASSUME DeletionInv, DeletionInv', ListingInv, [Next]_vars
    PROVE  CarriedRunsAreShown'
<1>0. /\ Shape /\ CallbackShape /\ RecordedRunsEnded /\ CarriedRunsAreShown /\ OneSignInPerSession
      /\ PreviousIsTheirs /\ GoneForGood /\ SessionsAreLooked /\ RunsHaveAccounts
      /\ drawn \subseteq drawn' /\ drawn \subseteq Accounts
    BY AccountsOnlyGo DEF DeletionInv, ListingInv, ListingShape, Shape
<1>1. SUFFICES ASSUME NEW p \in SignIns, at'[p] \in {"collect", "carry", "confirm", "done"},
                      from'[p] \in Anonymous, Exists(into[p])'
               PROVE  /\ (carried[from[p]] = into[p])'
                      /\ at'[p] # "collect" =>
                           \A r \in Runs : runOf'[r] = from'[p] /\ Terminal(r)' =>
                              \/ Shown(r, into[p])' \/ Recording(r)'
                              \/ at'[p] = "carry" /\ r \in todo'[p]
    BY DEF CarriedRunsAreShown, CarriesTheirs
<1>2. /\ into'[p] = into[p] /\ from'[p] = from[p] /\ Issued(p)' /\ at[p] # "idle"
    <2>0. at'[p] \in Rotated
        BY <1>1 DEF Rotated
    <2>1. CASE SignInStep(p)
        <3>1. ~ForgetAfterSignIn(p)
            BY <1>0, <1>1 DEF ForgetAfterSignIn, Goto, Shape
        <3>2. \A s \in Sessions, who \in Subjects : ~StartSignIn(p, s, who)
            BY <1>0, <1>1 DEF StartSignIn, Goto, Shape
        <3> QED
            BY <1>0, <2>0, <2>1, <3>1, <3>2, SignInMoves DEF Issued
    <2>2. ASSUME NEW q \in SignIns \ {p}, SignInStep(q)
          PROVE  into'[p] = into[p] /\ from'[p] = from[p] /\ at'[p] = at[p]
        BY <1>0, <2>2, SignInMoves
    <2>3. CASE ~ \E q \in SignIns : SignInStep(q)
        BY <2>0, <2>3, QuietForSignIns DEF Issued, Rotated
    <2> QED
        BY <2>0, <2>1, <2>2, <2>3 DEF Issued, Rotated
<1>3. PICK a \in Anonymous : a = from[p]
    BY <1>1, <1>2
<1>4. PICK g \in Accounts : g = into[p]
    <2>1. into'[p] \in Accounts \cup {Nobody} /\ (at'[p] \notin {"idle", "failed"} => into'[p] # Nobody)
        BY DEF DeletionInv, Shape, SessionsAreLooked
    <2> QED
        BY <1>1, <1>2, <2>1
<1>5. Exists(g)' /\ Exists(g) /\ g # Nobody /\ g \in drawn
    <2>1. Exists(g)'
        BY <1>1, <1>2, <1>4 DEF Exists
    <2>2. g \in drawn
        BY <1>0, <1>4, IdsAssumption DEF OneSignInPerSession, TakesItsSession
    <2> QED
        BY <2>1, <2>2, AccountsOnlyGo, IdsAssumption
<1>6. a \in Ids /\ a \notin Accounts /\ a # Nobody
    BY IdsAssumption DEF Ids
\* The link is there from the moment the sign-in made it.
<1>7. Link(p) \/ at[p] \in {"collect", "carry", "confirm", "done"}
    <2>1. CASE Rotate(p)
        <3>1. at[p] = "rotate" /\ from[p] \notin signedOut /\ previous[p] \in {Nobody, into[p]}
            BY <1>0, <1>1, <2>1 DEF Rotate, Goto, Shape
        <3>2. previous[p] = a
            BY <1>0, <1>3, <3>1 DEF PreviousIsTheirs, KnowsPrevious
        <3> QED
            BY <1>4, <1>6, <3>1, <3>2
    <2>2. CASE CheckAnonymous(p)
        <3>1. at[p] = "anonymous?" /\ Exists(previous[p])
            BY <1>0, <1>1, <2>2 DEF CheckAnonymous, Goto, Shape
        <3>2. previous[p] = a
            BY <1>0, <1>3, <3>1 DEF PreviousIsTheirs, KnowsPrevious
        <3> QED
            BY <1>0, <1>6, <3>1, <3>2 DEF Exists, Shape
    <2>3. CASE CheckGoing(p)
        <3>1. at[p] = "going?" /\ IsGoing(previous[p])
            BY <1>0, <1>1, <2>3 DEF CheckGoing, Goto, Shape
        <3>2. previous[p] = a
            BY <1>0, <1>3, <3>1 DEF PreviousIsTheirs, KnowsPrevious
        <3> QED
            BY <1>6, <3>1, <3>2 DEF IsGoing
    <2>4. CASE \E s \in Sessions, who \in Subjects : StartSignIn(p, s, who)
        BY <1>0, <1>1, <2>4 DEF StartSignIn, Goto, Shape
    <2>5. CASE ReadPrevious(p) \/ ForgetAfterSignIn(p)
        BY <1>0, <1>1, <2>5 DEF ReadPrevious, ForgetAfterSignIn, Goto, Shape
    <2>6. CASE Collect(p) \/ Confirm(p) \/ \E r \in Runs : CarryRun(p, r)
        BY <2>6 DEF Collect, Confirm, CarryRun
    <2>7. CASE ~SignInStep(p)
        <3>1. ASSUME NEW q \in SignIns \ {p}, SignInStep(q) PROVE at'[p] = at[p]
            BY <1>0, <3>1, SignInMoves
        <3>2. CASE ~ \E q \in SignIns : SignInStep(q)
            BY <1>1, <3>2, QuietForSignIns
        <3> QED
            BY <1>1, <2>7, <3>1, <3>2
    <2> QED
        BY <2>1, <2>2, <2>3, <2>4, <2>5, <2>6, <2>7 DEF SignInStep
<1>8. carried'[a] = g
    <2>1. CASE Link(p)
        <3>1. previous[p] = a /\ carried' = [carried EXCEPT ![previous[p]] = into[p]]
            BY <1>0, <1>3, <2>1 DEF Link, PreviousIsTheirs, KnowsPrevious
        <3> QED
            BY <1>0, <1>4, <1>6, <3>1 DEF Shape
    <2>2. CASE ~Link(p)
        <3>1. at[p] \in {"collect", "carry", "confirm", "done"}
            BY <1>7, <2>2
        <3>2. carried[a] = g
            BY <1>0, <1>3, <1>4, <1>5, <3>1 DEF CarriedRunsAreShown, CarriesTheirs
        <3>3. ASSUME NEW q \in SignIns, Link(q), a = from[q], Issued(q) PROVE FALSE
            <4>1. q = p
                BY <1>0, <1>3, <3>1, <3>3 DEF OneSignInPerSession, Issued, Rotated
            <4> QED
                BY <2>2, <3>3, <4>1
        <3> QED
            BY <1>5, <3>2, <3>3, LinksStay
    <2> QED
        BY <2>1, <2>2
<1>9. ASSUME at'[p] # "collect", NEW r \in Runs, runOf'[r] = a, Terminal(r)'
      PROVE  \/ Shown(r, g)' \/ Recording(r)'
             \/ at'[p] = "carry" /\ r \in todo'[p]
    <2>1. /\ at[p] \in {"collect", "carry", "confirm", "done"} /\ Issued(p)
        <3>1. Link(p) => at'[p] = "collect"
            BY <1>0 DEF Link, Goto, Shape
        <3> QED
            BY <1>7, <1>9, <3>1 DEF Issued, Rotated
    <2>2. /\ carried[a] = g
          /\ at[p] # "collect" /\ runOf[r] = a /\ Terminal(r) =>
                Shown(r, g) \/ (at[p] = "carry" /\ r \in todo[p]) \/ Recording(r)
        BY <1>0, <1>3, <1>4, <1>5, <2>1 DEF CarriedRunsAreShown, CarriesTheirs
    <2>m. Moves(r)
        BY RecorderMoves
    <2>3. CASE ~Terminal(r)
        BY <1>9, <2>3, <2>m DEF Moves, Recording
    <2>4. CASE Terminal(r)
        <3>1. runOf[r] = a
            BY <1>9, <2>4, AccountsOfRunsStay
        <3>2. ASSUME \/ \E c \in Recorders : WriteHistory(r, c)
                     \/ CarryRun(p, r)
              PROVE  Shown(r, g)'
            BY <1>3, <1>4, <1>5, <2>1, <3>1, <3>2, WrittenIsShown
        <3>3. CASE Shown(r, g)
            BY <1>5, <2>4, <3>3, ShownStays
        <3>4. CASE Recording(r)
            <4>1. PICK c \in Recorders : worker[r][c] \in AtWork
                BY <3>4 DEF Recording
            <4>2. CASE worker'[r][c] \in AtWork
                BY <4>2 DEF Recording
            <4>3. CASE worker'[r][c] \notin AtWork
                <5>1. WriteHistory(r, c) \/ (FollowLink(r, c) /\ carried[runOf[r]] = Nobody)
                    BY <2>m, <4>1, <4>3 DEF Moves
                <5> QED
                    BY <1>5, <2>2, <3>1, <3>2, <5>1
            <4> QED
                BY <4>2, <4>3
        <3>5. CASE ~SignInStep(p) /\ at[p] # "collect"
            <4>1. at'[p] = at[p] /\ todo'[p] = todo[p]
                <5>1. ASSUME NEW q \in SignIns \ {p}, SignInStep(q)
                      PROVE  at'[p] = at[p] /\ todo'[p] = todo[p]
                    BY <1>0, <5>1, SignInMoves
                <5>2. CASE ~ \E q \in SignIns : SignInStep(q)
                    BY <5>2, QuietForSignIns
                <5> QED
                    BY <3>5, <5>1, <5>2
            <4> QED
                BY <2>2, <2>4, <3>1, <3>3, <3>4, <3>5, <4>1
        <3>6. CASE SignInStep(p) /\ at[p] = "carry"
            <4>1. PICK q \in Runs : CarryRun(p, q)
                BY <3>6 DEF SignInStep, StartSignIn, ReadPrevious, Rotate, CheckAnonymous, CheckGoing,
                    Link, Collect, Confirm, ForgetAfterSignIn
            <4>2. r \in todo[p] \ {q} => at'[p] = "carry" /\ r \in todo'[p]
                BY <1>0, <4>1 DEF CarryRun, CarryOn, Goto, Shape, CallbackShape
            <4> QED
                BY <2>2, <2>4, <3>1, <3>2, <3>3, <3>4, <3>6, <4>1, <4>2
        <3>7. CASE at[p] = "collect"
            <4>1. SignInStep(p)
                <5>1. ASSUME NEW q \in SignIns \ {p}, SignInStep(q) PROVE at'[p] = at[p]
                    BY <1>0, <5>1, SignInMoves
                <5>2. (~ \E q \in SignIns : SignInStep(q)) => at'[p] = at[p]
                    BY QuietForSignIns
                <5> QED
                    BY <1>9, <3>7, <5>1, <5>2
            <4>2. Collect(p)
                BY <3>7, <4>1 DEF SignInStep, StartSignIn, ReadPrevious, Rotate, CheckAnonymous,
                    CheckGoing, Link, CarryRun, Confirm, ForgetAfterSignIn
            <4>3. previous[p] = a
                BY <1>0, <1>2, <1>3, <4>2, IdsAssumption
                    DEF Collect, PreviousIsTheirs, KnowsPrevious, OneSignInPerSession, TakesItsSession
            <4>4. PICK rest \in SUBSET Runs :
                     /\ rest = { x \in Runs : runOf[x] = previous[p] /\ Terminal(x) }
                     /\ CarryOn(p, rest)
                BY <4>2 DEF Collect
            <4>5. r \in rest
                BY <2>4, <3>1, <4>3, <4>4
            <4> QED
                BY <1>0, <4>4, <4>5 DEF CarryOn, Goto, Shape, CallbackShape
        <3>8. CASE SignInStep(p) /\ at[p] \in {"confirm", "done"}
            BY <2>2, <2>4, <3>1, <3>3, <3>4, <3>8
        <3> QED
            BY <2>1, <3>5, <3>6, <3>7, <3>8
    <2> QED
        BY <2>3, <2>4
<1>10. (carried[from[p]] = into[p])'
    BY <1>2, <1>3, <1>4, <1>8
<1>11. \A r \in Runs : Shown(r, g)' => Shown(r, into[p])'
    BY <1>2, <1>4 DEF Shown, Newer
<1> QED
    BY <1>2, <1>3, <1>9, <1>10, <1>11

-----------------------------------------------------------------------------
\* ListingInv is inductive: where a run is listed, or will be, follows the
\* sessions, the sign-ins and the recorders step by step.
THEOREM ListingInvariant == Spec => []ListingInv
<1>1. Init => ListingInv
    <2> SUFFICES ASSUME Init PROVE ListingInv
        OBVIOUS
    <2>1. ListingShape
        BY DEF Init, ListingShape, CallbackShape
    <2>2. GoneIsGoing
        <3>1. \A g \in Accounts : UnderWay(g) = {} /\ deleting[g] = 0
            BY DEF Init, UnderWay
        <3>2. drawn = {}
            BY DEF Init
        <3> QED
            BY <3>1, <3>2, FS_EmptySet DEF GoneIsGoing
    <2>3. EndsInOrder
        <3>1. Ended = {}
            BY DEF Init, Ended, Terminal
        <3> QED
            BY <3>1, FS_EmptySet DEF EndsInOrder
    <2>4. RecordedRunsEnded
        BY DEF Init, RecordedRunsEnded, Terminal, Recorders, WorkerLabels
    <2>5. HistoryIsShort
        <3>1. \A g \in Accounts : RowsUnder(g) = {}
            BY IdsAssumption DEF Init, RowsUnder
        <3> QED
            BY <3>1, FS_EmptySet, KeepAssumption DEF HistoryIsShort
    <2>6. OneSignInPerSession
        BY IdsAssumption DEF Init, OneSignInPerSession, TakesItsSession, Issued, Rotated
    <2>7. PreviousIsTheirs
        BY IdsAssumption DEF Init, PreviousIsTheirs, KnowsPrevious
    <2>8. ListedWithTheirs
        BY DEF Init, ListedWithTheirs
    <2>9. OwnRunsAreShown
        BY IdsAssumption DEF Init, OwnRunsAreShown
    <2>10. CarriedRunsAreShown
        BY DEF Init, CarriedRunsAreShown, CarriesTheirs
    <2> QED
        BY <2>1, <2>2, <2>3, <2>4, <2>5, <2>6, <2>7, <2>8, <2>9, <2>10 DEF ListingInv
<1>2. DeletionInv /\ DeletionInv' /\ ListingInv /\ [Next]_vars => ListingInv'
    BY ListingShapeKept, GoneIsGoingKept, EndsInOrderKept, RecordedRunsEndedKept, ShownStays,
        OneSignInPerSessionKept, PreviousIsTheirsKept, ListedWithTheirsKept, OwnRunsAreShownKept,
        CarriedRunsAreShownKept DEF ListingInv
<1> QED
    BY <1>1, <1>2, DeletionInvariant, PTL DEF Spec

\* A run is listed with its own person and with nobody else, and it is listed:
\* whatever ends first, the run, the sign-in that carries it or the deletion.
THEOREM EveryRunListedRight == Spec => []EveryRunIsListedRight
<1>1. DeletionInv /\ ListingInv => RunsStayWithTheirPerson
    <2> SUFFICES ASSUME DeletionInv, ListingInv, NEW r \in Runs, history[r] \notin {Nobody, runOf[r]}
                 PROVE  /\ runOf[r] \in Anonymous
                        /\ \A p \in SignIns : from[p] = runOf[r] /\ p \in signedOut \cup sessions
                               => into[p] = history[r]
        BY DEF RunsStayWithTheirPerson
    <2>1. Became(runOf[r], history[r]) /\ Exists(history[r])
        BY DEF ListingInv, ListedWithTheirs, DeletionInv, DeletedHistoryStaysGone
    <2>2. PICK q \in SignIns : from[q] = runOf[r] /\ Issued(q) /\ into[q] = history[r]
        BY <2>1 DEF Became
    <2>3. \A p \in SignIns : p \in signedOut \cup sessions => Issued(p)
        BY DEF Issued, Rotated, DeletionInv, SessionsAreLooked
    <2> QED
        BY <2>1, <2>2, <2>3 DEF Became, ListingInv, OneSignInPerSession
<1>2. DeletionInv /\ ListingInv => FinishedRunIsListed
    <2> SUFFICES ASSUME DeletionInv, ListingInv, NEW r \in Runs, NEW p \in SignIns,
                        worker[r]["pipeline"] = "done", worker[r]["cancel"] \in {"none", "done"},
                        at[p] = "done", Exists(into[p]),
                        runOf[r] \in {into[p]} \cup ({from[p]} \cap Anonymous)
                 PROVE  Shown(r, into[p])
        BY DEF FinishedRunIsListed, Shown, Newer
    <2>1. into[p] \in Accounts
        BY DEF DeletionInv, SessionsAreLooked, Shape
    <2>2. CASE runOf[r] = into[p]
        BY <2>1, <2>2 DEF ListingInv, OwnRunsAreShown, Recorders
    <2>3. CASE runOf[r] = from[p] /\ from[p] \in Anonymous
        <3>1. Terminal(r)
            BY DEF ListingInv, RecordedRunsEnded, WorkerLabels
        <3>2. ~Recording(r)
            BY DEF Recording, AtWork, Recorders
        <3> QED
            BY <2>3, <3>1, <3>2 DEF ListingInv, CarriedRunsAreShown, CarriesTheirs
    <2> QED
        BY <2>2, <2>3
<1> QED
    BY <1>1, <1>2, DeletionInvariant, ListingInvariant, PTL DEF EveryRunIsListedRight
=============================================================================
