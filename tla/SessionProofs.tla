---------------------------- MODULE SessionProofs ----------------------------
(* For every number of sessions, threads, scenarios and limits: Sessions    *)
(* implements SessionLife, that is, no request begins to act for a session  *)
(* its visitor ended; and none acts for one that ended by the operator's    *)
(* command or by the time.                                                  *)
EXTENDS Sessions, TLAPS

Restoring == {"kind", "cutoff", "insert"}
BeforeUse == {"idle", "check", "unread", "outdated", "fetch", "use"} \cup Restoring
HeldAs == {"anonymous", "sign_in_only", "signed_in", "unknown"}
Over == {"ended", "ended_here"}

Labels ==
    Restoring \cup
    {"idle", "check", "unread", "outdated", "fetch", "use", "persist", "confirm",
     "revoke", "first pass", "memory", "second pass",
     "begin deletion", "delete rows", "revoke account", "delete again",
     "recover", "upsert", "recheck", "issue", "create"}

LocalsShape ==
    /\ pc \in [Threads -> Labels] /\ op \in [Threads -> Requests \cup {"none", "mint"}]
    /\ sid \in [Threads -> Sessions \cup {NoSession}] /\ own \in [Threads -> BOOLEAN]
    /\ copy \in [Threads -> Int] /\ read \in [Threads -> Int]
    /\ seen \in [Threads -> SessionKind \cup {"unknown"}]
    /\ acting \in [Threads -> Sessions \cup {NoSession}]

CachedShape == [used : Int, written : Int, as : SessionKind \cup {"unknown"}]

SharedShape ==
    /\ scenario \in Scenarios /\ clock \in Nat
    /\ kind \in [Sessions -> SessionKind] /\ born \in [Sessions -> Int]
    /\ cached \in [Sessions -> CachedShape]
    /\ endedIds \in [Sessions -> Int] /\ signedOutIds \in [Sessions -> Int]
    /\ memoryCutoff \in Int /\ deletedUntil \in Int
    /\ rows \in [Sessions -> Int] /\ cutoff \in Int
    /\ promised \in [Sessions -> {"unborn", "live"} \cup Over]

Shape == LocalsShape /\ SharedShape

\* Nothing lies in the future, and what was ended had begun.
Moments ==
    /\ cutoff <= clock /\ deletedUntil <= clock + SessionTTL
    /\ \A s \in Sessions :
          /\ rows[s] <= clock /\ cached[s].used <= clock
          /\ kind[s] # "none" => born[s] \in 0 .. clock
          /\ endedIds[s] # Never => born[s] <= endedIds[s]
          /\ signedOutIds[s] # Never => born[s] <= signedOutIds[s]
    /\ \A t \in Threads : copy[t] <= clock /\ read[t] <= clock

\* A session that was not drawn yet is nowhere.
Unborn(s) == kind[s] = "none"
Nowhere(s) ==
    /\ promised[s] = "unborn" /\ ~InCache(s) /\ rows[s] = Never
    /\ endedIds[s] = Never /\ signedOutIds[s] = Never
Births ==
    /\ \A s \in Sessions : Unborn(s) => Nowhere(s)
    /\ \A s \in Sessions : ~Unborn(s) => promised[s] # "unborn"
    /\ \A t \in Threads :
          /\ pc[t] # "idle" => op[t] # "none" /\ sid[t] \in Sessions /\ ~Unborn(sid[t])
          /\ pc[t] = "idle" => ~own[t]

\* Nothing but memory knows a session that is good for signing in only.
KeptInMemory ==
    /\ \A s \in Sessions : kind[s] = "sign_in_only" => rows[s] = Never
    /\ \A t \in Threads : pc[t] \in Restoring => kind[sid[t]] # "sign_in_only"

\* The cache holds live sessions, as something, and not yet too old when last used.
CachedIsLive(s) ==
    InCache(s) =>
        /\ promised[s] = "live" /\ cached[s].as \in HeldAs
        /\ cached[s].as = "sign_in_only" => kind[s] = "sign_in_only"
        /\ cached[s].used - born[s] <= MaxAge(HeldKind(s))
        /\ rows[s] <= cached[s].used \/ rows[s] < clock

Holds(t) ==
    /\ own[t] => InCache(sid[t])
    /\ own[t] /\ pc[t] = "persist" => copy[t] <= cached[sid[t]].used
    /\ pc[t] \in {"cutoff", "insert"} => seen[t] \in {"anonymous", "signed_in", "unknown"}
    /\ pc[t] \in BeforeUse => acting[t] = NoSession

TooOld(s) == clock - born[s] > AnonymousMaxAge
Noted(s) == endedIds[s] # Never \/ signedOutIds[s] # Never

\* A session of the account that this process did not make, or whose end it did
\* not note: it was there before the process, so whatever cutoff the process
\* meets is past its birth.
Older(s) ==
    /\ kind[s] = "signed_in" /\ ~TooOld(s) /\ ~Noted(s)
    /\ ~(InCache(s) /\ cached[s].as = "signed_in")
Covers(c) == \A s \in Sessions : Older(s) => born[s] <= c
CutoffsCover ==
    /\ cutoff # Never => account = "recorded"
    /\ memoryCutoff = Never \/ Covers(memoryCutoff)
    /\ \A t \in Threads :
          /\ pc[t] \in {"outdated", "memory", "second pass"} => Covers(read[t])
          /\ pc[t] \in {"check", "insert"} /\ Before(sid[t], cutoff) => Covers(cutoff)
    /\ \A s \in Sessions : InCache(s) /\ Before(s, cutoff) => Covers(cutoff)

\* What keeps a row that is left of an ended session from being restored.
Barred(s) ==
    \/ rows[s] = Never \/ TooOld(s) \/ Noted(s)
    \/ kind[s] = "signed_in" /\ (born[s] <= memoryCutoff \/ rows[s] < deletedUntil - SessionTTL)

EndedIsBarred(s) ==
    /\ promised[s] \in Over => Barred(s)
    /\ promised[s] = "ended" => rows[s] = Never

\* A lookup that read the row of a session that ended meanwhile will see it.
SeesTheEnd(t) ==
    pc[t] \in Restoring =>
        LET s == sid[t] IN
        /\ ~TooOld(s) /\ clock - copy[t] <= SessionTTL
        /\ promised[s] \in Over => EndedMeanwhile(s)
        /\ InCache(s) \/ rows[s] <= copy[t] \/ rows[s] < clock \/ EndedMeanwhile(s)

\* A row written back while its account is deleted is a cached session's, or
\* was one's, and then it is barred once the deletion gave its answer.
WrittenBack(t) ==
    /\ pc[t] = "revoke account" =>
         \A s \in Sessions : kind[s] = "signed_in" =>
            InCache(s) \/ rows[s] < clock \/ TooOld(s) \/ Noted(s)
    /\ pc[t] = "delete again" =>
         \A s \in Sessions : Older(s) =>
            ~InCache(s) /\ (rows[s] = Never \/ rows[s] < deletedUntil - SessionTTL)
    /\ pc[t] = "delete again" =>
         \A u \in Threads : pc[u] \in Restoring /\ Older(sid[u]) => EndedMeanwhile(sid[u])

EndingInv ==
    /\ Shape /\ Moments /\ Births /\ KeptInMemory
    /\ \A s \in Sessions : CachedIsLive(s)
    /\ \A t \in Threads : Holds(t)
    /\ CutoffsCover
    /\ \A s \in Sessions : EndedIsBarred(s)
    /\ \A t \in Threads : SeesTheEnd(t)
    /\ \A t \in Threads : WrittenBack(t)

-----------------------------------------------------------------------------
(* Every variable keeps its shape.                                           *)

LEMMA TheLimits ==
    /\ SignedInIdle \in Nat /\ SessionTTL \in Nat \ {0} /\ SignedInIdle <= SessionTTL
    /\ SignedInMaxAge \in Nat /\ AnonymousMaxAge \in Nat /\ SignedInMaxAge <= AnonymousMaxAge
    /\ SessionTTL <= AnonymousMaxAge /\ NoSession \notin Sessions
BY LimitsAssumption, NameAssumption

LEMMA TheKinds == ASSUME scenario \in Scenarios PROVE scenario.kinds \subseteq {"anonymous", "sign_in_only"}
BY ScenarioAssumption DEF Scenario

LEMMA DropsAreShaped ==
    ASSUME Shape, NEW S \in SUBSET Sessions
    PROVE  /\ DroppedFromCache(S) \in [Sessions -> CachedShape]
           /\ EndedAfterDrop(S) \in [Sessions -> Int] /\ EndedOnPurpose(S) \in [Sessions -> Int]
           /\ Disowned(S) \in [Threads -> BOOLEAN]
<1>1. NotCached \in CachedShape
    BY DEF NotCached, Never, SessionKind, CachedShape
<1>2. DroppedFromCache(S) \in [Sessions -> CachedShape]
    BY <1>1 DEF DroppedFromCache, Shape, SharedShape
<1> QED
    BY <1>2 DEF Shape, SharedShape, LocalsShape, EndedAfterDrop, EndedOnPurpose, Disowned

LEMMA AnswersAreShaped ==
    ASSUME Shape, NEW t \in Threads, NEW S \in SUBSET Sessions, Done(t, S) \/ Refuse(t, S)
    PROVE  LocalsShape'
<1>1. Disowned(S) \in [Threads -> BOOLEAN]
    BY DropsAreShaped
<1>2. CASE Done(t, S)
  <2>1. /\ pc' = [pc EXCEPT ![t] = "idle"] /\ op' = [op EXCEPT ![t] = "none"]
        /\ sid' = [sid EXCEPT ![t] = NoSession] /\ own' = [Disowned(S) EXCEPT ![t] = FALSE]
        /\ copy' = [copy EXCEPT ![t] = -1] /\ read' = [read EXCEPT ![t] = -1]
        /\ seen' = [seen EXCEPT ![t] = "none"] /\ acting' = [acting EXCEPT ![t] = NoSession]
    BY <1>2 DEF Done, Goto, Locals, Never
  <2>2. own' \in [Threads -> BOOLEAN] /\ pc' \in [Threads -> Labels]
    BY <1>1, <2>1 DEF Shape, LocalsShape, Labels
  <2> QED
    BY <2>1, <2>2 DEF Shape, LocalsShape, SessionKind
<1>3. CASE Refuse(t, S) /\ ~Done(t, S)
  <2>1. /\ pc' = [pc EXCEPT ![t] = "recover"]
        /\ own' = [Disowned(S) EXCEPT ![t] = FALSE]
        /\ UNCHANGED <<op, sid, copy, seen, read, acting>>
    BY <1>3 DEF Refuse, Goto
  <2> QED
    BY <1>1, <2>1 DEF Shape, LocalsShape, Labels
<1> QED
    BY <1>2, <1>3
LEMMA DispatchIsShaped ==
    ASSUME Shape, NEW t \in Threads
    PROVE  /\ Found(t) /\ own' \in [Threads -> BOOLEAN] => LocalsShape'
           /\ Continue(t) /\ op[t] # "none" => LocalsShape'
<1>1. ASSUME Found(t), own' \in [Threads -> BOOLEAN] PROVE LocalsShape'
  <2>1. /\ pc' = [pc EXCEPT ![t] = "upsert"] \/ pc' = [pc EXCEPT ![t] = "use"]
        /\ op' = [op EXCEPT ![t] = op[t]] /\ sid' = [sid EXCEPT ![t] = sid[t]]
        /\ copy' = [copy EXCEPT ![t] = -1] /\ read' = [read EXCEPT ![t] = -1]
        /\ seen' = [seen EXCEPT ![t] = "none"] /\ acting' = acting
    BY <1>1 DEF Found, Goto, Locals, Never
  <2>2. pc' \in [Threads -> Labels]
    BY <2>1 DEF Shape, LocalsShape, Labels
  <2> QED
    BY <1>1, <2>1, <2>2 DEF Shape, LocalsShape, SessionKind
<1>2. ASSUME Continue(t), op[t] # "none" PROVE LocalsShape'
  <2>1. CASE Done(t, {})
    BY <2>1, AnswersAreShaped
  <2>2. CASE ~Done(t, {})
    <3>1. /\ UNCHANGED <<op, sid, own, copy, seen, read, acting>>
          /\ \E l \in {"revoke", "first pass", "begin deletion", "confirm"} : pc' = [pc EXCEPT ![t] = l]
      <4>1. op[t] \in {"sign_out", "everywhere", "delete", "sign_in"}
        BY <1>2, <2>2 DEF Continue, Shape, LocalsShape, Requests
      <4> QED
        BY <1>2, <2>2, <4>1 DEF Continue, Goto, locals
    <3>2. pc' \in [Threads -> Labels]
      BY <3>1 DEF Shape, LocalsShape, Labels
    <3> QED
      BY <3>1, <3>2 DEF Shape, LocalsShape
  <2> QED
    BY <2>1, <2>2
<1> QED
    BY <1>1, <1>2
\* Steps of a thread that only move on, and that touch nothing of its own but
\* what it read.
LEMMA MovesAreShaped ==
    ASSUME LocalsShape, NEW t \in Threads, NEW l \in Labels, Goto(t, l),
           UNCHANGED <<op, sid, acting>>,
           own' \in [Threads -> BOOLEAN], copy' \in [Threads -> Int], read' \in [Threads -> Int],
           seen' \in [Threads -> SessionKind \cup {"unknown"}]
    PROVE  LocalsShape'
BY DEF LocalsShape, Goto

LEMMA LabelsAre ==
    \A l \in {"idle", "check", "unread", "outdated", "fetch", "use", "persist", "confirm", "revoke",
              "first pass", "memory", "second pass", "begin deletion", "delete rows", "kind", "cutoff",
              "insert", "revoke account", "delete again", "recover", "upsert", "recheck", "issue",
              "create"} : l \in Labels
BY DEF Labels, Restoring

LEMMA LookUpIsShaped ==
    ASSUME Shape, Births, NEW t \in Threads, LookUp(t)
    PROVE  LocalsShape'
<1> USE DEF locals
<1>s. SharedShape /\ LocalsShape
    BY DEF Shape
<1>i. pc[t] # "idle" => sid[t] \in Sessions
    BY DEF Births
<1>1. CASE CheckCached(t)
  <2>1. ASSUME Found(t), own' = own PROVE LocalsShape'
    BY <2>1, <1>s, DispatchIsShaped DEF LocalsShape
  <2>2. ASSUME UNCHANGED <<op, sid, own, copy, seen, acting>>,
               \/ Goto(t, "outdated") /\ read' = [read EXCEPT ![t] = cutoff]
               \/ Goto(t, "unread") /\ read' = read
        PROVE  LocalsShape'
    BY <2>2, <1>s, MovesAreShaped, LabelsAre DEF SharedShape, LocalsShape
  <2> QED
    BY <1>1, <2>1, <2>2 DEF CheckCached
<1>2. CASE AnswerUnchecked(t)
  <2>1. \E S \in SUBSET Sessions : Refuse(t, S)
    <3>1. CASE own[t] /\ cached[sid[t]].as # "unknown" /\ Expired(sid[t])
      BY <1>2, <1>i, <3>1 DEF AnswerUnchecked
    <3> QED
      BY <1>2, <3>1 DEF AnswerUnchecked
  <2> QED
    BY <2>1, AnswersAreShaped
<1>3. CASE AnswerOutdated(t)
  <2>1. Refuse(t, Outdated(read[t])) /\ Outdated(read[t]) \in SUBSET Sessions
    BY <1>3 DEF AnswerOutdated, Outdated
  <2> QED
    BY <2>1, AnswersAreShaped
<1>4. CASE Fetch(t)
  <2>1. ASSUME Goto(t, "kind"), copy' = [copy EXCEPT ![t] = rows[sid[t]]],
               UNCHANGED <<op, sid, own, seen, read, acting>>
        PROVE  LocalsShape'
    <3>1. rows[sid[t]] \in Int
      BY <1>s, <1>i, <1>4 DEF SharedShape, Fetch
    <3> QED
      BY <2>1, <3>1, <1>s, MovesAreShaped, LabelsAre DEF LocalsShape
  <2> QED
    BY <1>4, <2>1, AnswersAreShaped DEF Fetch
<1>5. CASE LookUpKind(t)
  <2>1. CASE Refuse(t, {})
    BY <2>1, AnswersAreShaped
  <2>2. CASE ~Refuse(t, {})
    <3>1. /\ seen' = [seen EXCEPT ![t] = KindRead(sid[t])]
          /\ UNCHANGED <<op, sid, own, copy, read, acting>>
          /\ pc' = [pc EXCEPT ![t] = "insert"] \/ pc' = [pc EXCEPT ![t] = "cutoff"]
      BY <1>5, <2>2 DEF LookUpKind, Goto
    <3>2. KindRead(sid[t]) \in SessionKind \cup {"unknown"}
      <4>1. KindRead(sid[t]) \in {"unknown", "signed_in", "anonymous"}
        BY DEF KindRead
      <4> QED
        BY <4>1 DEF SessionKind
    <3>3. pc' \in [Threads -> Labels]
      BY <3>1, <1>s, LabelsAre DEF LocalsShape
    <3>4. seen' \in [Threads -> SessionKind \cup {"unknown"}]
      BY <3>1, <3>2, <1>s DEF LocalsShape
    <3> QED
      BY <3>1, <3>3, <3>4, <1>s DEF LocalsShape
  <2> QED
    BY <2>1, <2>2
<1>6. CASE ReadCutoff(t)
  <2>1. ASSUME Goto(t, "insert"), UNCHANGED <<op, sid, own, copy, seen, read, acting>>
        PROVE  LocalsShape'
    BY <2>1, <1>s, MovesAreShaped, LabelsAre DEF LocalsShape
  <2> QED
    BY <1>6, <2>1, AnswersAreShaped DEF ReadCutoff
<1>7. CASE Insert(t)
  <2>1. ASSUME own' = [own EXCEPT ![t] = TRUE], Found(t) PROVE LocalsShape'
    BY <2>1, <1>s, DispatchIsShaped DEF LocalsShape
  <2> QED
    BY <1>7, <2>1, AnswersAreShaped DEF Insert
<1> QED
    BY <1>1, <1>2, <1>3, <1>4, <1>5, <1>6, <1>7 DEF LookUp

LEMMA EndingsAreShaped ==
    ASSUME Shape, Births, NEW t \in Threads,
           Work(t) \/ SignOutSteps(t) \/ Deletion(t)
    PROVE  LocalsShape'
<1> USE DEF locals
<1>s. SharedShape /\ LocalsShape
    BY DEF Shape
<1>i. /\ pc[t] # "idle" => sid[t] \in Sessions /\ op[t] # "none"
      /\ \A S \in SUBSET Sessions : Disowned(S) \in [Threads -> BOOLEAN]
    BY DropsAreShaped DEF Births
<1>d. ASSUME NEW S \in SUBSET Sessions, Done(t, S) PROVE LocalsShape'
    BY <1>d, AnswersAreShaped
<1>1. CASE Use(t)
  <2>1. ASSUME Goto(t, "persist"), acting' = [acting EXCEPT ![t] = sid[t]],
               copy' = [copy EXCEPT ![t] = clock], UNCHANGED <<op, sid, own, seen, read>>
        PROVE  LocalsShape'
    <3>1. pc[t] # "idle"
      BY <1>1 DEF Use
    <3>2. pc' \in [Threads -> Labels]
      BY <2>1, <1>s, LabelsAre DEF Goto, LocalsShape
    <3> QED
      BY <2>1, <3>1, <3>2, <1>s, <1>i DEF LocalsShape, SharedShape
  <2>2. ASSUME Done(t, {sid[t]}) PROVE LocalsShape'
    BY <2>2, <1>1, <1>d, <1>i DEF Use
  <2> QED
    BY <1>1, <1>d, <2>1, <2>2 DEF Use
<1>2. CASE Persist(t) \/ SkipPersist(t)
    BY <1>2, <1>i, DispatchIsShaped DEF Persist, SkipPersist
<1>3. CASE SignOut(t)
    BY <1>3, <1>i, <1>d DEF SignOut
<1>4. CASE FirstPass(t)
  <2>1. ASSUME Goto(t, "memory"), read' = [read EXCEPT ![t] = clock],
               UNCHANGED <<op, sid, own, copy, seen, acting>>
        PROVE  LocalsShape'
    <3>1. read' \in [Threads -> Int]
      BY <2>1, <1>s DEF SharedShape, LocalsShape
    <3> QED
      BY <2>1, <3>1, <1>s, MovesAreShaped, LabelsAre DEF LocalsShape
  <2> QED
    BY <1>4, <2>1, <1>d DEF FirstPass
<1>5. CASE EndInMemory(t)
  <2>1. own' \in [Threads -> BOOLEAN]
    BY <1>5, <1>i DEF EndInMemory, Outdated
  <2> QED
    BY <1>5, <2>1, <1>s, MovesAreShaped, LabelsAre DEF LocalsShape, EndInMemory
<1>6. CASE SecondPass(t) \/ DeleteAgain(t)
    BY <1>6, <1>d DEF SecondPass, DeleteAgain
<1>7. CASE BeginDeletion(t) \/ DeleteRows(t)
  <2>1. ASSUME Goto(t, "delete rows") \/ Goto(t, "revoke account"),
               UNCHANGED <<op, sid, own, copy, seen, read, acting>>
        PROVE  LocalsShape'
    BY <2>1, <1>s, MovesAreShaped, LabelsAre DEF LocalsShape
  <2> QED
    BY <1>7, <2>1, <1>d DEF BeginDeletion, DeleteRows
<1>8. CASE RevokeAccount(t)
  <2>1. own' \in [Threads -> BOOLEAN]
    BY <1>8, <1>i DEF RevokeAccount, AccountSessions
  <2> QED
    BY <1>8, <2>1, <1>s, MovesAreShaped, LabelsAre DEF LocalsShape, RevokeAccount, promises
<1> QED
    BY <1>1, <1>2, <1>3, <1>4, <1>5, <1>6, <1>7, <1>8 DEF Work, SignOutSteps, Deletion

LEMMA SignInsAreShaped ==
    ASSUME Shape, Births, NEW t \in Threads, SignIn(t)
    PROVE  LocalsShape'
<1> USE DEF locals
<1>s. SharedShape /\ LocalsShape
    BY DEF Shape
<1>i. /\ pc[t] # "idle" => sid[t] \in Sessions
      /\ \A S \in SUBSET Sessions : Disowned(S) \in [Threads -> BOOLEAN]
    BY DropsAreShaped DEF Births
<1>d. ASSUME NEW S \in SUBSET Sessions, Done(t, S) PROVE LocalsShape'
    BY <1>d, AnswersAreShaped
<1>1. CASE Recover(t) \/ Upsert(t) \/ Recheck(t)
  <2>1. ASSUME Goto(t, "upsert") \/ Goto(t, "issue") \/ Goto(t, "recheck"),
               UNCHANGED <<op, sid, own, copy, seen, read, acting>>
        PROVE  LocalsShape'
    BY <2>1, <1>s, MovesAreShaped, LabelsAre DEF LocalsShape
  <2> QED
    BY <1>1, <2>1, <1>d DEF Recover, Upsert, Recheck
<1>2. CASE Issue(t)
  <2>1. ASSUME Goto(t, "create"), own' = Disowned({sid[t]}),
               UNCHANGED <<op, sid, copy, seen, read, acting>>
        PROVE  LocalsShape'
    <3>1. own' \in [Threads -> BOOLEAN]
      BY <2>1, <1>2, <1>i DEF Issue
    <3> QED
      BY <2>1, <3>1, <1>s, MovesAreShaped, LabelsAre DEF LocalsShape
  <2>2. {sid[t]} \in SUBSET Sessions
    BY <1>2, <1>i DEF Issue
  <2> QED
    BY <1>2, <2>1, <2>2, <1>d DEF Issue
<1>3. CASE Confirm(t)
    BY <1>3, <1>i, <1>d DEF Confirm
<1>4. ASSUME NEW s \in Sessions, CreateSignedIn(t, s) PROVE LocalsShape'
  <2>1. Disowned(Lapsed) \in [Threads -> BOOLEAN]
    BY <1>i DEF Lapsed
  <2>2. own' \in [Threads -> BOOLEAN]
    BY <1>4, <2>1 DEF CreateSignedIn, Create
  <2>3. pc' \in [Threads -> Labels]
    BY <1>4, <1>s, LabelsAre DEF LocalsShape, CreateSignedIn, Goto
  <2> QED
    BY <1>4, <2>2, <2>3, <1>s DEF LocalsShape, CreateSignedIn
<1> QED
    BY <1>1, <1>2, <1>3, <1>4 DEF SignIn

LEMMA ShapeOfLocals ==
    ASSUME Shape, Births, [Next]_vars
    PROVE  LocalsShape'
<1>s. SharedShape /\ LocalsShape
    BY DEF Shape
<1>1. ASSUME NEW t \in Threads, NEW s \in Sessions, NEW k \in scenario.kinds, Mint(t, s, k)
      PROVE  LocalsShape'
  <2>1. Disowned(Lapsed) \in [Threads -> BOOLEAN]
    BY DropsAreShaped DEF Lapsed
  <2>2. own' \in [Threads -> BOOLEAN] /\ pc' \in [Threads -> Labels]
    BY <1>1, <1>s, <2>1, LabelsAre DEF Mint, Create, Goto, LocalsShape
  <2> QED
    BY <1>1, <2>2, <1>s DEF LocalsShape, Mint, Locals, Never, SessionKind
<1>2. ASSUME NEW t \in Threads, NEW s \in Sessions, NEW o \in Requests, Arrive(t, s, o)
      PROVE  LocalsShape'
  <2>1. Disowned(Lapsed) \in [Threads -> BOOLEAN]
    BY DropsAreShaped DEF Lapsed
  <2>2. own' \in [Threads -> BOOLEAN]
    BY <1>2, <1>s, <2>1 DEF Arrive
  <2>3. PICK l \in {"check", "recover", "fetch"} : pc' = [pc EXCEPT ![t] = l]
    BY <1>2 DEF Arrive, Goto
  <2>4. pc' \in [Threads -> Labels]
    BY <2>3, <1>s, LabelsAre DEF LocalsShape
  <2>5. PICK k \in {cached[s].as, "none"} : Locals(t, s, o, k)
    BY <1>2 DEF Arrive
  <2>6. k \in SessionKind \cup {"unknown"}
    BY <2>5, <1>s DEF SharedShape, CachedShape, SessionKind
  <2> QED
    BY <1>2, <2>2, <2>4, <2>5, <2>6, <1>s DEF Arrive, LocalsShape, Locals, Never
<1>3. CASE OperatorEnds \/ OperatorReadsBack \/ Tick \/ StoreFails \/ StoreAnswers
    BY <1>3, <1>s DEF OperatorEnds, OperatorReadsBack, Tick, StoreFails, StoreAnswers, LocalsShape, locals
<1>4. CASE CollectGarbage
  <2>1. own' \in [Threads -> BOOLEAN]
    BY <1>4, DropsAreShaped DEF CollectGarbage, Lapsed
  <2> QED
    BY <1>4, <2>1, <1>s DEF CollectGarbage, LocalsShape
<1>5. CASE Restart
  <2>1. pc' \in [Threads -> Labels]
    BY <1>5, LabelsAre DEF Restart
  <2> QED
    BY <1>5, <2>1 DEF Restart, LocalsShape, Never, SessionKind
<1>6. CASE UNCHANGED vars
    BY <1>6, <1>s DEF vars, locals, LocalsShape
<1> QED
    BY <1>1, <1>2, <1>3, <1>4, <1>5, <1>6, LookUpIsShaped, EndingsAreShaped, SignInsAreShaped DEF Next

LEMMA LatestIs ==
    ASSUME NEW a \in Int, NEW b \in Int
    PROVE  Latest(a, b) \in Int /\ Latest(a, b) >= a /\ Latest(a, b) >= b /\ Latest(a, b) \in {a, b}
BY DEF Latest

LEMMA PromisesAreShaped ==
    ASSUME Shape, NEW S, Promise(S)
    PROVE  promised' \in [Sessions -> {"unborn", "live"} \cup Over]
BY DEF Shape, SharedShape, Promise, Over

\* The pieces that the steps put together.
LEMMA PiecesAreShaped ==
    ASSUME Shape
    PROVE  /\ \A S \in SUBSET Sessions :
                 /\ DroppedFromCache(S) \in [Sessions -> CachedShape]
                 /\ EndedAfterDrop(S) \in [Sessions -> Int] /\ EndedOnPurpose(S) \in [Sessions -> Int]
           /\ Lapsed \in SUBSET Sessions /\ AccountSessions \in SUBSET Sessions
           /\ \A c : Outdated(c) \in SUBSET Sessions
<1>1. Lapsed \in SUBSET Sessions /\ AccountSessions \in SUBSET Sessions
      /\ \A c : Outdated(c) \in SUBSET Sessions
    BY DEF Lapsed, AccountSessions, Outdated
<1> QED
    BY <1>1, DropsAreShaped

LEMMA RevocationsAreShaped ==
    ASSUME Shape, NEW s \in Sessions, Revoked(s), UNCHANGED <<scenario, clock, kind, born, memoryCutoff, deletedUntil, cutoff>>
    PROVE  SharedShape'
<1>1. {s} \in SUBSET Sessions
    OBVIOUS
<1>2. signedOutIds' \in [Sessions -> Int]
    BY DEF Revoked, Shape, SharedShape
<1>3. rows' \in [Sessions -> Int]
    BY DEF Revoked, Shape, SharedShape, Never
<1>4. promised' \in [Sessions -> {"unborn", "live"} \cup Over]
    BY PromisesAreShaped DEF Revoked
<1> QED
    BY <1>1, <1>2, <1>3, <1>4, PiecesAreShaped DEF Revoked, Shape, SharedShape

LEMMA CreationIsShaped ==
    ASSUME Shape, NEW t, NEW s \in Sessions, NEW k \in SessionKind, Create(t, s, k),
           UNCHANGED <<scenario, clock, signedOutIds, rows, memoryCutoff, deletedUntil, cutoff>>
    PROVE  SharedShape'
<1>1. [used |-> clock, written |-> Never, as |-> k] \in CachedShape
    BY DEF Shape, SharedShape, CachedShape, Never
<1>2. cached' \in [Sessions -> CachedShape]
  <2>1. DroppedFromCache(Lapsed) \in [Sessions -> CachedShape]
    BY PiecesAreShaped
  <2> QED
    BY <1>1, <2>1 DEF Create
<1>3. endedIds' \in [Sessions -> Int]
    BY PiecesAreShaped DEF Create, PurgeLapsed
<1>4. /\ kind' \in [Sessions -> SessionKind] /\ born' \in [Sessions -> Int]
      /\ promised' \in [Sessions -> {"unborn", "live"} \cup Over]
    BY DEF Create, Shape, SharedShape
<1> QED
    BY <1>2, <1>3, <1>4 DEF Shape, SharedShape

LEMMA ShapeOfTheShared ==
    ASSUME Shape, Births, [Next]_vars
    PROVE  SharedShape'
<1> USE DEF world, identity, memory, database, promises
<1>s. SharedShape /\ LocalsShape
    BY DEF Shape
<1>a. /\ \A t \in Threads : pc[t] # "idle" => sid[t] \in Sessions
      /\ \A t \in Threads : read[t] \in Int /\ copy[t] \in Int
    BY <1>s DEF Births, LocalsShape
<1>p. /\ \A S \in SUBSET Sessions :
             /\ DroppedFromCache(S) \in [Sessions -> CachedShape]
             /\ EndedAfterDrop(S) \in [Sessions -> Int] /\ EndedOnPurpose(S) \in [Sessions -> Int]
      /\ Lapsed \in SUBSET Sessions /\ AccountSessions \in SUBSET Sessions
      /\ \A c : Outdated(c) \in SUBSET Sessions
    BY PiecesAreShaped
<1>1. ASSUME NEW t \in Threads, NEW s \in Sessions, NEW k \in scenario.kinds, Mint(t, s, k)
      PROVE  SharedShape'
  <2>1. k \in SessionKind
    BY <1>s, TheKinds DEF SharedShape, SessionKind
  <2> QED
    BY <1>1, <2>1, CreationIsShaped DEF Mint
<1>2. ASSUME NEW t \in Threads, NEW s \in Sessions, CreateSignedIn(t, s) PROVE SharedShape'
  <2>1. "signed_in" \in SessionKind
    BY DEF SessionKind
  <2> QED
    BY <1>2, <2>1, CreationIsShaped DEF CreateSignedIn
<1>3. ASSUME NEW t \in Threads, NEW s \in Sessions, NEW o \in Requests, Arrive(t, s, o)
      PROVE  SharedShape'
    BY <1>3, <1>s, <1>p DEF Arrive, PurgeLapsed, SharedShape
<1>4. ASSUME NEW t \in Threads,
             CheckCached(t) \/ Fetch(t) \/ LookUpKind(t) \/ ReadCutoff(t) \/ SkipPersist(t)
             \/ BeginDeletion(t) \/ Recover(t) \/ Upsert(t) \/ Recheck(t)
      PROVE  SharedShape'
    BY <1>4, <1>s DEF CheckCached, Fetch, LookUpKind, ReadCutoff, SkipPersist, BeginDeletion, Recover,
        Upsert, Recheck, SharedShape
<1>5. ASSUME NEW t \in Threads, AnswerUnchecked(t) PROVE SharedShape'
  <2> DEFINE drops == IF own[t] /\ cached[sid[t]].as # "unknown" /\ Expired(sid[t]) THEN {sid[t]} ELSE {}
  <2>1. drops \in SUBSET Sessions
    BY <1>5, <1>a DEF AnswerUnchecked
  <2>2. /\ cached' = DroppedFromCache(drops) /\ endedIds' = EndedAfterDrop(drops)
        /\ UNCHANGED <<world, identity, signedOutIds, memoryCutoff, deletedUntil, database, promised>>
    BY <1>5 DEF AnswerUnchecked
  <2> HIDE DEF drops
  <2> QED
    BY <2>1, <2>2, <1>s, <1>p DEF SharedShape
<1>6. ASSUME NEW t \in Threads, AnswerOutdated(t) PROVE SharedShape'
  <2>1. memoryCutoff' \in Int
    BY <1>6, <1>s, <1>a, LatestIs DEF AnswerOutdated, EndSessionsOf, SharedShape
  <2> QED
    BY <1>6, <2>1, <1>s, <1>p DEF AnswerOutdated, EndSessionsOf, SharedShape
<1>7. ASSUME NEW t \in Threads, Insert(t) PROVE SharedShape'
  <2>1. [used |-> copy[t], written |-> copy[t], as |-> seen[t]] \in CachedShape
    BY <1>s DEF CachedShape, LocalsShape
  <2>2. cached' \in [Sessions -> CachedShape]
    BY <1>7, <2>1, <1>s DEF Insert, SharedShape
  <2> QED
    BY <1>7, <2>2, <1>s DEF Insert, SharedShape
<1>8. ASSUME NEW t \in Threads, Use(t) PROVE SharedShape'
  <2>1. sid[t] \in Sessions /\ {sid[t]} \in SUBSET Sessions
    BY <1>8, <1>a DEF Use
  <2>2. CASE cached' = [cached EXCEPT ![sid[t]].used = clock] /\ endedIds' = endedIds
    <3>1. [cached[sid[t]] EXCEPT !.used = clock] \in CachedShape
      BY <2>1, <1>s DEF SharedShape, CachedShape
    <3>2. cached' \in [Sessions -> CachedShape]
      BY <2>1, <2>2, <3>1, <1>s DEF SharedShape
    <3> QED
      BY <1>8, <2>2, <3>2, <1>s DEF Use, SharedShape
  <2>3. CASE cached' = DroppedFromCache({sid[t]}) /\ endedIds' = EndedAfterDrop({sid[t]})
    BY <1>8, <2>1, <2>3, <1>s, <1>p DEF Use, SharedShape
  <2>4. CASE UNCHANGED <<cached, endedIds>>
    BY <1>8, <2>4, <1>s DEF Use, SharedShape
  <2> QED
    BY <1>8, <2>2, <2>3, <2>4 DEF Use
<1>9. ASSUME NEW t \in Threads, Persist(t) PROVE SharedShape'
  <2>1. sid[t] \in Sessions
    BY <1>9, <1>a DEF Persist
  <2> DEFINE used == Latest(cached[sid[t]].used, copy[t])
  <2>2. used \in Int
    BY <2>1, <1>s, <1>a, LatestIs DEF SharedShape, CachedShape
  <2>3. /\ rows' \in {rows, [rows EXCEPT ![sid[t]] = used]}
        /\ cached' \in {cached, [cached EXCEPT ![sid[t]].written = used]}
        /\ UNCHANGED <<world, identity, endedIds, signedOutIds, memoryCutoff, deletedUntil, cutoff, promised>>
    BY <1>9 DEF Persist, Saved
  <2> HIDE DEF used
  <2>4. [cached[sid[t]] EXCEPT !.written = used] \in CachedShape
    BY <2>1, <2>2, <1>s DEF SharedShape, CachedShape
  <2>5. cached' \in [Sessions -> CachedShape] /\ rows' \in [Sessions -> Int]
    BY <2>1, <2>2, <2>3, <2>4, <1>s DEF SharedShape
  <2> QED
    BY <2>3, <2>5, <1>s DEF SharedShape
<1>10. ASSUME NEW t \in Threads, SignOut(t) \/ Issue(t) \/ Confirm(t) PROVE SharedShape'
  <2>1. sid[t] \in Sessions
    BY <1>10, <1>a DEF SignOut, Issue, Confirm
  <2>2. CASE Revoked(sid[t])
    BY <1>10, <2>1, <2>2, RevocationsAreShaped DEF SignOut, Issue, Confirm
  <2>3. CASE UNCHANGED <<cached, endedIds, signedOutIds, rows, promised>>
    BY <1>10, <2>3, <1>s DEF SignOut, Issue, Confirm, SharedShape
  <2> QED
    BY <1>10, <2>2, <2>3 DEF SignOut, Issue, Confirm
<1>11. ASSUME NEW t \in Threads, FirstPass(t) \/ SecondPass(t) \/ DeleteRows(t) PROVE SharedShape'
  <2>1. rows' = rows \/ \E S : rows' = [s \in Sessions |-> IF s \in S THEN Never ELSE rows[s]]
    <3>1. ASSUME NEW c, EndRows(c)
          PROVE  rows' = [s \in Sessions |-> IF s \in {q \in Sessions : Before(q, c)} THEN Never ELSE rows[s]]
      BY <3>1 DEF EndRows
    <3> QED
      BY <1>11, <3>1 DEF FirstPass, SecondPass, DeleteRows
  <2>2. cutoff' \in Int
    <3>1. cutoff' \in {cutoff, Never, Latest(cutoff, clock), Latest(cutoff, read[t])}
      BY <1>11 DEF FirstPass, SecondPass, DeleteRows, EndRows
    <3> QED
      BY <3>1, <1>s, <1>a, LatestIs DEF SharedShape, Never
  <2>3. rows' \in [Sessions -> Int]
    BY <2>1, <1>s DEF SharedShape, Never
  <2> QED
    BY <1>11, <2>2, <2>3, <1>s DEF FirstPass, SecondPass, DeleteRows, SharedShape
<1>12. ASSUME NEW t \in Threads, EndInMemory(t) PROVE SharedShape'
  <2>1. memoryCutoff' \in Int
    BY <1>12, <1>s, <1>a, LatestIs DEF EndInMemory, EndSessionsOf, SharedShape
  <2>2. promised' \in [Sessions -> {"unborn", "live"} \cup Over]
    BY <1>12, PromisesAreShaped DEF EndInMemory
  <2> QED
    BY <1>12, <2>1, <2>2, <1>s, <1>p DEF EndInMemory, EndSessionsOf, SharedShape
<1>13. ASSUME NEW t \in Threads, RevokeAccount(t) PROVE SharedShape'
  <2>1. { s \in AccountSessions : InCache(s) } \in SUBSET Sessions /\ clock + SessionTTL \in Int
    BY <1>s, <1>p, TheLimits DEF SharedShape
  <2> QED
    BY <1>13, <2>1, <1>s, <1>p DEF RevokeAccount, SharedShape
<1>14. ASSUME NEW t \in Threads, DeleteAgain(t) PROVE SharedShape'
  <2>1. promised' \in [Sessions -> {"unborn", "live"} \cup Over]
    BY <1>14, PromisesAreShaped DEF DeleteAgain
  <2>2. rows' \in [Sessions -> Int]
    <3>1. rows' \in {rows, [s \in Sessions |-> IF s \in AccountSessions THEN Never ELSE rows[s]]}
      BY <1>14 DEF DeleteAgain
    <3> QED
      BY <3>1, <1>s DEF SharedShape, Never
  <2> QED
    BY <1>14, <2>1, <2>2, <1>s DEF DeleteAgain, SharedShape
<1>15. CASE OperatorEnds \/ OperatorReadsBack \/ Tick \/ StoreFails \/ StoreAnswers
  <2>1. rows' \in [Sessions -> Int]
    <3>1. ASSUME OperatorEnds
          PROVE  rows' = [s \in Sessions |-> IF Before(s, clock) THEN Never ELSE rows[s]]
      BY <3>1 DEF OperatorEnds, EndRows
    <3>2. ASSUME OperatorReadsBack
          PROVE  rows' = [s \in Sessions |->
                            IF s \in { q \in Sessions : Before(q, operatorCutoff) } THEN Never ELSE rows[s]]
      BY <3>2 DEF OperatorReadsBack
    <3> QED
      BY <1>15, <1>s, <3>1, <3>2 DEF Tick, StoreFails, StoreAnswers, SharedShape, Never
  <2>2. cutoff' \in Int /\ clock' \in Nat
    <3>1. cutoff' \in {cutoff, Latest(cutoff, clock)} /\ clock' \in {clock, clock + 1}
      BY <1>15 DEF OperatorEnds, OperatorReadsBack, Tick, StoreFails, StoreAnswers, EndRows
    <3>2. Latest(cutoff, clock) \in Int
      BY <1>s DEF Latest, SharedShape
    <3> QED
      BY <3>1, <3>2, <1>s DEF SharedShape
  <2> QED
    BY <1>15, <2>1, <2>2, <1>s DEF OperatorEnds, OperatorReadsBack, Tick, StoreFails, StoreAnswers, SharedShape
<1>16. CASE CollectGarbage
  <2>1. /\ EndedAfterDrop(Lapsed) \in [Sessions -> Int]
        /\ cached' \in [Sessions -> CachedShape]
    BY <1>16, <1>p DEF CollectGarbage
  <2>2. endedIds' \in [Sessions -> Int] /\ signedOutIds' \in [Sessions -> Int]
    BY <1>16, <2>1, <1>s DEF CollectGarbage, Kept, Never, SharedShape
  <2>3. rows' \in [Sessions -> Int]
    BY <1>16, <1>s DEF CollectGarbage, RowsAfterPurge, Never, SharedShape
  <2> QED
    BY <1>16, <2>1, <2>2, <2>3, <1>s DEF CollectGarbage, SharedShape
<1>17. CASE Restart
  <2>1. cached' \in [Sessions -> CachedShape]
    BY <1>17 DEF Restart, NotCached, CachedShape, SessionKind, Never
  <2>2. promised' \in [Sessions -> {"unborn", "live"} \cup Over]
    BY <1>17, <1>s DEF Restart, SharedShape
  <2> QED
    BY <1>17, <2>1, <2>2, <1>s DEF Restart, SharedShape, Never
<1>18. CASE UNCHANGED vars
    BY <1>18, <1>s DEF vars, SharedShape
<1> QED
    BY <1>1, <1>2, <1>3, <1>4, <1>5, <1>6, <1>7, <1>8, <1>9, <1>10, <1>11, <1>12, <1>13, <1>14, <1>15,
       <1>16, <1>17, <1>18 DEF Next, LookUp, Work, SignOutSteps, Deletion, SignIn

-----------------------------------------------------------------------------
(* What a step does to one session, in the cache, on disk and in what this   *)
(* process noted.                                                            *)

\* The cache drops it: its end is noted, or nothing of it is on disk, or it was
\* of an unknown kind and it lapsed.
Leaves(s) ==
    /\ InCache(s) /\ cached'[s] = NotCached
    /\ Noted(s)' \/ kind[s] = "sign_in_only" \/ (cached[s].as = "unknown" /\ Expired(s))

\* It stays as it is or less is left of it; a note is given up once it is too old.
CacheSettles(s) ==
    /\ cached'[s] = cached[s] \/ Leaves(s)
    /\ \/ endedIds'[s] = endedIds[s]
       \/ endedIds'[s] = clock /\ ~Unborn(s)
       \/ TooOld(s) /\ endedIds'[s] = Never
NoteSettles(s) ==
    \/ signedOutIds'[s] = signedOutIds[s]
    \/ signedOutIds'[s] = clock /\ ~Unborn(s)
    \/ TooOld(s) /\ signedOutIds'[s] = Never
RowSettles(s) == rows'[s] = rows[s] \/ rows'[s] = Never
Settles(s) == CacheSettles(s) /\ NoteSettles(s) /\ RowSettles(s)

SameNotes(s) == endedIds'[s] = endedIds[s] /\ signedOutIds'[s] = signedOutIds[s]

Begins(s) ==
    /\ Unborn(s) /\ SameNotes(s) /\ rows'[s] = rows[s]
    /\ kind'[s] \in {"anonymous", "sign_in_only", "signed_in"} /\ born'[s] = clock
    /\ cached'[s] = [used |-> clock, written |-> Never, as |-> kind'[s]]
    /\ promised'[s] = "live"

IsRestored(t, s) ==
    /\ pc[t] = "insert" /\ s = sid[t] /\ SameNotes(s) /\ rows'[s] = rows[s]
    /\ ~InCache(s) /\ ~EndedMeanwhile(s)
    /\ ~ExpiredAt(IF seen[t] = "unknown" THEN "signed_in" ELSE seen[t], copy[t], s)
    /\ cached'[s] = [used |-> copy[t], written |-> copy[t], as |-> seen[t]]

IsUsed(t, s) ==
    /\ pc[t] = "use" /\ own[t] /\ s = sid[t] /\ SameNotes(s) /\ rows'[s] = rows[s]
    /\ ~Expired(s)
    /\ cached'[s] = [cached[s] EXCEPT !.used = clock]

IsWritten(t, s) ==
    /\ pc[t] = "persist" /\ own[t] /\ s = sid[t] /\ SameNotes(s)
    /\ kind[s] # "sign_in_only"
    /\ LET used == Latest(cached[s].used, copy[t]) IN
        /\ cached'[s] = [cached[s] EXCEPT !.written = used]
        /\ rows'[s] \in {rows[s], used}

OldMoves(s) ==
    /\ kind'[s] = kind[s] /\ born'[s] = born[s]
    /\ \/ Settles(s)
       \/ \E t \in Threads : IsRestored(t, s) \/ IsUsed(t, s) \/ IsWritten(t, s)
Moves(s) == Begins(s) \/ OldMoves(s)

LEMMA LapsedSettle ==
    ASSUME EndingInv, NEW S \in SUBSET Sessions, \A s \in S : InCache(s) /\ Expired(s),
           NEW q \in Sessions, cached'[q] = DroppedFromCache(S)[q], endedIds'[q] = EndedAfterDrop(S)[q]
    PROVE  CacheSettles(q)
<1>1. CASE q \notin S
    BY <1>1 DEF CacheSettles, DroppedFromCache, EndedAfterDrop
<1>2. CASE q \in S
  <2>1. InCache(q) /\ Expired(q) /\ CachedIsLive(q) /\ clock \in Nat /\ ~Unborn(q)
    BY <1>2 DEF EndingInv, Shape, SharedShape, Births, Nowhere
  <2>2. cached'[q] = NotCached
    BY <1>2 DEF DroppedFromCache
  <2>3. CASE cached[q].as \notin {"unknown", "sign_in_only"}
    <3>1. endedIds'[q] = clock /\ clock # Never
      BY <1>2, <2>1, <2>3 DEF EndedAfterDrop, Never
    <3> QED
      BY <2>1, <2>2, <3>1 DEF CacheSettles, Leaves, Noted
  <2>4. CASE cached[q].as \in {"unknown", "sign_in_only"}
    <3>1. endedIds'[q] = endedIds[q]
      BY <1>2, <2>4 DEF EndedAfterDrop
    <3> QED
      BY <2>1, <2>2, <2>4, <3>1 DEF CacheSettles, Leaves, CachedIsLive
  <2> QED
    BY <2>3, <2>4
<1> QED
    BY <1>1, <1>2

LEMMA EndedSettle ==
    ASSUME EndingInv, NEW S \in SUBSET Sessions,
           NEW q \in Sessions, cached'[q] = DroppedFromCache(S)[q], endedIds'[q] = EndedOnPurpose(S)[q]
    PROVE  CacheSettles(q)
<1>1. CASE q \notin S \/ ~InCache(q)
    BY <1>1 DEF CacheSettles, DroppedFromCache, EndedOnPurpose, InCache
<1>2. CASE q \in S /\ InCache(q)
  <2>1. clock \in Nat /\ ~Unborn(q)
    BY <1>2 DEF EndingInv, Shape, SharedShape, Births, Nowhere
  <2>2. cached'[q] = NotCached
    BY <1>2 DEF DroppedFromCache
  <2>3. CASE kind[q] # "sign_in_only"
    <3>1. endedIds'[q] = clock /\ clock # Never
      BY <1>2, <2>1, <2>3 DEF EndedOnPurpose, Never
    <3> QED
      BY <1>2, <2>1, <2>2, <3>1 DEF CacheSettles, Leaves, Noted
  <2>4. CASE kind[q] = "sign_in_only"
    <3>1. endedIds'[q] = endedIds[q]
      BY <1>2, <2>4 DEF EndedOnPurpose
    <3> QED
      BY <1>2, <2>2, <2>4, <3>1 DEF CacheSettles, Leaves
  <2> QED
    BY <2>3, <2>4
<1> QED
    BY <1>1, <1>2

LEMMA LapsedAre == Lapsed \in SUBSET Sessions /\ \A s \in Lapsed : InCache(s) /\ Expired(s)
BY DEF Lapsed

LEMMA CreationMoves ==
    ASSUME EndingInv, NEW t, NEW s \in Sessions, NEW k \in {"anonymous", "sign_in_only", "signed_in"},
           Create(t, s, k), UNCHANGED <<signedOutIds, rows>>, NEW q \in Sessions
    PROVE  Moves(q)
<1>s. SharedShape
    BY DEF EndingInv, Shape
<1>1. DroppedFromCache(Lapsed) \in [Sessions -> CachedShape] /\ EndedAfterDrop(Lapsed) \in [Sessions -> Int]
    BY PiecesAreShaped DEF EndingInv
<1>2. CASE q = s
  <2>1. Unborn(q) /\ ~InCache(q)
    BY <1>2 DEF Create, Unborn, EndingInv, Births, Nowhere
  <2>2. endedIds'[q] = endedIds[q]
    BY <2>1 DEF Create, PurgeLapsed, EndedAfterDrop, Lapsed
  <2>3. cached'[q] = [used |-> clock, written |-> Never, as |-> k]
    BY <1>1, <1>2 DEF Create
  <2>4. kind'[q] = k /\ born'[q] = clock /\ promised'[q] = "live"
    BY <1>2, <1>s DEF Create, SharedShape
  <2> QED
    BY <2>1, <2>2, <2>3, <2>4 DEF Moves, Begins, SameNotes
<1>3. CASE q # s
  <2>1. cached'[q] = DroppedFromCache(Lapsed)[q] /\ endedIds'[q] = EndedAfterDrop(Lapsed)[q]
    BY <1>1, <1>3 DEF Create, PurgeLapsed
  <2>2. CacheSettles(q)
    BY <2>1, LapsedSettle, LapsedAre
  <2>3. kind'[q] = kind[q] /\ born'[q] = born[q]
    BY <1>3, <1>s DEF Create, SharedShape
  <2> QED
    BY <2>2, <2>3 DEF Moves, OldMoves, Settles, NoteSettles, RowSettles
<1> QED
    BY <1>2, <1>3

LEMMA RevocationSettles ==
    ASSUME EndingInv, NEW s \in Sessions, ~Unborn(s), Revoked(s), NEW q \in Sessions
    PROVE  Settles(q)
<1>s. SharedShape
    BY DEF EndingInv, Shape
<1>1. CacheSettles(q)
  <2>1. cached'[q] = DroppedFromCache({s})[q] /\ endedIds'[q] = EndedOnPurpose({s})[q]
    BY DEF Revoked
  <2>2. {s} \in SUBSET Sessions
    OBVIOUS
  <2> QED
    BY <2>1, <2>2, EndedSettle
<1>2. NoteSettles(q)
    BY <1>s DEF Revoked, NoteSettles, SharedShape
<1>3. RowSettles(q)
    BY <1>s DEF Revoked, RowSettles, SharedShape
<1> QED
    BY <1>1, <1>2, <1>3 DEF Settles

LEMMA ThreadsMoveSessions ==
    ASSUME EndingInv, NEW t \in Threads, NEW q \in Sessions,
           LookUp(t) \/ Work(t) \/ SignOutSteps(t) \/ Deletion(t)
    PROVE  OldMoves(q)
<1> USE DEF identity, memory, database
<1>s. SharedShape /\ LocalsShape /\ (pc[t] # "idle" => sid[t] \in Sessions /\ ~Unborn(sid[t]))
    BY DEF EndingInv, Shape, Births
<1>p. \A c : Outdated(c) \in SUBSET Sessions
    BY DEF Outdated
<1> DEFINE Rest == kind'[q] = kind[q] /\ born'[q] = born[q] /\ NoteSettles(q)
<1>1. CASE CheckCached(t) \/ Fetch(t) \/ LookUpKind(t) \/ ReadCutoff(t) \/ SkipPersist(t) \/ BeginDeletion(t)
    BY <1>1 DEF CheckCached, Fetch, LookUpKind, ReadCutoff, SkipPersist, BeginDeletion, OldMoves, Settles,
        CacheSettles, NoteSettles, RowSettles
<1>2. CASE AnswerUnchecked(t)
  <2> DEFINE drops == IF own[t] /\ cached[sid[t]].as # "unknown" /\ Expired(sid[t]) THEN {sid[t]} ELSE {}
  <2>1. drops \in SUBSET Sessions /\ \A s \in drops : InCache(s) /\ Expired(s)
    BY <1>2, <1>s DEF AnswerUnchecked, EndingInv, Holds
  <2>2. cached'[q] = DroppedFromCache(drops)[q] /\ endedIds'[q] = EndedAfterDrop(drops)[q]
    BY <1>2 DEF AnswerUnchecked
  <2>3. Rest /\ RowSettles(q)
    BY <1>2 DEF AnswerUnchecked, NoteSettles, RowSettles
  <2> HIDE DEF drops
  <2>4. CacheSettles(q)
    BY <2>1, <2>2, LapsedSettle
  <2> QED
    BY <2>3, <2>4 DEF OldMoves, Settles
<1>3. CASE AnswerOutdated(t)
  <2>1. CacheSettles(q)
    BY <1>3, <1>p, EndedSettle DEF AnswerOutdated, EndSessionsOf
  <2> QED
    BY <1>3, <2>1 DEF AnswerOutdated, OldMoves, Settles, NoteSettles, RowSettles
<1>4. CASE Insert(t)
  <2>1. Rest /\ SameNotes(q) /\ rows'[q] = rows[q]
    BY <1>4 DEF Insert, NoteSettles, SameNotes
  <2>2. CASE cached'[q] = cached[q]
    BY <2>1, <2>2 DEF OldMoves, Settles, CacheSettles, NoteSettles, RowSettles, SameNotes
  <2>3. CASE cached'[q] # cached[q]
    <3>1. IsRestored(t, q)
      BY <1>4, <1>s, <2>1, <2>3 DEF Insert, IsRestored, SharedShape
    <3> QED
      BY <2>1, <3>1 DEF OldMoves
  <2> QED
    BY <2>2, <2>3
<1>5. CASE Use(t)
  <2>1. Rest /\ RowSettles(q) /\ rows'[q] = rows[q] /\ signedOutIds'[q] = signedOutIds[q]
    BY <1>5 DEF Use, NoteSettles, RowSettles
  <2>2. CASE own[t] /\ ~Expired(sid[t])
    <3>1. cached' = [cached EXCEPT ![sid[t]].used = clock] /\ SameNotes(q)
      BY <1>5, <2>1, <2>2 DEF Use, SameNotes
    <3>2. CASE q = sid[t]
      <4>1. IsUsed(t, q)
        BY <1>5, <1>s, <2>1, <2>2, <3>1, <3>2 DEF IsUsed, SharedShape, Use
      <4> QED
        BY <2>1, <4>1 DEF OldMoves
    <3>3. CASE q # sid[t]
      BY <1>s, <2>1, <3>1, <3>3 DEF OldMoves, Settles, CacheSettles, SameNotes, SharedShape
    <3> QED
      BY <3>2, <3>3
  <2>3. CASE own[t] /\ Expired(sid[t])
    <3>1. cached'[q] = DroppedFromCache({sid[t]})[q] /\ endedIds'[q] = EndedAfterDrop({sid[t]})[q]
      BY <1>5, <2>3 DEF Use
    <3>2. {sid[t]} \in SUBSET Sessions /\ \A s \in {sid[t]} : InCache(s) /\ Expired(s)
      BY <1>5, <1>s, <2>3 DEF Use, EndingInv, Holds
    <3>3. CacheSettles(q)
      BY <3>1, <3>2, LapsedSettle
    <3> QED
      BY <2>1, <3>3 DEF OldMoves, Settles
  <2>4. CASE ~own[t]
    BY <1>5, <2>1, <2>4 DEF Use, OldMoves, Settles, CacheSettles
  <2> QED
    BY <2>2, <2>3, <2>4
<1>6. CASE Persist(t)
  <2> DEFINE used == Latest(cached[sid[t]].used, copy[t])
  <2>1. Rest /\ SameNotes(q)
    BY <1>6 DEF Persist, NoteSettles, SameNotes
  <2>2. CASE ~MayWrite(t)
    BY <1>6, <2>1, <2>2 DEF Persist, OldMoves, Settles, CacheSettles, RowSettles, SameNotes
  <2>3. CASE MayWrite(t)
    <3>1. /\ cached' = [cached EXCEPT ![sid[t]].written = used]
          /\ rows' = rows \/ rows' = [rows EXCEPT ![sid[t]] = used]
          /\ own[t] /\ pc[t] = "persist" /\ kind[sid[t]] # "sign_in_only"
      BY <1>6, <2>3 DEF Persist, Saved, MayWrite
    <3>2. CASE q = sid[t]
      <4>1. cached'[q] = [cached[q] EXCEPT !.written = used] /\ rows'[q] \in {rows[q], used}
        BY <1>s, <3>1, <3>2 DEF SharedShape
      <4>2. IsWritten(t, q)
        BY <2>1, <3>1, <3>2, <4>1 DEF IsWritten
      <4> QED
        BY <2>1, <4>2 DEF OldMoves
    <3>3. CASE q # sid[t]
      <4>1. cached'[q] = cached[q] /\ rows'[q] = rows[q]
        BY <1>s, <3>1, <3>3 DEF SharedShape
      <4> QED
        BY <2>1, <4>1 DEF OldMoves, Settles, CacheSettles, RowSettles, SameNotes
    <3> QED
      BY <3>2, <3>3
  <2> QED
    BY <2>2, <2>3
<1>7. CASE SignOut(t)
    BY <1>7, <1>s, RevocationSettles DEF SignOut, OldMoves
<1>8. CASE FirstPass(t) \/ SecondPass(t) \/ DeleteRows(t)
  <2>1. RowSettles(q)
    <3>1. ASSUME NEW c, EndRows(c) PROVE RowSettles(q)
      BY <3>1 DEF EndRows, RowSettles
    <3> QED
      BY <1>8, <3>1 DEF FirstPass, SecondPass, DeleteRows, RowSettles
  <2> QED
    BY <1>8, <2>1 DEF FirstPass, SecondPass, DeleteRows, OldMoves, Settles, CacheSettles, NoteSettles
<1>9. CASE EndInMemory(t)
  <2>1. CacheSettles(q)
    BY <1>9, <1>p, EndedSettle DEF EndInMemory, EndSessionsOf
  <2> QED
    BY <1>9, <2>1 DEF EndInMemory, OldMoves, Settles, NoteSettles, RowSettles
<1>10. CASE RevokeAccount(t)
  <2>1. { s \in AccountSessions : InCache(s) } \in SUBSET Sessions
    BY DEF AccountSessions
  <2>2. CacheSettles(q)
    BY <1>10, <2>1, EndedSettle DEF RevokeAccount
  <2> QED
    BY <1>10, <2>2 DEF RevokeAccount, OldMoves, Settles, NoteSettles, RowSettles
<1>11. CASE DeleteAgain(t)
    BY <1>11 DEF DeleteAgain, OldMoves, Settles, CacheSettles, NoteSettles, RowSettles
<1> QED
    BY <1>1, <1>2, <1>3, <1>4, <1>5, <1>6, <1>7, <1>8, <1>9, <1>10, <1>11
       DEF LookUp, Work, SignOutSteps, Deletion

\* Only Tick moves the clock, and a deletion is remembered for SESSION_TTL.
LEMMA TimeStands ==
    ASSUME EndingInv, [Next]_vars, ~Tick, ~Restart
    PROVE  /\ clock' = clock
           /\ deletedUntil' >= deletedUntil /\ deletedUntil' <= clock' + SessionTTL
<1>s. SharedShape
    BY DEF EndingInv, Shape
<1> USE DEF world, identity, memory, database
<1>1. deletedUntil \in Int /\ clock \in Nat /\ deletedUntil <= clock + SessionTTL
  BY <1>s DEF SharedShape, EndingInv, Moments
<1>2. ASSUME NEW t \in Threads, LookUp(t) PROVE clock' = clock /\ deletedUntil' = deletedUntil
  BY <1>2 DEF LookUp, CheckCached, AnswerUnchecked, AnswerOutdated, Fetch, LookUpKind, ReadCutoff, Insert
<1>3. ASSUME NEW t \in Threads, Work(t) \/ SignOutSteps(t) PROVE clock' = clock /\ deletedUntil' = deletedUntil
  BY <1>3 DEF Work, Use, Persist, SkipPersist, SignOutSteps, SignOut, FirstPass, EndInMemory, SecondPass
<1>4. ASSUME NEW t \in Threads, Deletion(t)
      PROVE  clock' = clock /\ (deletedUntil' = deletedUntil \/ deletedUntil' = clock + SessionTTL)
  BY <1>4 DEF Deletion, BeginDeletion, DeleteRows, RevokeAccount, DeleteAgain
<1>5. ASSUME NEW t \in Threads, SignIn(t) PROVE clock' = clock /\ deletedUntil' = deletedUntil
  BY <1>5 DEF SignIn, Recover, Upsert, Recheck, Issue, CreateSignedIn, Confirm
<1>6. ASSUME NEW t \in Threads, NEW s \in Sessions
      PROVE  /\ \A k \in scenario.kinds : Mint(t, s, k) => clock' = clock /\ deletedUntil' = deletedUntil
             /\ \A o \in Requests : Arrive(t, s, o) => clock' = clock /\ deletedUntil' = deletedUntil
  BY DEF Mint, Arrive
<1>7. ASSUME OperatorEnds \/ OperatorReadsBack \/ StoreFails \/ StoreAnswers \/ CollectGarbage \/ UNCHANGED vars
      PROVE  clock' = clock /\ deletedUntil' = deletedUntil
  BY <1>7 DEF OperatorEnds, OperatorReadsBack, StoreFails, StoreAnswers, CollectGarbage, vars
<1>8. clock' = clock /\ (deletedUntil' = deletedUntil \/ deletedUntil' = clock + SessionTTL)
  BY <1>2, <1>3, <1>4, <1>5, <1>6, <1>7 DEF Next
<1> QED
  BY <1>1, <1>8, TheLimits

LEMMA SessionsMove ==
    ASSUME EndingInv, [Next]_vars, ~Tick, ~Restart, NEW q \in Sessions
    PROVE  /\ Moves(q) /\ clock' = clock
           /\ deletedUntil' >= deletedUntil /\ deletedUntil' <= clock' + SessionTTL
<1> USE DEF identity, memory, database
<1>s. SharedShape /\ LocalsShape /\ \A t \in Threads : pc[t] # "idle" => sid[t] \in Sessions /\ ~Unborn(sid[t])
    BY DEF EndingInv, Shape, Births
<1>1. Moves(q)
  <2>1. ASSUME NEW t \in Threads, NEW s \in Sessions, NEW k \in scenario.kinds, Mint(t, s, k) PROVE Moves(q)
    <3>1. k \in {"anonymous", "sign_in_only", "signed_in"}
      BY <1>s, TheKinds DEF SharedShape
    <3> QED
      BY <2>1, <3>1, CreationMoves DEF Mint
  <2>2. ASSUME NEW t \in Threads, NEW s \in Sessions, CreateSignedIn(t, s) PROVE Moves(q)
    BY <2>2, CreationMoves DEF CreateSignedIn
  <2>3. ASSUME NEW t \in Threads, NEW s \in Sessions, NEW o \in Requests, Arrive(t, s, o) PROVE Moves(q)
    <3>1. CacheSettles(q)
      BY <2>3, LapsedSettle, LapsedAre DEF Arrive, PurgeLapsed
    <3> QED
      BY <2>3, <3>1 DEF Arrive, Moves, OldMoves, Settles, NoteSettles, RowSettles
  <2>4. ASSUME NEW t \in Threads, SignIn(t) PROVE Moves(q)
    <3>1. CASE Recover(t) \/ Upsert(t) \/ Recheck(t)
      BY <3>1 DEF Recover, Upsert, Recheck, Moves, OldMoves, Settles, CacheSettles, NoteSettles, RowSettles
    <3>2. CASE Issue(t) \/ Confirm(t)
      <4>1. sid[t] \in Sessions /\ ~Unborn(sid[t])
        BY <3>2, <1>s DEF Issue, Confirm
      <4>2. CASE Revoked(sid[t])
        BY <3>2, <4>1, <4>2, RevocationSettles DEF Issue, Confirm, Moves, OldMoves
      <4>3. CASE UNCHANGED <<cached, endedIds, signedOutIds, rows, promised>>
        BY <3>2, <4>3 DEF Issue, Confirm, Moves, OldMoves, Settles, CacheSettles, NoteSettles, RowSettles
      <4> QED
        BY <3>2, <4>2, <4>3 DEF Issue, Confirm
    <3> QED
      BY <2>4, <2>2, <3>1, <3>2 DEF SignIn
  <2>5. CASE OperatorEnds \/ OperatorReadsBack \/ StoreFails \/ StoreAnswers \/ UNCHANGED vars
    <3>1. RowSettles(q)
      BY <2>5 DEF OperatorEnds, EndRows, OperatorReadsBack, StoreFails, StoreAnswers, RowSettles, vars
    <3> QED
      BY <2>5, <3>1 DEF OperatorEnds, OperatorReadsBack, StoreFails, StoreAnswers, vars, Moves, OldMoves, Settles,
          CacheSettles, NoteSettles
  <2>6. CASE CollectGarbage
    <3> DEFINE e == EndedAfterDrop(Lapsed)[q]
    <3>1. /\ cached'[q] = DroppedFromCache(Lapsed)[q]
          /\ endedIds'[q] = IF clock - e > AnonymousMaxAge THEN Never ELSE e
          /\ signedOutIds'[q] = IF clock - signedOutIds[q] > AnonymousMaxAge THEN Never ELSE signedOutIds[q]
      BY <2>6 DEF CollectGarbage, Kept
    <3>2. RowSettles(q) /\ kind'[q] = kind[q] /\ born'[q] = born[q]
      BY <2>6 DEF CollectGarbage, RowsAfterPurge, RowSettles
    <3>3. /\ clock \in Nat /\ endedIds[q] \in Int /\ signedOutIds[q] \in Int /\ born[q] \in Int
          /\ endedIds[q] # Never => born[q] <= endedIds[q]
          /\ signedOutIds[q] # Never => born[q] <= signedOutIds[q]
      BY <1>s DEF SharedShape, EndingInv, Moments
    <3>4. NoteSettles(q)
      BY <3>1, <3>3, TheLimits DEF NoteSettles, TooOld, Never
    <3>5. CASE q \in Lapsed /\ cached[q].as \notin {"unknown", "sign_in_only"}
      <4>1. e = clock /\ InCache(q) /\ ~Unborn(q)
        BY <3>5, <1>s DEF EndedAfterDrop, Lapsed, EndingInv, Births, Nowhere
      <4>2. endedIds'[q] = clock
        BY <3>1, <3>3, <4>1, TheLimits
      <4>3. cached'[q] = NotCached /\ clock # Never
        BY <3>1, <3>3, <3>5 DEF DroppedFromCache, Never
      <4> QED
        BY <3>2, <3>4, <4>1, <4>2, <4>3 DEF Moves, OldMoves, Settles, CacheSettles, Leaves, Noted
    <3>6. CASE ~(q \in Lapsed /\ cached[q].as \notin {"unknown", "sign_in_only"})
      <4>1. e = endedIds[q]
        BY <3>6 DEF EndedAfterDrop
      <4>2. endedIds'[q] = endedIds[q] \/ (TooOld(q) /\ endedIds'[q] = Never)
        BY <3>1, <3>3, <4>1, TheLimits DEF TooOld, Never
      <4>3. cached'[q] = cached[q] \/ Leaves(q)
        BY <3>1, <3>6, <1>s DEF DroppedFromCache, Lapsed, Leaves, EndingInv, CachedIsLive
      <4> QED
        BY <3>2, <3>4, <4>2, <4>3 DEF Moves, OldMoves, Settles, CacheSettles
    <3> QED
      BY <3>5, <3>6
  <2> QED
    BY <2>1, <2>2, <2>3, <2>4, <2>5, <2>6, ThreadsMoveSessions DEF Next, Moves
<1> QED
    BY <1>1, TimeStands

-----------------------------------------------------------------------------
(* What a step does to the threads that do not take it.                      *)

SameLocals(u) ==
    /\ pc'[u] = pc[u] /\ op'[u] = op[u] /\ sid'[u] = sid[u] /\ copy'[u] = copy[u]
    /\ seen'[u] = seen[u] /\ read'[u] = read[u] /\ acting'[u] = acting[u]
Waits(u) == SameLocals(u) /\ (own'[u] => own[u] /\ InCache(sid[u])')

ThreadStep(t) ==
    \/ \E s \in Sessions, k \in scenario.kinds : Mint(t, s, k)
    \/ \E s \in Sessions, o \in Requests : Arrive(t, s, o)
    \/ LookUp(t) \/ Work(t) \/ SignOutSteps(t) \/ Deletion(t) \/ SignIn(t)
OutsideStep == OperatorEnds \/ OperatorReadsBack \/ StoreFails \/ StoreAnswers \/ CollectGarbage \/ UNCHANGED vars

LEMMA OneStepsOrNone ==
    ASSUME [Next]_vars
    PROVE  (\E t \in Threads : ThreadStep(t)) \/ OutsideStep \/ Tick \/ Restart
BY DEF Next, ThreadStep, OutsideStep

LEMMA AnsweringLeavesOthers ==
    ASSUME LocalsShape, NEW t \in Threads, NEW u \in Threads \ {t}, NEW S,
           Done(t, S) \/ Refuse(t, S)
    PROVE  SameLocals(u) /\ own'[u] = Disowned(S)[u]
<1>1. CASE Done(t, S)
    BY <1>1 DEF Done, Goto, Locals, LocalsShape, SameLocals, Disowned
<1>2. CASE ~Done(t, S)
    BY <1>2 DEF Refuse, Goto, LocalsShape, SameLocals, Disowned
<1> QED
    BY <1>1, <1>2

LEMMA GoingOnLeavesOthers ==
    ASSUME LocalsShape, NEW t \in Threads, NEW u \in Threads \ {t}
    PROVE  /\ Found(t) => SameLocals(u)
           /\ Continue(t) => SameLocals(u) /\ own'[u] = own[u]
<1>1. ASSUME Found(t) PROVE SameLocals(u)
    BY <1>1 DEF Found, Goto, Locals, LocalsShape, SameLocals
<1>2. ASSUME Continue(t) PROVE SameLocals(u) /\ own'[u] = own[u]
  <2>1. CASE Done(t, {})
    BY <2>1, AnsweringLeavesOthers DEF Disowned, LocalsShape
  <2>2. CASE ~Done(t, {})
    BY <1>2, <2>2 DEF Continue, Goto, locals, LocalsShape, SameLocals
  <2> QED
    BY <2>1, <2>2
<1> QED
    BY <1>1, <1>2

\* A thread keeps its object only where the cache keeps it.
LEMMA KeptIsCached ==
    ASSUME EndingInv, NEW u \in Threads, NEW S,
           own'[u] => Disowned(S)[u], sid'[u] = sid[u],
           sid[u] \in Sessions => cached'[sid[u]] = DroppedFromCache(S)[sid[u]]
    PROVE  own'[u] => own[u] /\ InCache(sid[u])'
<1>1. own[u] => sid[u] \in Sessions /\ InCache(sid[u])
    BY DEF EndingInv, Holds, Births
<1> QED
    BY <1>1 DEF Disowned, DroppedFromCache, InCache

LEMMA TouchedIsCached ==
    ASSUME EndingInv, NEW u \in Threads, sid'[u] = sid[u], own'[u] => own[u],
           own[u] => cached'[sid[u]].as \in HeldAs \/ cached'[sid[u]] = cached[sid[u]]
    PROVE  own'[u] => own[u] /\ InCache(sid[u])'
<1>1. own[u] => sid[u] \in Sessions /\ InCache(sid[u])
    BY DEF EndingInv, Holds, Births
<1> QED
    BY <1>1 DEF InCache, NotCached, HeldAs

LEMMA OthersWait ==
    ASSUME EndingInv, NEW t \in Threads, NEW u \in Threads \ {t}, ThreadStep(t)
    PROVE  Waits(u)
<1> USE DEF identity, memory, database
<1>s. /\ SharedShape /\ LocalsShape
      /\ pc[t] # "idle" => sid[t] \in Sessions /\ ~Unborn(sid[t])
      /\ own[u] => sid[u] \in Sessions /\ ~Unborn(sid[u]) /\ InCache(sid[u]) /\ cached[sid[u]].as \in HeldAs
    BY DEF EndingInv, Shape, Births, Holds, CachedIsLive
<1>1. ASSUME NEW s \in Sessions, NEW k \in {"anonymous", "sign_in_only", "signed_in"}, Create(t, s, k), SameLocals(u)
      PROVE  Waits(u)
  <2>1. own'[u] => Disowned(Lapsed)[u]
    BY <1>1 DEF Create, Disowned
  <2>2. own[u] => sid[u] # s
    BY <1>1, <1>s DEF Create, Unborn
  <2>3. DroppedFromCache(Lapsed) \in [Sessions -> CachedShape]
    BY PiecesAreShaped DEF EndingInv
  <2>4. own[u] => cached'[sid[u]] = DroppedFromCache(Lapsed)[sid[u]]
    BY <1>1, <1>s, <2>2, <2>3 DEF Create
  <2> QED
    BY <1>1, <1>s, <2>1, <2>4 DEF Waits, SameLocals, Disowned, DroppedFromCache, InCache
<1>2. ASSUME NEW s \in Sessions, NEW k \in scenario.kinds, Mint(t, s, k) PROVE Waits(u)
  <2>1. k \in {"anonymous", "sign_in_only", "signed_in"}
    BY <1>s, TheKinds DEF SharedShape
  <2>2. SameLocals(u)
    BY <1>2, <1>s DEF Mint, Goto, Locals, LocalsShape, SameLocals
  <2> QED
    BY <1>1, <1>2, <2>1, <2>2 DEF Mint
<1>3. ASSUME NEW s \in Sessions, CreateSignedIn(t, s) PROVE Waits(u)
  <2>1. SameLocals(u)
    BY <1>3, <1>s DEF CreateSignedIn, Goto, LocalsShape, SameLocals
  <2> QED
    BY <1>1, <1>3, <2>1 DEF CreateSignedIn
<1>4. ASSUME NEW s \in Sessions, NEW o \in Requests, Arrive(t, s, o) PROVE Waits(u)
  <2>1. SameLocals(u)
    BY <1>4, <1>s DEF Arrive, Goto, Locals, LocalsShape, SameLocals
  <2>2. own'[u] = Disowned(Lapsed)[u] /\ cached' = DroppedFromCache(Lapsed)
    BY <1>4 DEF Arrive, Disowned
  <2> QED
    BY <2>1, <2>2, KeptIsCached DEF Waits, SameLocals
<1>5. ASSUME own' = own, cached' = cached, SameLocals(u) PROVE Waits(u)
    BY <1>5, <1>s DEF Waits, SameLocals, InCache
<1>6. CASE CheckCached(t) \/ Fetch(t) \/ LookUpKind(t) \/ ReadCutoff(t)
  <2>1. cached' = cached
    BY <1>6 DEF CheckCached, Fetch, LookUpKind, ReadCutoff
  <2>2. own'[u] = own[u] /\ SameLocals(u)
    <3>1. CASE Refuse(t, {})
      BY <3>1, <1>s, AnsweringLeavesOthers DEF Disowned, LocalsShape
    <3>2. CASE CheckCached(t)
      BY <3>2, <1>s, GoingOnLeavesOthers DEF CheckCached, Goto, LocalsShape, SameLocals
    <3>3. CASE ~Refuse(t, {}) /\ ~CheckCached(t)
      BY <1>6, <1>s, <3>3 DEF Fetch, LookUpKind, ReadCutoff, Goto, locals, LocalsShape, SameLocals
    <3> QED
      BY <3>1, <3>2, <3>3
  <2> QED
    BY <2>1, <2>2, <1>s DEF Waits, SameLocals, InCache
<1>7. CASE AnswerUnchecked(t)
  <2>1. PICK S : Refuse(t, S) /\ cached' = DroppedFromCache(S)
    BY <1>7 DEF AnswerUnchecked
  <2>2. SameLocals(u) /\ own'[u] = Disowned(S)[u]
    BY <2>1, <1>s, AnsweringLeavesOthers
  <2> QED
    BY <2>1, <2>2, KeptIsCached DEF Waits, SameLocals
<1>8. CASE AnswerOutdated(t)
  <2>1. Refuse(t, Outdated(read[t])) /\ cached' = DroppedFromCache(Outdated(read[t]))
    BY <1>8 DEF AnswerOutdated, EndSessionsOf
  <2>2. SameLocals(u) /\ own'[u] = Disowned(Outdated(read[t]))[u]
    BY <2>1, <1>s, AnsweringLeavesOthers
  <2> QED
    BY <2>1, <2>2, KeptIsCached DEF Waits, SameLocals
<1>9. CASE Insert(t)
  <2>1. CASE Refuse(t, {}) /\ cached' = cached
    BY <2>1, <1>s, AnsweringLeavesOthers DEF Disowned, LocalsShape, Waits, SameLocals, InCache
  <2>2. CASE Found(t)
    <3>1. own' = [own EXCEPT ![t] = TRUE] \/ Refuse(t, {})
      BY <1>9 DEF Insert
    <3>2. SameLocals(u) /\ own'[u] = own[u]
      BY <2>2, <3>1, <1>s, AnsweringLeavesOthers, GoingOnLeavesOthers DEF LocalsShape, Disowned
    <3>3. own[u] => cached'[sid[u]] = cached[sid[u]]
      BY <1>9, <1>s DEF Insert, SharedShape
    <3> QED
      BY <3>2, <3>3, <1>s DEF Waits, SameLocals, InCache
  <2> QED
    BY <1>9, <2>1, <2>2 DEF Insert
<1>10. CASE Use(t)
  <2>1. CASE own[t] /\ ~Expired(sid[t])
    <3>1. SameLocals(u) /\ own'[u] = own[u]
      BY <1>10, <1>s, <2>1 DEF Use, Goto, LocalsShape, SameLocals
    <3>2. cached' = [cached EXCEPT ![sid[t]].used = clock] /\ sid[t] \in Sessions
      BY <1>10, <1>s, <2>1 DEF Use
    <3>3. own[u] => cached'[sid[u]].as \in HeldAs
      <4>1. CASE sid[u] = sid[t]
        BY <3>2, <1>s, <4>1 DEF SharedShape, CachedShape
      <4>2. CASE sid[u] # sid[t]
        BY <3>2, <1>s, <4>2 DEF SharedShape
      <4> QED
        BY <4>1, <4>2
    <3> QED
      BY <3>1, <3>3, TouchedIsCached DEF Waits, SameLocals
  <2>2. CASE ~(own[t] /\ ~Expired(sid[t]))
    <3>1. PICK S : Done(t, S) /\ cached' = DroppedFromCache(S)
      <4>1. CASE own[t]
        BY <1>10, <2>2, <4>1 DEF Use
      <4>2. CASE ~own[t]
        <5>1. DroppedFromCache({}) = cached
          BY <1>s DEF DroppedFromCache, SharedShape
        <5> QED
          BY <1>10, <4>2, <5>1 DEF Use
      <4> QED
        BY <4>1, <4>2
    <3>2. SameLocals(u) /\ own'[u] = Disowned(S)[u]
      BY <3>1, <1>s, AnsweringLeavesOthers
    <3> QED
      BY <3>1, <3>2, KeptIsCached DEF Waits, SameLocals
  <2> QED
    BY <2>1, <2>2
<1>11. CASE Persist(t) \/ SkipPersist(t)
  <2>1. SameLocals(u) /\ own'[u] = own[u]
    BY <1>11, <1>s, GoingOnLeavesOthers DEF Persist, SkipPersist
  <2>2. sid[t] \in Sessions
    BY <1>11, <1>s DEF Persist, SkipPersist
  <2>3. PICK w : cached' = cached \/ cached' = [cached EXCEPT ![sid[t]].written = w]
    BY <1>11 DEF Persist, SkipPersist
  <2>4. own[u] => cached'[sid[u]].as \in HeldAs
    <3>1. CASE sid[u] = sid[t]
      BY <2>2, <2>3, <1>s, <3>1 DEF SharedShape, CachedShape
    <3>2. CASE sid[u] # sid[t]
      BY <2>3, <1>s, <3>2 DEF SharedShape
    <3> QED
      BY <3>1, <3>2
  <2> QED
    BY <2>1, <2>4, TouchedIsCached DEF Waits, SameLocals
<1>12. ASSUME NEW S, Done(t, S), cached' = DroppedFromCache(S) \/ (cached' = cached /\ S = {}) PROVE Waits(u)
  <2>1. SameLocals(u) /\ own'[u] = Disowned(S)[u]
    BY <1>12, <1>s, AnsweringLeavesOthers
  <2>2. cached' = DroppedFromCache(S)
    BY <1>12, <1>s DEF DroppedFromCache, SharedShape
  <2> QED
    BY <2>1, <2>2, KeptIsCached DEF Waits, SameLocals
<1>13. CASE SignOut(t)
    BY <1>13, <1>12 DEF SignOut, Revoked
<1>14. CASE FirstPass(t) \/ SecondPass(t) \/ DeleteRows(t) \/ BeginDeletion(t) \/ DeleteAgain(t)
  <2>1. cached' = cached
    BY <1>14 DEF FirstPass, SecondPass, DeleteRows, BeginDeletion, DeleteAgain
  <2>2. CASE Done(t, {})
    BY <2>1, <2>2, <1>12
  <2>3. CASE ~Done(t, {})
    BY <1>14, <2>1, <2>3, <1>s, <1>5 DEF FirstPass, SecondPass, DeleteRows, BeginDeletion, DeleteAgain, Goto, locals,
        LocalsShape, SameLocals
  <2> QED
    BY <2>2, <2>3
<1>15. CASE EndInMemory(t) \/ RevokeAccount(t)
  <2>1. SameLocals(u)
    BY <1>15, <1>s DEF EndInMemory, RevokeAccount, Goto, LocalsShape, SameLocals
  <2>2. PICK S : own' = Disowned(S) /\ cached' = DroppedFromCache(S)
    BY <1>15 DEF EndInMemory, EndSessionsOf, RevokeAccount
  <2> QED
    BY <2>1, <2>2, KeptIsCached DEF Waits, SameLocals
<1>16. CASE Recover(t) \/ Upsert(t) \/ Recheck(t)
  <2>1. cached' = cached
    BY <1>16 DEF Recover, Upsert, Recheck
  <2>2. CASE Done(t, {})
    BY <2>1, <2>2, <1>12
  <2>3. CASE ~Done(t, {})
    BY <1>16, <2>1, <2>3, <1>s, <1>5 DEF Recover, Upsert, Recheck, Goto, locals, LocalsShape, SameLocals
  <2> QED
    BY <2>2, <2>3
<1>17. CASE Confirm(t)
    BY <1>17, <1>12 DEF Confirm, Revoked
<1>18. CASE Issue(t)
  <2>1. CASE PreviousSessionRevoked(t)
    <3>1. SameLocals(u) /\ own'[u] = Disowned({sid[t]})[u] /\ cached' = cached
      BY <1>18, <2>1, <1>s, AnsweringLeavesOthers DEF Issue
    <3> QED
      BY <3>1, <1>s DEF Waits, SameLocals, InCache, Disowned
  <2>2. CASE ~PreviousSessionRevoked(t)
    <3>1. SameLocals(u) /\ own' = Disowned({sid[t]}) /\ cached' = DroppedFromCache({sid[t]})
      BY <1>18, <2>2, <1>s DEF Issue, Revoked, Goto, LocalsShape, SameLocals
    <3> QED
      BY <3>1, KeptIsCached DEF Waits, SameLocals
  <2> QED
    BY <2>1, <2>2
<1> QED
    BY <1>2, <1>3, <1>4, <1>6, <1>7, <1>8, <1>9, <1>10, <1>11, <1>13, <1>14, <1>15, <1>16, <1>17, <1>18
       DEF ThreadStep, LookUp, Work, SignOutSteps, Deletion, SignIn

LEMMA AllWait ==
    ASSUME EndingInv, OutsideStep \/ Tick, NEW u \in Threads
    PROVE  Waits(u)
<1> USE DEF memory, locals
<1>s. /\ own[u] => InCache(sid[u])
      /\ LocalsShape
    BY DEF EndingInv, Holds, Shape
<1>1. CASE CollectGarbage
  <2>1. SameLocals(u) /\ own' = Disowned(Lapsed) /\ cached' = DroppedFromCache(Lapsed)
    BY <1>1 DEF CollectGarbage, SameLocals
  <2> QED
    BY <2>1, KeptIsCached DEF Waits, SameLocals
<1>2. CASE OperatorEnds \/ OperatorReadsBack \/ StoreFails \/ StoreAnswers \/ Tick \/ UNCHANGED vars
  <2>1. UNCHANGED <<pc, locals, cached>>
    BY <1>2 DEF OperatorEnds, OperatorReadsBack, StoreFails, StoreAnswers, Tick, vars
  <2> QED
    BY <2>1, <1>s DEF Waits, SameLocals, InCache
<1> QED
    BY <1>1, <1>2 DEF OutsideStep

-----------------------------------------------------------------------------
(* What a step does to the promises, the cutoffs and the sessions of before. *)

ByRevoking(s) == signedOutIds'[s] # Never \/ kind[s] = "sign_in_only"
BySigningOutEverywhere(t, s) ==
    /\ pc[t] = "memory" /\ kind[s] = "signed_in" /\ born[s] <= read[t] /\ read[t] <= memoryCutoff'
ByDeleting(t, s) ==
    /\ pc[t] = "delete again" /\ kind[s] = "signed_in" /\ cached'[s] = cached[s]
    /\ deletedUntil' = deletedUntil
Ends(s) ==
    /\ promised[s] \in {"live", "ended_here"} /\ ~InCache(s)'
    /\ promised'[s] = IF rows'[s] = Never THEN "ended" ELSE "ended_here"
    /\ endedIds'[s] = endedIds[s] \/ endedIds'[s] # Never
    /\ ByRevoking(s) \/ \E t \in Threads : BySigningOutEverywhere(t, s) \/ ByDeleting(t, s)

LEMMA PromiseEnds ==
    ASSUME SharedShape, NEW S \in SUBSET Sessions, Promise(S), NEW q \in Sessions, promised'[q] # promised[q]
    PROVE  /\ q \in S /\ promised[q] \in {"live", "ended_here"}
           /\ promised'[q] = IF rows'[q] = Never THEN "ended" ELSE "ended_here"
BY DEF SharedShape, Promise, Over

LEMMA RevokingEnds ==
    ASSUME EndingInv, NEW s \in Sessions, Revoked(s), NEW q \in Sessions, promised'[q] # promised[q]
    PROVE  Ends(q)
<1>s. SharedShape
    BY DEF EndingInv, Shape
<1>1. {s} \in SUBSET Sessions /\ Promise({s})
    BY DEF Revoked
<1>2. /\ q = s /\ promised[q] \in {"live", "ended_here"}
      /\ promised'[q] = IF rows'[q] = Never THEN "ended" ELSE "ended_here"
    BY <1>1, <1>s, PromiseEnds
<1>3. ~InCache(q)'
    BY <1>2 DEF Revoked, DroppedFromCache, InCache
<1>4. clock # Never
    BY <1>s DEF SharedShape, Never
<1>5. endedIds'[q] = endedIds[q] \/ endedIds'[q] # Never
    BY <1>4 DEF Revoked, EndedOnPurpose
<1>6. ByRevoking(q)
    BY <1>2, <1>4, <1>s DEF Revoked, ByRevoking, SharedShape
<1> QED
    BY <1>2, <1>3, <1>5, <1>6 DEF Ends

LEMMA PromisesMove ==
    ASSUME EndingInv, [Next]_vars, ~Restart, NEW q \in Sessions
    PROVE  promised'[q] = promised[q] \/ Begins(q) \/ Ends(q)
<1> USE DEF promises
<1>s. SharedShape /\ LocalsShape /\ \A t \in Threads : pc[t] # "idle" => sid[t] \in Sessions
    BY DEF EndingInv, Shape, Births
<1>1. ASSUME NEW t \in Threads, NEW s \in Sessions, NEW k, Create(t, s, k), UNCHANGED <<signedOutIds, rows>>,
             k \in {"anonymous", "sign_in_only", "signed_in"}
      PROVE  promised'[q] = promised[q] \/ Begins(q)
  <2>1. CASE q = s
    <3>1. Moves(q)
      BY <1>1, CreationMoves
    <3>2. kind'[q] # kind[q]
      BY <1>1, <1>s, <2>1 DEF Create, SharedShape
    <3> QED
      BY <3>1, <3>2 DEF Moves, OldMoves
  <2>2. CASE q # s
    BY <1>1, <1>s, <2>2 DEF Create, SharedShape
  <2> QED
    BY <2>1, <2>2
<1>2. ASSUME NEW t \in Threads, NEW s \in Sessions, NEW k \in scenario.kinds, Mint(t, s, k)
      PROVE  promised'[q] = promised[q] \/ Begins(q)
  <2>1. k \in {"anonymous", "sign_in_only", "signed_in"}
    BY <1>s, TheKinds DEF SharedShape
  <2> QED
    BY <1>1, <1>2, <2>1 DEF Mint, database
<1>3. ASSUME NEW t \in Threads, NEW s \in Sessions, CreateSignedIn(t, s)
      PROVE  promised'[q] = promised[q] \/ Begins(q)
    BY <1>1, <1>3 DEF CreateSignedIn, database
<1>4. ASSUME NEW t \in Threads, LookUp(t) \/ Work(t) \/ \E s \in Sessions, o \in Requests : Arrive(t, s, o)
      PROVE  promised' = promised
    BY <1>4 DEF LookUp, CheckCached, AnswerUnchecked, AnswerOutdated, Fetch, LookUpKind, ReadCutoff, Insert, Work, Use,
        Persist, SkipPersist, Arrive
<1>5. ASSUME NEW t \in Threads, SignOut(t) \/ Issue(t) \/ Confirm(t)
      PROVE  promised'[q] = promised[q] \/ Ends(q)
    BY <1>5, <1>s, RevokingEnds DEF SignOut, Issue, Confirm
<1>6. ASSUME NEW t \in Threads, EndInMemory(t)
      PROVE  promised'[q] = promised[q] \/ Ends(q)
  <2> SUFFICES ASSUME promised'[q] # promised[q] PROVE Ends(q)
    OBVIOUS
  <2>1. { s \in Sessions : Before(s, read[t]) } \in SUBSET Sessions /\ Promise({ s \in Sessions : Before(s, read[t]) })
    BY <1>6 DEF EndInMemory
  <2>2. /\ Before(q, read[t]) /\ promised[q] \in {"live", "ended_here"}
        /\ promised'[q] = IF rows'[q] = Never THEN "ended" ELSE "ended_here"
    BY <2>1, <1>s, PromiseEnds
  <2>3. ~InCache(q)'
    BY <1>6, <2>2 DEF EndInMemory, EndSessionsOf, DroppedFromCache, Outdated, InCache
  <2>4. clock # Never
    BY <1>s DEF SharedShape, Never
  <2>5. endedIds'[q] = endedIds[q] \/ endedIds'[q] # Never
    BY <1>6, <2>4 DEF EndInMemory, EndSessionsOf, EndedOnPurpose
  <2>6. read[t] \in Int /\ memoryCutoff \in Int
    BY <1>s DEF SharedShape, LocalsShape
  <2>7. memoryCutoff' = read[t] \/ memoryCutoff' = Latest(memoryCutoff, read[t])
    BY <1>6 DEF EndInMemory, EndSessionsOf
  <2>8. read[t] <= memoryCutoff'
    BY <2>6, <2>7 DEF Latest
  <2>9. BySigningOutEverywhere(t, q)
    BY <1>6, <2>2, <2>8 DEF EndInMemory, BySigningOutEverywhere, Before
  <2> QED
    BY <2>2, <2>3, <2>5, <2>9 DEF Ends
<1>7. ASSUME NEW t \in Threads, DeleteAgain(t)
      PROVE  promised'[q] = promised[q] \/ Ends(q)
  <2> SUFFICES ASSUME promised'[q] # promised[q] PROVE Ends(q)
    OBVIOUS
  <2>1. { s \in AccountSessions : ~InCache(s) } \in SUBSET Sessions /\ Promise({ s \in AccountSessions : ~InCache(s) })
    BY <1>7 DEF DeleteAgain, AccountSessions
  <2>2. /\ q \in AccountSessions /\ ~InCache(q) /\ promised[q] \in {"live", "ended_here"}
        /\ promised'[q] = IF rows'[q] = Never THEN "ended" ELSE "ended_here"
    BY <2>1, <1>s, PromiseEnds
  <2>3. ~InCache(q)' /\ cached'[q] = cached[q] /\ endedIds'[q] = endedIds[q] /\ deletedUntil' = deletedUntil
    BY <1>7, <2>2 DEF DeleteAgain, InCache
  <2>4. ByDeleting(t, q)
    BY <1>7, <2>2, <2>3 DEF DeleteAgain, ByDeleting, AccountSessions
  <2> QED
    BY <2>2, <2>3, <2>4 DEF Ends
<1>8. ASSUME NEW t \in Threads,
             FirstPass(t) \/ SecondPass(t) \/ BeginDeletion(t) \/ DeleteRows(t) \/ RevokeAccount(t)
             \/ Recover(t) \/ Upsert(t) \/ Recheck(t)
      PROVE  promised' = promised
    BY <1>8 DEF FirstPass, SecondPass, BeginDeletion, DeleteRows, RevokeAccount, Recover, Upsert, Recheck
<1>9. CASE OutsideStep \/ Tick
    BY <1>9 DEF OutsideStep, Tick, OperatorEnds, OperatorReadsBack, StoreFails, StoreAnswers, CollectGarbage, vars
<1> QED
    BY <1>2, <1>3, <1>4, <1>5, <1>6, <1>7, <1>8, <1>9, OneStepsOrNone
       DEF ThreadStep, SignOutSteps, Deletion, SignIn

\* Memory takes a cutoff from a thread that read or wrote it; the account's own
\* one rises while it has sessions, and goes with the account.
Cutting == {"outdated", "memory", "second pass"}
MemoryRises ==
    \/ memoryCutoff' = memoryCutoff
    \/ \E t \in Threads :
          pc[t] \in Cutting /\ memoryCutoff' \in {read[t], Latest(memoryCutoff, read[t])}
AccountRises ==
    \/ cutoff' = cutoff /\ (account' = account \/ account' = "recorded")
    \/ cutoff' = Never /\ account' = "gone"
    \/ /\ account = "recorded" /\ account' = account
       /\ \/ cutoff' = Latest(cutoff, clock)
          \/ \E t \in Threads : pc[t] \in Cutting /\ cutoff' = Latest(cutoff, read[t])

LEMMA CutoffsMove ==
    ASSUME [Next]_vars, ~Restart
    PROVE  MemoryRises /\ AccountRises
<1> USE DEF memory, database, MemoryRises, AccountRises, Cutting
<1>1. ASSUME NEW t \in Threads, NEW s \in Sessions
      PROVE  /\ \A k \in scenario.kinds : Mint(t, s, k) => MemoryRises /\ AccountRises
             /\ \A o \in Requests : Arrive(t, s, o) => MemoryRises /\ AccountRises
    BY DEF Mint, Arrive
<1>2. ASSUME NEW t \in Threads, LookUp(t) PROVE MemoryRises /\ AccountRises
    BY <1>2 DEF LookUp, CheckCached, AnswerUnchecked, AnswerOutdated, EndSessionsOf, Fetch, LookUpKind, ReadCutoff,
        Insert
<1>3. ASSUME NEW t \in Threads, Work(t) PROVE MemoryRises /\ AccountRises
    BY <1>3 DEF Work, Use, Persist, SkipPersist
<1>4. ASSUME NEW t \in Threads, SignOutSteps(t) PROVE MemoryRises /\ AccountRises
    BY <1>4 DEF SignOutSteps, SignOut, FirstPass, EndInMemory, SecondPass, EndRows, EndSessionsOf
<1>5. ASSUME NEW t \in Threads, Deletion(t) PROVE MemoryRises /\ AccountRises
    BY <1>5 DEF Deletion, BeginDeletion, DeleteRows, RevokeAccount, DeleteAgain
<1>6. ASSUME NEW t \in Threads, SignIn(t) PROVE MemoryRises /\ AccountRises
    BY <1>6 DEF SignIn, Recover, Upsert, Recheck, Issue, CreateSignedIn, Confirm
<1>7. CASE OutsideStep \/ Tick
    BY <1>7 DEF OutsideStep, Tick, OperatorEnds, EndRows, OperatorReadsBack, StoreFails, StoreAnswers, CollectGarbage,
        vars
<1> QED
    BY <1>1, <1>2, <1>3, <1>4, <1>5, <1>6, <1>7, OneStepsOrNone DEF ThreadStep

LEMMA TickIs ==
    ASSUME Tick
    PROVE  /\ clock' = clock + 1 /\ \A t \in Threads : pc[t] \notin Restoring
           /\ UNCHANGED <<kind, born, cached, endedIds, signedOutIds, memoryCutoff, deletedUntil, rows, account, cutoff,
                          pc, sid, op, own, copy, seen, read, acting, promised>>
BY DEF Tick, Restoring, identity, memory, database, locals, promises

\* No session becomes one of before while the process lives.
LEMMA OlderOnlyShrinks ==
    ASSUME EndingInv, [Next]_vars, ~Restart, NEW s \in Sessions, Older(s)'
    PROVE  Older(s) /\ born'[s] = born[s]
<1>s. SharedShape
    BY DEF EndingInv, Shape
<1>1. CASE Tick
  <2>1. clock \in Nat /\ born[s] \in Int
    BY <1>s DEF SharedShape
  <2>2. TooOld(s) => TooOld(s)'
    BY <1>1, <2>1, TickIs, TheLimits DEF TooOld
  <2> QED
    BY <1>1, <2>2, TickIs DEF Older, Noted, InCache
<1>2. CASE ~Tick
  <2>1. Moves(s) /\ clock' = clock
    BY <1>2, SessionsMove
  <2>2. ~Begins(s)
    BY <2>1, <1>s DEF Begins, Older, InCache, NotCached, SharedShape, Never
  <2>3. OldMoves(s) /\ kind'[s] = "signed_in" /\ kind[s] = "signed_in" /\ born'[s] = born[s]
    BY <2>1, <2>2 DEF Moves, OldMoves, Older
  <2>4. ~TooOld(s)
    BY <2>1, <2>3 DEF TooOld, Older
  <2>5. ~Noted(s)
    <3>1. clock # Never
      BY <1>s DEF SharedShape, Never
    <3> QED
      BY <2>3, <2>4, <3>1 DEF OldMoves, Settles, CacheSettles, NoteSettles, Noted, Older, IsRestored, IsUsed, IsWritten,
          SameNotes
  <2>6. ~(InCache(s) /\ cached[s].as = "signed_in")
    <3> SUFFICES ASSUME InCache(s), cached[s].as = "signed_in" PROVE FALSE
      OBVIOUS
    <3>1. CASE Settles(s)
      BY <2>3, <3>1 DEF Settles, CacheSettles, Leaves, Older, InCache
    <3>2. ASSUME NEW t \in Threads, IsUsed(t, s) \/ IsWritten(t, s) PROVE FALSE
      <4>1. cached'[s].as = "signed_in"
        BY <3>2, <1>s DEF IsUsed, IsWritten, SharedShape, CachedShape
      <4> QED
        BY <4>1 DEF Older, InCache, NotCached
    <3> QED
      BY <2>3, <3>1, <3>2 DEF OldMoves, IsRestored
  <2> QED
    BY <2>3, <2>4, <2>5, <2>6 DEF Older
<1> QED
    BY <1>1, <1>2

-----------------------------------------------------------------------------
(* The parts of the invariant that speak of a session.                       *)

\* A lapsed session was not used at this moment.
LEMMA LapsedWasUsedBefore ==
    ASSUME EndingInv, NEW s \in Sessions, InCache(s), Expired(s)
    PROVE  cached[s].used < clock
<1>1. /\ clock \in Nat /\ born[s] \in Int /\ cached[s].used \in Int
      /\ cached[s].used - born[s] <= MaxAge(HeldKind(s)) /\ cached[s].used <= clock
    BY DEF EndingInv, Shape, SharedShape, CachedShape, CachedIsLive, Moments
<1>2. IdleLimit(HeldKind(s)) \in Nat /\ MaxAge(HeldKind(s)) \in Nat
    BY TheLimits DEF IdleLimit, MaxAge
<1>3. clock - cached[s].used > IdleLimit(HeldKind(s)) \/ clock - born[s] > MaxAge(HeldKind(s))
    BY DEF Expired, ExpiredAt
<1> QED
    BY <1>1, <1>2, <1>3

\* What is left out of the cache was noted, or was there before the process.
LEMMA OutIsNotedOrOlder ==
    ASSUME NEW s, kind[s] = "signed_in", ~TooOld(s), ~(InCache(s) /\ cached[s].as = "signed_in")
    PROVE  Older(s) \/ Noted(s)
BY DEF Older

\* What memory refuses to restore it goes on refusing.
LEMMA RefusalStays ==
    ASSUME EndingInv, [Next]_vars, ~Restart, ~Tick, NEW s \in Sessions, ~Unborn(s), ~TooOld(s),
           EndedMeanwhile(s), ~(InCache(s) /\ cached[s].as = "signed_in")
    PROVE  EndedMeanwhile(s)'
<1>s. /\ memoryCutoff \in Int /\ \A t \in Threads : read[t] \in Int
      /\ clock \in Nat /\ born[s] \in 0 .. clock /\ deletedUntil \in Int /\ deletedUntil' \in Int
      /\ clock # Never
    BY ShapeOfTheShared DEF EndingInv, Shape, SharedShape, LocalsShape, Moments, Unborn, Never
<1>1. Moves(s) /\ clock' = clock /\ deletedUntil' >= deletedUntil
    BY SessionsMove
<1>2. OldMoves(s) /\ kind'[s] = kind[s] /\ born'[s] = born[s]
    BY <1>1 DEF Moves, OldMoves, Begins
<1>3. CASE Noted(s)
  <2>1. Noted(s)'
    BY <1>2, <1>3, <1>s DEF OldMoves, Settles, CacheSettles, NoteSettles, Noted, IsRestored, IsUsed, IsWritten, SameNotes
  <2> QED
    BY <2>1 DEF Noted, EndedMeanwhile
<1>4. CASE ~Noted(s) /\ WasDeleted /\ kind[s] = "signed_in"
    BY <1>1, <1>2, <1>4, <1>s DEF EndedMeanwhile, RefusedByMemory, WasDeleted
<1>5. CASE ~Noted(s) /\ born[s] <= memoryCutoff /\ kind[s] = "signed_in"
  <2>1. Older(s)
    BY <1>5, OutIsNotedOrOlder
  <2>2. \A t \in Threads : pc[t] \in Cutting => born[s] <= read[t]
    BY <2>1 DEF EndingInv, CutoffsCover, Covers, Cutting
  <2>3. born[s] <= memoryCutoff'
    BY <1>5, <2>2, <1>s, CutoffsMove DEF MemoryRises, Latest
  <2> QED
    BY <1>2, <1>5, <2>3 DEF EndedMeanwhile, RefusedByMemory
<1> QED
    BY <1>3, <1>4, <1>5 DEF EndedMeanwhile, RefusedByMemory, Noted

LEMMA MomentsOfSessions ==
    ASSUME EndingInv, [Next]_vars, ~Restart, NEW s \in Sessions
    PROVE  /\ rows'[s] <= clock' /\ cached'[s].used <= clock'
           /\ kind'[s] # "none" => born'[s] \in 0 .. clock'
           /\ endedIds'[s] # Never => born'[s] <= endedIds'[s]
           /\ signedOutIds'[s] # Never => born'[s] <= signedOutIds'[s]
<1>s. /\ clock \in Nat /\ born[s] \in Int /\ rows[s] \in Int /\ cached[s] \in CachedShape /\ cached[s].used \in Int
      /\ endedIds[s] \in Int /\ signedOutIds[s] \in Int
      /\ \A t \in Threads : copy[t] \in Int /\ copy[t] <= clock
      /\ rows[s] <= clock /\ cached[s].used <= clock
      /\ kind[s] # "none" => born[s] \in 0 .. clock
      /\ endedIds[s] # Never => born[s] <= endedIds[s]
      /\ signedOutIds[s] # Never => born[s] <= signedOutIds[s]
    BY DEF EndingInv, Shape, SharedShape, LocalsShape, CachedShape, Moments
<1>1. CASE Tick
    BY <1>1, <1>s, TickIs
<1>2. CASE ~Tick
  <2>1. Moves(s) /\ clock' = clock
    BY <1>2, SessionsMove
  <2>2. CASE Begins(s)
    BY <2>1, <2>2, <1>s DEF Begins, SameNotes, EndingInv, Births, Nowhere
  <2>3. CASE kind'[s] = kind[s] /\ born'[s] = born[s] /\ Settles(s)
    BY <2>1, <2>3, <1>s DEF Settles, CacheSettles, NoteSettles, RowSettles, Leaves, NotCached, Unborn, Never
  <2>4. ASSUME NEW t \in Threads, kind'[s] = kind[s], born'[s] = born[s], IsRestored(t, s) \/ IsUsed(t, s)
        PROVE  /\ rows'[s] <= clock' /\ cached'[s].used <= clock'
               /\ kind'[s] # "none" => born'[s] \in 0 .. clock'
               /\ endedIds'[s] # Never => born'[s] <= endedIds'[s]
               /\ signedOutIds'[s] # Never => born'[s] <= signedOutIds'[s]
    BY <2>1, <2>4, <1>s DEF IsRestored, IsUsed, SameNotes, CachedShape
  <2>5. ASSUME NEW t \in Threads, kind'[s] = kind[s], born'[s] = born[s], IsWritten(t, s)
        PROVE  /\ rows'[s] <= clock' /\ cached'[s].used <= clock'
               /\ kind'[s] # "none" => born'[s] \in 0 .. clock'
               /\ endedIds'[s] # Never => born'[s] <= endedIds'[s]
               /\ signedOutIds'[s] # Never => born'[s] <= signedOutIds'[s]
    BY <2>1, <2>5, <1>s DEF IsWritten, SameNotes, Latest, CachedShape
  <2> QED
    BY <2>1, <2>2, <2>3, <2>4, <2>5 DEF Moves, OldMoves
<1> QED
    BY <1>1, <1>2

LEMMA BirthsOfSessions ==
    ASSUME EndingInv, [Next]_vars, ~Restart, NEW s \in Sessions
    PROVE  /\ Unborn(s)' => Nowhere(s)'
           /\ ~Unborn(s)' => promised'[s] # "unborn"
           /\ kind'[s] = "sign_in_only" => rows'[s] = Never
           /\ ~Unborn(s) => kind'[s] = kind[s] /\ born'[s] = born[s]
<1>b. /\ Unborn(s) => Nowhere(s)
      /\ ~Unborn(s) => promised[s] # "unborn"
      /\ kind[s] = "sign_in_only" => rows[s] = Never
      /\ kind[s] \in SessionKind
    BY DEF EndingInv, Births, KeptInMemory, Shape, SharedShape
<1>p. promised'[s] = promised[s] \/ Begins(s) \/ Ends(s)
    BY PromisesMove
<1>1. CASE Tick
    BY <1>1, <1>b, TickIs DEF Unborn, Nowhere, InCache
<1>2. CASE ~Tick
  <2>1. Moves(s)
    BY <1>2, SessionsMove
  <2>2. CASE Begins(s)
    BY <2>2, <1>b DEF Begins, Unborn, Nowhere
  <2>3. CASE ~Begins(s)
    <3>1. OldMoves(s) /\ kind'[s] = kind[s] /\ born'[s] = born[s]
      BY <2>1, <2>3 DEF Moves, OldMoves
    <3>2. ASSUME Unborn(s) PROVE Nowhere(s)'
      <4>1. Settles(s)
        <5>1. ASSUME NEW t \in Threads PROVE ~IsRestored(t, s) /\ ~IsUsed(t, s) /\ ~IsWritten(t, s)
          BY <3>2 DEF EndingInv, Births, IsRestored, IsUsed, IsWritten
        <5> QED
          BY <3>1, <5>1 DEF OldMoves
      <4>2. ~TooOld(s) \/ TooOld(s)
        OBVIOUS
      <4> QED
        BY <4>1, <3>2, <1>b, <1>p, <2>3 DEF Settles, CacheSettles, NoteSettles, RowSettles, Leaves, Nowhere, InCache, Ends
    <3>3. ~Unborn(s) => promised'[s] # "unborn"
      BY <1>b, <1>p, <2>3 DEF Ends
    <3>4. kind[s] = "sign_in_only" => rows'[s] = Never
      BY <3>1, <1>b DEF OldMoves, Settles, RowSettles, IsRestored, IsUsed, IsWritten
    <3> QED
      BY <3>1, <3>2, <3>3, <3>4 DEF Unborn
  <2> QED
    BY <2>2, <2>3
<1> QED
    BY <1>1, <1>2

LEMMA CacheStaysLive ==
    ASSUME EndingInv, [Next]_vars, ~Restart, NEW s \in Sessions
    PROVE  CachedIsLive(s)'
<1> SUFFICES ASSUME InCache(s)'
             PROVE  /\ promised'[s] = "live" /\ cached'[s].as \in HeldAs
                    /\ cached'[s].as = "sign_in_only" => kind'[s] = "sign_in_only"
                    /\ cached'[s].used - born'[s] <= MaxAge(HeldKind(s))'
                    /\ rows'[s] <= cached'[s].used \/ rows'[s] < clock'
    BY DEF CachedIsLive
<1>s. /\ clock \in Nat /\ born[s] \in Int /\ rows[s] \in Int /\ cached[s] \in CachedShape
      /\ cached \in [Sessions -> CachedShape]
      /\ rows[s] <= clock /\ cached[s].used <= clock
      /\ kind[s] # "none" => born[s] \in 0 .. clock
      /\ cached[s] \in CachedShape => cached[s].used \in Int
    BY DEF EndingInv, Shape, SharedShape, CachedShape, Moments
<1>m. \A k : MaxAge(k) \in Nat
    BY TheLimits DEF MaxAge
<1>l. InCache(s) => CachedIsLive(s)
    BY DEF EndingInv
<1>h. HeldKind(s)' = IF cached'[s].as = "unknown" THEN "signed_in" ELSE cached'[s].as
    BY DEF HeldKind
<1>a. \A k : MaxAge(k)' = MaxAge(k)
    BY DEF MaxAge
<1>p. promised'[s] = promised[s] \/ Begins(s)
    BY PromisesMove DEF Ends
<1>1. CASE Tick
    BY <1>1, <1>s, <1>l, TickIs DEF CachedIsLive, InCache, HeldKind, MaxAge
<1>2. CASE ~Tick
  <2>1. Moves(s) /\ clock' = clock
    BY <1>2, SessionsMove
  <2>2. CASE Begins(s)
    <3>1. kind'[s] \in {"anonymous", "sign_in_only", "signed_in"} /\ cached'[s].as = kind'[s] /\ cached'[s].used = clock
          /\ born'[s] = clock /\ promised'[s] = "live" /\ rows'[s] = rows[s]
      BY <2>2 DEF Begins
    <3> QED
      BY <3>1, <1>s, <1>m, <1>a, <2>1 DEF HeldAs, MaxAge, HeldKind
  <2>3. CASE ~Begins(s)
    <3>1. OldMoves(s) /\ born'[s] = born[s] /\ kind'[s] = kind[s] /\ promised'[s] = promised[s]
      BY <2>1, <2>3, <1>p DEF Moves, OldMoves
    <3>2. CASE Settles(s)
      <4>1. cached'[s] = cached[s] /\ (rows'[s] = rows[s] \/ rows'[s] = Never) /\ InCache(s)
        BY <3>2 DEF Settles, CacheSettles, RowSettles, Leaves, InCache
      <4>2. HeldKind(s)' = HeldKind(s)
        BY <4>1 DEF HeldKind
      <4> QED
        BY <2>1, <3>1, <4>1, <4>2, <1>s, <1>l, <1>a DEF CachedIsLive, Never
    <3>3. ASSUME NEW t \in Threads, IsRestored(t, s)
          PROVE  /\ promised'[s] = "live" /\ cached'[s].as \in HeldAs
                 /\ cached'[s].as = "sign_in_only" => kind'[s] = "sign_in_only"
                 /\ cached'[s].used - born'[s] <= MaxAge(HeldKind(s))'
                 /\ rows'[s] <= cached'[s].used \/ rows'[s] < clock'
      <4>1. /\ SeesTheEnd(t) /\ pc[t] \in Restoring /\ sid[t] = s /\ copy[t] \in Int /\ copy[t] <= clock
            /\ seen[t] \in {"anonymous", "signed_in", "unknown"} /\ promised[s] # "unborn"
            /\ promised[s] \in {"unborn", "live"} \cup Over
        BY <3>3 DEF IsRestored, EndingInv, Restoring, Holds, Births, Moments, Shape, SharedShape, LocalsShape
      <4>2. promised[s] = "live" /\ (rows[s] <= copy[t] \/ rows[s] < clock)
        BY <3>3, <4>1 DEF SeesTheEnd, IsRestored
      <4>3. cached'[s].as = seen[t] /\ cached'[s].used = copy[t] /\ rows'[s] = rows[s]
        BY <3>3 DEF IsRestored
      <4>4. clock - born[s] <= MaxAge(HeldKind(s)')
        <5>1. HeldKind(s)' = IF seen[t] = "unknown" THEN "signed_in" ELSE seen[t]
          BY <4>3, <1>h
        <5> DEFINE k == IF seen[t] = "unknown" THEN "signed_in" ELSE seen[t]
        <5>2. ~ExpiredAt(k, copy[t], s)
          BY <3>3 DEF IsRestored
        <5>3. MaxAge(k) \in Nat
          BY <1>m
        <5> HIDE DEF k
        <5>4. clock - born[s] <= MaxAge(k)
          BY <5>2, <5>3, <1>s DEF ExpiredAt
        <5> QED
          BY <5>1, <5>4 DEF k
      <4>5. MaxAge(HeldKind(s))' = MaxAge(HeldKind(s)')
        BY DEF MaxAge
      <4>6. MaxAge(HeldKind(s)') \in Nat
        BY TheLimits DEF MaxAge
      <4> QED
        BY <2>1, <3>1, <4>1, <4>2, <4>3, <4>4, <4>5, <4>6, <1>s DEF HeldAs
    <3>4. ASSUME NEW t \in Threads, IsUsed(t, s)
          PROVE  /\ promised'[s] = "live" /\ cached'[s].as \in HeldAs
                 /\ cached'[s].as = "sign_in_only" => kind'[s] = "sign_in_only"
                 /\ cached'[s].used - born'[s] <= MaxAge(HeldKind(s))'
                 /\ rows'[s] <= cached'[s].used \/ rows'[s] < clock'
      <4>1. InCache(s)
        BY <3>4 DEF IsUsed, EndingInv, Holds
      <4>2. cached'[s].as = cached[s].as /\ cached'[s].used = clock /\ rows'[s] = rows[s]
        BY <3>4, <1>s DEF IsUsed, CachedShape
      <4>3. HeldKind(s)' = HeldKind(s)
        BY <4>2 DEF HeldKind
      <4>4. clock - born[s] <= MaxAge(HeldKind(s))
        BY <3>4, <1>s, <1>m DEF IsUsed, Expired, ExpiredAt
      <4> QED
        BY <2>1, <3>1, <4>1, <4>2, <4>3, <4>4, <1>s, <1>l, <1>a DEF CachedIsLive
    <3>5. ASSUME NEW t \in Threads, IsWritten(t, s)
          PROVE  /\ promised'[s] = "live" /\ cached'[s].as \in HeldAs
                 /\ cached'[s].as = "sign_in_only" => kind'[s] = "sign_in_only"
                 /\ cached'[s].used - born'[s] <= MaxAge(HeldKind(s))'
                 /\ rows'[s] <= cached'[s].used \/ rows'[s] < clock'
      <4>1. InCache(s) /\ copy[t] <= cached[s].used /\ copy[t] \in Int
        BY <3>5 DEF IsWritten, EndingInv, Holds, Shape, LocalsShape
      <4>2. cached'[s].as = cached[s].as /\ cached'[s].used = cached[s].used
        BY <3>5, <1>s DEF IsWritten, CachedShape
      <4>3. rows'[s] \in {rows[s], cached[s].used}
        BY <3>5, <4>1, <1>s DEF IsWritten, Latest
      <4>4. HeldKind(s)' = HeldKind(s)
        BY <4>2 DEF HeldKind
      <4> QED
        BY <2>1, <3>1, <4>1, <4>2, <4>3, <4>4, <1>s, <1>l, <1>a DEF CachedIsLive
    <3> QED
      BY <3>1, <3>2, <3>3, <3>4, <3>5 DEF OldMoves
  <2> QED
    BY <2>2, <2>3
<1> QED
    BY <1>1, <1>2

LEMMA EndedStaysBarred ==
    ASSUME EndingInv, [Next]_vars, ~Restart, NEW s \in Sessions
    PROVE  EndedIsBarred(s)'
<1>s. /\ clock \in Nat /\ born[s] \in Int /\ rows[s] \in Int /\ memoryCutoff \in Int /\ deletedUntil \in Int
      /\ deletedUntil' \in Int /\ memoryCutoff' \in Int /\ clock # Never
      /\ \A t \in Threads : read[t] \in Int
    BY ShapeOfTheShared DEF EndingInv, Shape, SharedShape, LocalsShape, Never
<1>e. EndedIsBarred(s) /\ (promised[s] \in Over => ~InCache(s))
    BY DEF EndingInv, CachedIsLive, Over
<1>p. promised'[s] = promised[s] \/ Begins(s) \/ Ends(s)
    BY PromisesMove
<1>1. CASE Tick
  <2>1. /\ clock' = clock + 1
        /\ UNCHANGED <<kind, born, endedIds, signedOutIds, memoryCutoff, deletedUntil, rows, promised>>
    BY <1>1, TickIs
  <2>2. TooOld(s) => TooOld(s)'
    BY <2>1, <1>s, TheLimits DEF TooOld
  <2>3. Noted(s)' = Noted(s)
    BY <2>1 DEF Noted
  <2>4. Barred(s) => Barred(s)'
    BY <2>1, <2>2, <2>3 DEF Barred
  <2> QED
    BY <2>1, <2>4, <1>e DEF EndedIsBarred
<1>2. CASE ~Tick
  <2>1. Moves(s) /\ clock' = clock /\ deletedUntil' >= deletedUntil
    BY <1>2, SessionsMove
  <2>2. CASE Begins(s)
    BY <2>2 DEF Begins, EndedIsBarred, Over
  <2>3. CASE promised'[s] = promised[s] /\ promised[s] \in Over /\ ~Begins(s)
    <3>1. kind'[s] = kind[s] /\ born'[s] = born[s] /\ OldMoves(s)
      BY <2>1, <2>3 DEF Moves, OldMoves
    <3>2. Settles(s)
      <4>1. ASSUME NEW t \in Threads PROVE ~IsRestored(t, s) /\ ~IsUsed(t, s) /\ ~IsWritten(t, s)
        <5>1. ~own[t] \/ sid[t] # s
          BY <1>e, <2>3 DEF EndingInv, Holds
        <5>2. pc[t] = "insert" /\ sid[t] = s => EndedMeanwhile(s)
          BY <2>3 DEF EndingInv, SeesTheEnd, Restoring
        <5> QED
          BY <5>1, <5>2 DEF IsRestored, IsUsed, IsWritten
      <4> QED
        BY <3>1, <4>1 DEF OldMoves
    <3>3. rows'[s] = rows[s] \/ rows'[s] = Never
      BY <3>2 DEF Settles, RowSettles
    <3>4. promised'[s] = "ended" => rows'[s] = Never
      BY <2>3, <3>3, <1>e DEF EndedIsBarred
    <3>5. TooOld(s) => TooOld(s)'
      BY <2>1, <3>1 DEF TooOld
    <3>6. Noted(s) /\ ~TooOld(s) => Noted(s)'
      BY <3>2, <1>s DEF Settles, CacheSettles, NoteSettles, Noted
    <3>7. ASSUME kind[s] = "signed_in", born[s] <= memoryCutoff, ~TooOld(s), ~Noted(s)
          PROVE  born'[s] <= memoryCutoff'
      <4>1. Older(s)
        BY <3>7, <1>e, <2>3 DEF Older
      <4>2. \A t \in Threads : pc[t] \in Cutting => born[s] <= read[t]
        BY <4>1 DEF EndingInv, CutoffsCover, Covers, Cutting
      <4> QED
        BY <3>1, <3>7, <4>2, <1>s, CutoffsMove DEF MemoryRises, Latest
    <3>8. Barred(s)
      BY <2>3, <1>e DEF EndedIsBarred
    <3>9. Barred(s)'
      BY <2>1, <3>1, <3>3, <3>5, <3>6, <3>7, <3>8, <1>s, TheLimits DEF Barred
    <3> QED
      BY <3>4, <3>9 DEF EndedIsBarred
  <2>4. CASE promised'[s] = promised[s] /\ promised[s] \notin Over
    BY <2>4 DEF EndedIsBarred, Over
  <2>5. CASE Ends(s) /\ ~Begins(s)
    <3>1. /\ ~InCache(s)' /\ OldMoves(s) /\ kind'[s] = kind[s] /\ born'[s] = born[s]
          /\ promised'[s] = "ended" => rows'[s] = Never
      BY <2>1, <2>5 DEF Ends, Moves, OldMoves
    <3>2. CASE ByRevoking(s)
      <4>1. kind[s] = "sign_in_only" => rows'[s] = Never
        BY <3>1, BirthsOfSessions
      <4> QED
        BY <3>1, <3>2, <4>1 DEF ByRevoking, EndedIsBarred, Barred, Noted
    <3>3. ASSUME NEW t \in Threads, BySigningOutEverywhere(t, s) PROVE Barred(s)'
      BY <3>1, <3>3, <1>s DEF BySigningOutEverywhere, Barred
    <3>4. ASSUME NEW t \in Threads, ByDeleting(t, s) PROVE Barred(s)'
      <4>1. /\ kind[s] = "signed_in" /\ pc[t] = "delete again" /\ deletedUntil' = deletedUntil
            /\ ~InCache(s) /\ cached'[s] = cached[s]
        BY <3>1, <3>4 DEF ByDeleting, InCache
      <4>2. Settles(s)
        <5>1. ASSUME NEW u \in Threads PROVE ~IsRestored(u, s) /\ ~IsUsed(u, s) /\ ~IsWritten(u, s)
          <6>1. own[u] => sid[u] # s
            BY <4>1 DEF EndingInv, Holds
          <6>2. ~IsRestored(u, s)
            <7> SUFFICES ASSUME IsRestored(u, s) PROVE FALSE
              OBVIOUS
            <7>1. cached'[s].as \in {"anonymous", "signed_in", "unknown"}
              BY DEF IsRestored, EndingInv, Holds
            <7>2. NotCached.as = "none" /\ cached'[s] = NotCached
              BY <4>1 DEF InCache, NotCached
            <7>3. cached'[s].as = "none"
              BY <7>2
            <7> QED
              BY <7>1, <7>3
          <6> QED
            BY <6>1, <6>2 DEF IsUsed, IsWritten
        <5> QED
          BY <3>1, <5>1 DEF OldMoves
      <4>3. CASE TooOld(s)
        BY <2>1, <3>1, <4>3 DEF Barred, TooOld
      <4>4. CASE ~TooOld(s) /\ Noted(s)
        BY <4>2, <4>4, <1>s DEF Settles, CacheSettles, NoteSettles, Noted, Barred
      <4>5. CASE ~TooOld(s) /\ ~Noted(s)
        <5>1. Older(s)
          BY <4>1, <4>5 DEF Older
        <5>2. rows[s] = Never \/ rows[s] < deletedUntil - SessionTTL
          BY <4>1, <5>1 DEF EndingInv, WrittenBack
        <5> QED
          BY <3>1, <4>1, <4>2, <5>2 DEF Settles, RowSettles, Barred
      <4> QED
        BY <4>3, <4>4, <4>5
    <3> QED
      BY <2>5, <3>1, <3>2, <3>3, <3>4 DEF Ends, EndedIsBarred
  <2> QED
    BY <1>p, <2>2, <2>3, <2>4, <2>5
<1> QED
    BY <1>1, <1>2

-----------------------------------------------------------------------------
(* The parts of the invariant that speak of a thread which waits.            *)

BornParts(t) ==
    /\ pc[t] # "idle" => op[t] # "none" /\ sid[t] \in Sessions /\ ~Unborn(sid[t])
    /\ pc[t] = "idle" => ~own[t]

\* The object in the cache is never used earlier than it was.
LEMMA UseNeverFallsBack ==
    ASSUME EndingInv, [Next]_vars, ~Restart, NEW s \in Sessions, ~Unborn(s), InCache(s), cached'[s] # NotCached
    PROVE  cached'[s].used >= cached[s].used
<1>s. cached[s] \in CachedShape /\ cached[s].used \in Int /\ cached[s].used <= clock /\ clock \in Nat
    BY DEF EndingInv, Shape, SharedShape, CachedShape, Moments
<1>1. CASE Tick
    BY <1>1, <1>s, TickIs
<1>2. CASE ~Tick
  <2>1. OldMoves(s)
    BY <1>2, SessionsMove DEF Moves, Begins
  <2>2. CASE Settles(s)
    BY <2>2, <1>s DEF Settles, CacheSettles, Leaves
  <2>3. ASSUME NEW t \in Threads, IsRestored(t, s) \/ IsUsed(t, s) \/ IsWritten(t, s)
        PROVE  cached'[s].used >= cached[s].used
    BY <2>3, <1>s DEF IsRestored, IsUsed, IsWritten, CachedShape
  <2> QED
    BY <2>1, <2>2, <2>3 DEF OldMoves
<1> QED
    BY <1>1, <1>2

LEMMA WaitingHolds ==
    ASSUME EndingInv, [Next]_vars, ~Restart, NEW u \in Threads, Waits(u)
    PROVE  /\ BornParts(u)' /\ Holds(u)'
           /\ pc'[u] \in Restoring => kind'[sid'[u]] # "sign_in_only"
<1>s. BornParts(u) /\ Holds(u) /\ (pc[u] \in Restoring => kind[sid[u]] # "sign_in_only")
    BY DEF EndingInv, Births, KeptInMemory, BornParts
<1>w. /\ pc'[u] = pc[u] /\ op'[u] = op[u] /\ sid'[u] = sid[u] /\ copy'[u] = copy[u]
      /\ seen'[u] = seen[u] /\ acting'[u] = acting[u] /\ (own'[u] => own[u] /\ InCache(sid[u])')
    BY DEF Waits, SameLocals
<1>1. pc[u] # "idle" => sid[u] \in Sessions /\ kind'[sid[u]] = kind[sid[u]] /\ ~Unborn(sid[u])
    BY <1>s, BirthsOfSessions DEF BornParts
<1>2. own'[u] => pc[u] # "idle" /\ InCache(sid[u]) /\ cached'[sid[u]] # NotCached
    BY <1>s, <1>w DEF BornParts, Holds, InCache
<1>3. own'[u] /\ pc[u] = "persist" => copy'[u] <= cached'[sid'[u]].used
  <2> SUFFICES ASSUME own'[u], pc[u] = "persist" PROVE copy'[u] <= cached'[sid'[u]].used
    OBVIOUS
  <2>1. cached'[sid[u]].used >= cached[sid[u]].used
    BY <1>1, <1>2, UseNeverFallsBack
  <2>2. copy[u] <= cached[sid[u]].used /\ sid'[u] = sid[u] /\ copy'[u] = copy[u]
    BY <1>s, <1>w DEF Holds
  <2>3. copy[u] \in Int /\ cached[sid[u]].used \in Int /\ cached'[sid[u]].used \in Int
    BY <1>1, ShapeOfTheShared DEF EndingInv, Shape, SharedShape, LocalsShape, CachedShape
  <2> QED
    BY <2>1, <2>2, <2>3
<1>5. Holds(u)'
    BY <1>s, <1>w, <1>2, <1>3 DEF Holds, InCache
<1>6. BornParts(u)'
    BY <1>s, <1>w, <1>1 DEF BornParts, Unborn
<1> QED
    BY <1>s, <1>w, <1>1, <1>5, <1>6 DEF Restoring, Unborn

-----------------------------------------------------------------------------
(* A lookup that reads the disk.                                             *)

GoesOnReading(v) == pc[v] \in Restoring /\ sid'[v] = sid[v] /\ copy'[v] = copy[v]
ReadsTheRow(v) ==
    LET s == sid[v] IN
    /\ pc[v] = "fetch" /\ sid'[v] = s /\ copy'[v] = rows[s]
    /\ rows[s] # Never /\ clock - rows[s] <= SessionTTL /\ ~TooOld(s)
    /\ UNCHANGED <<identity, memory, database, clock, promised>>

\* A row that is younger than the deletion was read while memory refuses its account.
LEMMA YoungRowOfDeleted ==
    ASSUME EndingInv, NEW s \in Sessions, kind[s] = "signed_in", clock - rows[s] <= SessionTTL,
           rows[s] < deletedUntil - SessionTTL
    PROVE  EndedMeanwhile(s)
<1>1. clock \in Nat /\ rows[s] \in Int /\ deletedUntil \in Int
    BY DEF EndingInv, Shape, SharedShape
<1>2. deletedUntil > clock
    BY <1>1, TheLimits
<1> QED
    BY <1>2 DEF EndedMeanwhile, RefusedByMemory, WasDeleted

\* What a step leaves in the cache, when it keeps the session's birth.
LEMMA CacheAfter ==
    ASSUME EndingInv, NEW s \in Sessions, OldMoves(s)
    PROVE  Settles(s) \/ cached'[s] # NotCached
<1>1. \A t \in Threads : own[t] /\ s = sid[t] => cached[s].as \in HeldAs
    BY DEF EndingInv, Holds, CachedIsLive
<1>2. \A t \in Threads : pc[t] = "insert" => seen[t] \in HeldAs
    BY DEF EndingInv, Holds, HeldAs
<1>3. cached[s] \in CachedShape
    BY DEF EndingInv, Shape, SharedShape
<1>4. ASSUME NEW t \in Threads, IsRestored(t, s) \/ IsUsed(t, s) \/ IsWritten(t, s) PROVE cached'[s] # NotCached
  <2>1. cached'[s].as \in HeldAs
    BY <1>1, <1>2, <1>3, <1>4 DEF IsRestored, IsUsed, IsWritten, CachedShape
  <2>2. NotCached.as = "none" /\ "none" \notin HeldAs
    BY DEF NotCached, HeldAs
  <2> QED
    BY <2>1, <2>2
<1> QED
    BY <1>4 DEF OldMoves

\* A row that may be younger than what a lookup read belongs to a cached session,
\* or it was written before this moment, or its end was noted.
LEMMA LeavingIsTold ==
    ASSUME EndingInv, NEW s \in Sessions, Leaves(s), kind[s] # "sign_in_only"
    PROVE  Noted(s)' \/ rows[s] < clock
<1>1. /\ clock \in Nat /\ rows[s] \in Int /\ cached[s].used \in Int
      /\ InCache(s) /\ (rows[s] <= cached[s].used \/ rows[s] < clock)
    BY DEF EndingInv, Shape, SharedShape, CachedShape, CachedIsLive, Leaves
<1>2. Expired(s) => cached[s].used < clock
    BY <1>1, LapsedWasUsedBefore
<1> QED
    BY <1>1, <1>2 DEF Leaves

LEMMA ReaderSeesTheEnd ==
    ASSUME EndingInv, [Next]_vars, ~Restart, ~Tick, NEW v \in Threads, pc'[v] \in Restoring,
           GoesOnReading(v) \/ ReadsTheRow(v)
    PROVE  SeesTheEnd(v)' /\ kind'[sid'[v]] # "sign_in_only"
<1>s. SharedShape /\ LocalsShape /\ SharedShape'
    BY ShapeOfTheShared DEF EndingInv, Shape
<1>1. PICK s \in Sessions : s = sid[v] /\ ~Unborn(s)
    BY DEF GoesOnReading, ReadsTheRow, Restoring, EndingInv, Births
<1>2. /\ Moves(s) /\ clock' = clock /\ kind'[s] = kind[s] /\ born'[s] = born[s] /\ sid'[v] = s
    BY <1>1, SessionsMove, BirthsOfSessions DEF GoesOnReading, ReadsTheRow
<1>n. /\ clock \in Nat /\ rows[s] \in Int /\ rows'[s] \in Int /\ copy[v] \in Int /\ born[s] \in Int /\ copy'[v] \in Int
    BY <1>s, ShapeOfLocals DEF SharedShape, LocalsShape, EndingInv, Shape
<1>3. CASE GoesOnReading(v)
  <2>1. /\ ~TooOld(s) /\ clock - copy[v] <= SessionTTL
        /\ promised[s] \in Over => EndedMeanwhile(s)
        /\ InCache(s) \/ rows[s] <= copy[v] \/ rows[s] < clock \/ EndedMeanwhile(s)
        /\ kind[s] # "sign_in_only"
    BY <1>1, <1>3 DEF GoesOnReading, EndingInv, SeesTheEnd, KeptInMemory
  <2>2. OldMoves(s)
    BY <1>1, <1>2 DEF Moves, Begins
  <2>3. EndedMeanwhile(s) /\ ~(InCache(s) /\ cached[s].as = "signed_in") => EndedMeanwhile(s)'
    BY <1>1, <2>1, RefusalStays
  <2>4. promised'[s] \in Over => EndedMeanwhile(s)'
    <3> SUFFICES ASSUME promised'[s] \in Over PROVE EndedMeanwhile(s)'
      OBVIOUS
    <3>1. CASE promised[s] \in Over /\ promised'[s] = promised[s]
      <4>1. ~InCache(s)
        BY <3>1 DEF EndingInv, CachedIsLive, Over
      <4> QED
        BY <2>1, <2>3, <3>1, <4>1
    <3>2. CASE Ends(s) /\ ByRevoking(s)
      BY <2>1, <3>2 DEF ByRevoking, EndedMeanwhile
    <3>3. ASSUME NEW t \in Threads, BySigningOutEverywhere(t, s) PROVE EndedMeanwhile(s)'
      <4>1. read[t] \in Int /\ memoryCutoff' \in Int
        BY <1>s DEF LocalsShape, SharedShape
      <4>2. kind'[s] = "signed_in" /\ born'[s] <= memoryCutoff'
        BY <1>2, <1>n, <3>3, <4>1 DEF BySigningOutEverywhere
      <4> QED
        BY <4>2 DEF EndedMeanwhile, RefusedByMemory
    <3>4. ASSUME NEW t \in Threads, Ends(s), ByDeleting(t, s) PROVE EndedMeanwhile(s)'
      <4>1. kind[s] = "signed_in" /\ pc[t] = "delete again" /\ ~InCache(s)
        BY <3>4 DEF Ends, ByDeleting, InCache
      <4>2. Older(s) => EndedMeanwhile(s)
        BY <1>1, <1>3, <4>1 DEF EndingInv, WrittenBack, GoesOnReading
      <4>3. Noted(s) => EndedMeanwhile(s)
        BY DEF Noted, EndedMeanwhile
      <4>4. EndedMeanwhile(s)
        BY <2>1, <4>1, <4>2, <4>3, OutIsNotedOrOlder
      <4> QED
        BY <2>3, <4>1, <4>4
    <3> QED
      BY <1>1, PromisesMove, <3>1, <3>2, <3>3, <3>4 DEF Begins, Ends, Over
  <2>5. cached'[s] # NotCached \/ rows'[s] <= copy[v] \/ rows'[s] < clock \/ EndedMeanwhile(s)'
    <3> SUFFICES ASSUME cached'[s] = NotCached
                 PROVE  rows'[s] <= copy[v] \/ rows'[s] < clock \/ EndedMeanwhile(s)'
      OBVIOUS
    <3>1. Settles(s)
      BY <2>2, CacheAfter
    <3>2. rows'[s] = rows[s] \/ rows'[s] = -1
      BY <3>1 DEF Settles, RowSettles, Never
    <3>3. CASE Leaves(s)
      <4>1. Noted(s)' \/ rows[s] < clock
        BY <2>1, <3>3, LeavingIsTold
      <4> QED
        BY <3>2, <4>1, <1>n DEF Noted, EndedMeanwhile
    <3>4. CASE ~InCache(s)
      BY <2>1, <2>3, <3>2, <3>4, <1>n
    <3> QED
      BY <3>1, <3>3, <3>4 DEF Settles, CacheSettles, InCache
  <2>6. ~TooOld(s)' /\ clock' - copy'[v] <= SessionTTL
    BY <1>2, <1>3, <2>1 DEF TooOld, GoesOnReading
  <2> QED
    BY <1>1, <1>2, <1>3, <2>1, <2>4, <2>5, <2>6 DEF SeesTheEnd, GoesOnReading, InCache, TooOld, EndedMeanwhile,
       RefusedByMemory, WasDeleted
<1>4. CASE ReadsTheRow(v)
  <2>1. /\ rows[s] # Never /\ clock - rows[s] <= SessionTTL /\ ~TooOld(s)
        /\ UNCHANGED <<identity, memory, database, clock, promised>> /\ copy'[v] = rows[s]
    BY <1>1, <1>4 DEF ReadsTheRow
  <2>2. kind[s] # "sign_in_only"
    BY <2>1 DEF EndingInv, KeptInMemory
  <2>3. promised[s] \in Over => EndedMeanwhile(s)
    <3>1. promised[s] \in Over => Barred(s)
      BY DEF EndingInv, EndedIsBarred
    <3> QED
      BY <2>1, <3>1, YoungRowOfDeleted DEF Barred, Noted, EndedMeanwhile, RefusedByMemory
  <2>4. UNCHANGED <<kind, born, endedIds, signedOutIds, memoryCutoff, deletedUntil, rows, clock, promised>>
    BY <2>1 DEF identity, memory, database
  <2>5. rows'[s] <= copy'[v] /\ clock' - copy'[v] <= SessionTTL
    BY <2>1, <2>4, <1>n
  <2>6. ~TooOld(s)' /\ (promised'[s] \in Over => EndedMeanwhile(s)')
    BY <2>1, <2>3, <2>4 DEF TooOld, EndedMeanwhile, RefusedByMemory, WasDeleted
  <2> QED
    BY <1>2, <2>2, <2>4, <2>5, <2>6 DEF SeesTheEnd, TooOld, EndedMeanwhile, RefusedByMemory, WasDeleted
<1> QED
    BY <1>3, <1>4

-----------------------------------------------------------------------------
(* A deletion that waits, and the cutoffs.                                   *)

\* While it waits to revoke the account, a row as young as this moment is a
\* cached session's.
LEMMA RowsBehindRevocation ==
    ASSUME EndingInv, [Next]_vars, ~Restart, NEW s \in Sessions,
           kind[s] = "signed_in" => InCache(s) \/ rows[s] < clock \/ TooOld(s) \/ Noted(s)
    PROVE  kind'[s] = "signed_in" =>
              cached'[s] # NotCached \/ rows'[s] < clock' \/ TooOld(s)' \/ Noted(s)'
<1>s. /\ clock \in Nat /\ rows[s] \in Int /\ born[s] \in Int /\ rows[s] <= clock /\ clock # Never
    BY DEF EndingInv, Shape, SharedShape, Moments, Never
<1>1. CASE Tick
    BY <1>1, <1>s, TickIs
<1>2. CASE ~Tick
  <2>1. Moves(s) /\ clock' = clock
    BY <1>2, SessionsMove
  <2>2. CASE Begins(s)
    <3>1. cached'[s].used = clock /\ NotCached.used = -1
      BY <2>2 DEF Begins, NotCached, Never
    <3> QED
      BY <3>1, <1>s
  <2>3. CASE OldMoves(s)
    <3> SUFFICES ASSUME kind'[s] = "signed_in", cached'[s] = NotCached
                 PROVE  rows'[s] < clock' \/ TooOld(s)' \/ Noted(s)'
      OBVIOUS
    <3>1. Settles(s) /\ kind[s] = "signed_in" /\ born'[s] = born[s]
      BY <2>3, CacheAfter DEF OldMoves
    <3>2. rows'[s] = rows[s] \/ rows'[s] = -1
      BY <3>1 DEF Settles, RowSettles, Never
    <3>3. TooOld(s) => TooOld(s)'
      BY <2>1, <3>1 DEF TooOld
    <3>4. Noted(s) /\ ~TooOld(s) => Noted(s)'
      BY <3>1, <1>s DEF Settles, CacheSettles, NoteSettles, Noted
    <3>5. Leaves(s) => Noted(s)' \/ rows[s] < clock
      BY <3>1, LeavingIsTold
    <3>6. Leaves(s) \/ ~InCache(s)
      BY <3>1 DEF Settles, CacheSettles, InCache
    <3> QED
      BY <2>1, <3>1, <3>2, <3>3, <3>4, <3>5, <3>6, <1>s
  <2> QED
    BY <2>1, <2>2, <2>3 DEF Moves
<1> QED
    BY <1>1, <1>2

LEMMA WaitingDeletes ==
    ASSUME EndingInv, [Next]_vars, ~Restart, NEW u \in Threads, Waits(u),
           \A v \in Threads : pc'[v] \in Restoring => Tick \/ GoesOnReading(v) \/ ReadsTheRow(v)
    PROVE  WrittenBack(u)'
<1>w. pc'[u] = pc[u]
    BY DEF Waits, SameLocals
<1>1. ASSUME pc[u] = "revoke account"
      PROVE  \A s \in Sessions : kind'[s] = "signed_in" =>
                cached'[s] # NotCached \/ rows'[s] < clock' \/ TooOld(s)' \/ Noted(s)'
    BY <1>1, RowsBehindRevocation DEF EndingInv, WrittenBack
<1>2. ASSUME pc[u] = "delete again", NEW s \in Sessions, Older(s)'
      PROVE  cached'[s] = NotCached /\ (rows'[s] = Never \/ rows'[s] < deletedUntil' - SessionTTL)
  <2>1. Older(s) /\ ~InCache(s) /\ (rows[s] = Never \/ rows[s] < deletedUntil - SessionTTL)
    BY <1>2, OlderOnlyShrinks DEF EndingInv, WrittenBack
  <2>2. CASE Tick
    BY <2>1, <2>2, TickIs DEF InCache
  <2>3. CASE ~Tick
    <3>1. Moves(s) /\ deletedUntil' >= deletedUntil
      BY <2>3, SessionsMove
    <3>2. OldMoves(s)
      BY <3>1, <2>1 DEF Moves, Begins, Older, Unborn
    <3>3. Settles(s)
      <4>1. ASSUME NEW t \in Threads PROVE ~IsRestored(t, s) /\ ~IsUsed(t, s) /\ ~IsWritten(t, s)
        <5>1. own[t] => sid[t] # s
          BY <2>1 DEF EndingInv, Holds
        <5>2. pc[t] = "insert" /\ sid[t] = s => EndedMeanwhile(s)
          BY <1>2, <2>1 DEF EndingInv, WrittenBack, Restoring
        <5> QED
          BY <5>1, <5>2 DEF IsRestored, IsUsed, IsWritten
      <4> QED
        BY <3>2, <4>1 DEF OldMoves
    <3>4. cached'[s] = NotCached /\ (rows'[s] = rows[s] \/ rows'[s] = Never)
      BY <2>1, <3>3 DEF Settles, CacheSettles, RowSettles, Leaves, InCache
    <3>5. rows[s] \in Int /\ deletedUntil \in Int /\ deletedUntil' \in Int /\ SessionTTL \in Nat
      BY ShapeOfTheShared, TheLimits DEF EndingInv, Shape, SharedShape
    <3> QED
      BY <2>1, <3>1, <3>4, <3>5
  <2> QED
    BY <2>2, <2>3
<1>3. ASSUME pc[u] = "delete again", NEW v \in Threads, pc'[v] \in Restoring, Older(sid[v])'
      PROVE  EndedMeanwhile(sid[v])'
  <2>1. ~Tick
    <3>1. Tick => pc'[v] = pc[v] /\ pc[v] \notin Restoring
      BY TickIs
    <3> QED
      BY <3>1, <1>3
  <2>2. GoesOnReading(v) \/ ReadsTheRow(v)
    BY <1>3, <2>1
  <2>3. PICK s \in Sessions : s = sid[v] /\ sid'[v] = s
    BY <2>2 DEF GoesOnReading, ReadsTheRow, Restoring, EndingInv, Births
  <2>4. Older(s)'
    BY <1>3, <2>3 DEF Older, TooOld, Noted, InCache
  <2>5. Older(s) /\ ~Unborn(s) /\ ~TooOld(s) /\ kind[s] = "signed_in" /\ ~(InCache(s) /\ cached[s].as = "signed_in")
    BY <2>4, OlderOnlyShrinks DEF Older, Unborn
  <2>6. EndedMeanwhile(s)
    <3>1. CASE GoesOnReading(v)
      BY <1>3, <2>3, <2>5, <3>1 DEF EndingInv, WrittenBack, GoesOnReading
    <3>2. CASE ReadsTheRow(v)
      <4>1. clock - rows[s] <= SessionTTL /\ rows[s] # Never
        BY <2>3, <3>2 DEF ReadsTheRow
      <4>2. rows[s] = Never \/ rows[s] < deletedUntil - SessionTTL
        BY <1>3, <2>5 DEF EndingInv, WrittenBack
      <4> QED
        BY <2>5, <4>1, <4>2, YoungRowOfDeleted
    <3> QED
      BY <2>2, <3>1, <3>2
  <2>7. EndedMeanwhile(s)'
    BY <2>1, <2>5, <2>6, RefusalStays
  <2> QED
    BY <2>3, <2>7 DEF EndedMeanwhile, RefusedByMemory, WasDeleted
<1> QED
    BY <1>w, <1>1, <1>2, <1>3 DEF WrittenBack, InCache

\* A cutoff past every session of before stays so.
LEMMA CoverageStays ==
    ASSUME EndingInv, [Next]_vars, ~Restart, NEW c \in Int, Covers(c)
    PROVE  \A s \in Sessions : Older(s)' => born'[s] <= c
BY OlderOnlyShrinks DEF Covers

LEMMA NowCovers ==
    ASSUME EndingInv, [Next]_vars, ~Restart
    PROVE  \A s \in Sessions : Older(s)' => born'[s] <= clock
<1>1. \A s \in Sessions : Older(s) => born[s] <= clock
    BY DEF EndingInv, Moments, Older
<1> QED
    BY <1>1, OlderOnlyShrinks

\* The account's cutoff either stays, or is past every session of before.
LEMMA AccountCutoffCovers ==
    ASSUME EndingInv, [Next]_vars, ~Restart
    PROVE  /\ cutoff' # Never => account' = "recorded"
           /\ cutoff' = cutoff \/ cutoff' = Never \/ \A s \in Sessions : Older(s)' => born'[s] <= cutoff'
           /\ cutoff' <= clock
<1>s. /\ cutoff \in Int /\ clock \in Nat /\ (cutoff # Never => account = "recorded") /\ cutoff <= clock
      /\ \A t \in Threads : read[t] \in Int /\ read[t] <= clock /\ (pc[t] \in Cutting => Covers(read[t]))
      /\ \A s \in Sessions : born'[s] \in Int
    BY ShapeOfTheShared DEF EndingInv, Shape, SharedShape, LocalsShape, CutoffsCover, Cutting, Moments
<1>1. AccountRises
    BY CutoffsMove
<1>2. cutoff' # Never => account' = "recorded"
    BY <1>1, <1>s DEF AccountRises
<1>3. CASE cutoff' = cutoff \/ cutoff' = Never
    BY <1>2, <1>3, <1>s DEF Never
<1>4. CASE cutoff' = Latest(cutoff, clock)
  <2>1. cutoff' = clock
    BY <1>4, <1>s DEF Latest
  <2> QED
    BY <1>2, <2>1, <1>s, NowCovers
<1>5. ASSUME NEW t \in Threads, pc[t] \in Cutting, cutoff' = Latest(cutoff, read[t])
      PROVE  cutoff' <= clock /\ \A s \in Sessions : Older(s)' => born'[s] <= cutoff'
  <2>1. cutoff' >= read[t] /\ cutoff' <= clock /\ cutoff' \in Int
    BY <1>5, <1>s DEF Latest
  <2>2. \A s \in Sessions : Older(s)' => born'[s] <= read[t]
    BY <1>5, <1>s, CoverageStays
  <2> QED
    BY <2>1, <2>2, <1>s
<1> QED
    BY <1>1, <1>2, <1>3, <1>4, <1>5 DEF AccountRises

LEMMA MemoryCutoffCovers ==
    ASSUME EndingInv, [Next]_vars, ~Restart
    PROVE  memoryCutoff' = Never \/ \A s \in Sessions : Older(s)' => born'[s] <= memoryCutoff'
<1>s. /\ memoryCutoff \in Int /\ (memoryCutoff = Never \/ Covers(memoryCutoff))
      /\ \A t \in Threads : read[t] \in Int /\ (pc[t] \in Cutting => Covers(read[t]))
    BY DEF EndingInv, Shape, SharedShape, LocalsShape, CutoffsCover, Cutting
<1>1. \A t \in Threads : Latest(memoryCutoff, read[t]) \in {memoryCutoff, read[t]}
    BY DEF Latest
<1>2. memoryCutoff' = memoryCutoff \/ \E t \in Threads : pc[t] \in Cutting /\ memoryCutoff' = read[t]
    BY <1>1, CutoffsMove DEF MemoryRises
<1> QED
    BY <1>2, <1>s, CoverageStays

\* The cutoff as the sessions in the cache meet it.
LEMMA CutoffsOfSessions ==
    ASSUME EndingInv, [Next]_vars, ~Restart, NEW q \in Sessions, cached'[q] # NotCached, Before(q, cutoff)'
    PROVE  \A s \in Sessions : Older(s)' => born'[s] <= cutoff'
<1>s. cutoff \in Int /\ clock \in Nat /\ cutoff <= clock /\ (kind'[q] # "none" => born'[q] \in 0 .. clock')
    BY MomentsOfSessions DEF EndingInv, Shape, SharedShape, Moments
<1>1. kind'[q] = "signed_in" /\ born'[q] <= cutoff'
    BY DEF Before
<1>2. cutoff' # Never
    BY <1>1, <1>s DEF Never
<1>3. CASE cutoff' = cutoff
  <2>1. CASE Tick
    <3>1. Covers(cutoff)
      BY <1>1, <1>3, <2>1, TickIs DEF EndingInv, CutoffsCover, InCache, Before
    <3> QED
      BY <1>3, <1>s, <3>1, CoverageStays
  <2>2. CASE ~Tick
    <3>1. Moves(q) /\ clock' = clock
      BY <2>2, SessionsMove
    <3>2. CASE Begins(q)
      <4>1. cutoff = clock
        BY <1>1, <1>3, <1>s, <3>2 DEF Begins
      <4> QED
        BY <1>3, <4>1, NowCovers
    <3>3. CASE OldMoves(q)
      <4>1. Before(q, cutoff)
        BY <1>1, <1>3, <3>3 DEF OldMoves, Before
      <4>2. Covers(cutoff)
        <5>1. CASE InCache(q)
          BY <4>1, <5>1 DEF EndingInv, CutoffsCover
        <5>2. CASE ~InCache(q)
          <6>1. ~Settles(q)
            BY <5>2 DEF Settles, CacheSettles, InCache, Leaves
          <6>2. PICK t \in Threads : IsRestored(t, q) \/ IsUsed(t, q) \/ IsWritten(t, q)
            BY <3>3, <6>1 DEF OldMoves
          <6>3. IsRestored(t, q)
            BY <5>2, <6>2 DEF IsUsed, IsWritten, EndingInv, Holds
          <6> QED
            BY <4>1, <6>3 DEF IsRestored, EndingInv, CutoffsCover
        <5> QED
          BY <5>1, <5>2
      <4> QED
        BY <1>3, <1>s, <4>2, CoverageStays
    <3> QED
      BY <3>1, <3>2, <3>3 DEF Moves
  <2> QED
    BY <2>1, <2>2
<1> QED
    BY <1>2, <1>3, AccountCutoffCovers

-----------------------------------------------------------------------------
(* The thread that takes the step.                                           *)

Plain == {"unread", "confirm", "revoke", "first pass", "begin deletion", "delete rows", "recover", "upsert",
          "recheck", "issue", "create"}

MovedTo(t) ==
    /\ pc'[t] # "idle" => op'[t] # "none" /\ sid'[t] \in Sessions /\ kind'[sid'[t]] # "none"
    /\ pc'[t] = "idle" => ~own'[t]
    /\ own'[t] => cached'[sid'[t]] # NotCached
    /\ own'[t] /\ pc'[t] = "persist" => copy'[t] <= cached'[sid'[t]].used
    /\ pc'[t] \in {"cutoff", "insert"} => seen'[t] \in {"anonymous", "signed_in", "unknown"}
    /\ pc'[t] \in BeforeUse => acting'[t] = NoSession
    /\ copy'[t] <= clock /\ read'[t] <= clock
    /\ pc'[t] \in Restoring => GoesOnReading(t) \/ ReadsTheRow(t)
    /\ pc'[t] \in Cutting =>
         \/ read'[t] = clock
         \/ read'[t] = read[t] /\ pc[t] \in Cutting
         \/ read'[t] = cutoff /\ pc[t] = "check" /\ Before(sid[t], cutoff)
    /\ pc'[t] \in {"check", "insert"} =>
         UNCHANGED <<kind, born, cutoff>> /\ (Before(sid'[t], cutoff) => Covers(cutoff))
    /\ pc'[t] = "revoke account" => \A s \in Sessions : kind'[s] = "signed_in" => rows'[s] = Never
    /\ pc'[t] = "delete again" => RevokeAccount(t)

LEMMA Apart ==
    /\ "idle" \notin Restoring \cup Cutting /\ "idle" \in BeforeUse
    /\ "use" \notin Restoring \cup Cutting /\ "persist" \notin Restoring \cup Cutting \cup BeforeUse
    /\ \A l \in Plain : /\ l \notin Restoring \cup Cutting
                        /\ l \notin {"idle", "persist", "check", "revoke account", "delete again"}
                        /\ l # "unread" => l \notin BeforeUse
    /\ \A l \in Restoring : l \in BeforeUse /\ l \notin Cutting
    /\ \A l \in {"check", "unread", "outdated", "fetch", "use"} : l \in BeforeUse /\ l \notin Restoring
    /\ "outdated" \in Cutting /\ "memory" \in Cutting /\ "second pass" \in Cutting
    /\ \A l \in {"memory", "second pass", "revoke account", "delete again"} : l \notin BeforeUse \cup Restoring
BY DEF Restoring, Cutting, BeforeUse, Plain

LEMMA AnsweredMoves ==
    ASSUME EndingInv, NEW t \in Threads, NEW S, Done(t, S)
    PROVE  MovedTo(t)
<1>1. /\ pc'[t] = "idle" /\ ~own'[t] /\ acting'[t] = NoSession /\ copy'[t] = -1 /\ read'[t] = -1
  <2>1. LocalsShape
    BY DEF EndingInv, Shape
  <2> QED
    BY <2>1 DEF Done, Goto, Locals, Never, LocalsShape, Disowned
<1>2. clock \in Nat
    BY DEF EndingInv, Shape, SharedShape
<1>3. copy'[t] <= clock /\ read'[t] <= clock
    BY <1>1, <1>2
<1>4. pc'[t] \notin Restoring /\ pc'[t] \notin Cutting
    BY <1>1, Apart
<1> QED
    BY <1>1, <1>3, <1>4 DEF MovedTo

LEMMA GoneOnMoves ==
    ASSUME EndingInv, NEW t \in Threads, pc[t] # "idle", NEW l \in Plain, Goto(t, l),
           op'[t] = op[t], sid'[t] = sid[t], copy'[t] <= clock, read'[t] <= clock, kind' = kind,
           own'[t] => cached'[sid[t]] # NotCached, l = "unread" => acting'[t] = NoSession
    PROVE  MovedTo(t)
<1>1. pc'[t] = l
    BY DEF Goto, EndingInv, Shape, LocalsShape
<1>2. op[t] # "none" /\ sid[t] \in Sessions /\ kind[sid[t]] # "none"
    BY DEF EndingInv, Births, Unborn
<1>3. l \notin {"cutoff", "insert"}
    BY Apart DEF Restoring
<1> QED
    BY <1>1, <1>2, <1>3, Apart DEF MovedTo

LEMMA RefusedMoves ==
    ASSUME EndingInv, NEW t \in Threads, NEW S, pc[t] # "idle", Refuse(t, S), kind' = kind
    PROVE  MovedTo(t)
<1>1. CASE Done(t, S)
    BY <1>1, AnsweredMoves
<1>2. CASE ~Done(t, S)
  <2>1. /\ Goto(t, "recover") /\ UNCHANGED <<op, sid, copy, read>>
        /\ own' = [Disowned(S) EXCEPT ![t] = FALSE]
    BY <1>2 DEF Refuse
  <2>2. ~own'[t]
    BY <2>1 DEF Disowned
  <2>3. copy[t] <= clock /\ read[t] <= clock
    BY DEF EndingInv, Moments
  <2> QED
    BY <2>1, <2>2, <2>3, GoneOnMoves DEF Plain
<1> QED
    BY <1>1, <1>2

LEMMA FoundMoves ==
    ASSUME EndingInv, NEW t \in Threads, pc[t] \in {"check", "insert"}, Found(t), kind' = kind,
           own'[t] => cached'[sid[t]] # NotCached
    PROVE  MovedTo(t)
<1>1. /\ pc'[t] \in {"upsert", "use"} /\ op'[t] = op[t] /\ sid'[t] = sid[t] /\ copy'[t] = -1 /\ read'[t] = -1
      /\ acting'[t] = acting[t]
  <2>1. LocalsShape
    BY DEF EndingInv, Shape
  <2> QED
    BY <2>1 DEF Found, Goto, Locals, Never, LocalsShape
<1>2. clock \in Nat /\ op[t] # "none" /\ sid[t] \in Sessions /\ kind[sid[t]] # "none" /\ acting[t] = NoSession
    BY DEF EndingInv, Shape, SharedShape, Births, Unborn, Holds, BeforeUse, Restoring
<1>3. "upsert" \in Plain
    BY DEF Plain
<1>4. copy'[t] <= clock /\ read'[t] <= clock
    BY <1>1, <1>2
<1>5. pc'[t] \notin Restoring /\ pc'[t] \notin Cutting
    BY <1>1, <1>3, Apart
<1> QED
    BY <1>1, <1>2, <1>4, <1>5 DEF MovedTo

LEMMA LookUpMovesThread ==
    ASSUME EndingInv, NEW t \in Threads, LookUp(t)
    PROVE  MovedTo(t)
<1> USE DEF identity, memory, database, locals
<1>s. SharedShape /\ LocalsShape
    BY DEF EndingInv, Shape
<1>a. /\ pc[t] # "idle" => op[t] # "none" /\ sid[t] \in Sessions /\ kind[sid[t]] # "none"
      /\ own[t] => InCache(sid[t])
      /\ copy[t] <= clock /\ read[t] <= clock /\ clock \in Nat
      /\ pc[t] \in {"cutoff", "insert"} => seen[t] \in {"anonymous", "signed_in", "unknown"}
      /\ pc[t] \in BeforeUse => acting[t] = NoSession
      /\ pc[t] \in {"check", "insert"} /\ Before(sid[t], cutoff) => Covers(cutoff)
      /\ cutoff <= clock
    BY <1>s DEF EndingInv, Births, Unborn, Holds, Moments, CutoffsCover, SharedShape
<1>1. CASE CheckCached(t)
  <2>1. pc[t] = "check" /\ UNCHANGED <<cached, own, kind, born, cutoff, clock>>
    BY <1>1 DEF CheckCached, world
  <2>2. own'[t] => cached'[sid[t]] # NotCached
    BY <2>1, <1>a DEF InCache
  <2>3. CASE Found(t)
    BY <2>1, <2>2, <2>3, FoundMoves
  <2>4. CASE Goto(t, "unread") /\ UNCHANGED <<op, sid, copy, read, acting>>
    BY <2>1, <2>2, <2>4, <1>a, GoneOnMoves, Apart DEF Plain
  <2>5. CASE Before(sid[t], cutoff) /\ read' = [read EXCEPT ![t] = cutoff] /\ Goto(t, "outdated")
             /\ UNCHANGED <<op, sid, copy, acting>>
    <3>1. pc'[t] = "outdated" /\ read'[t] = cutoff
      BY <2>5, <1>s DEF Goto, LocalsShape
    <3>2. pc'[t] \notin Restoring /\ acting[t] = NoSession
      BY <3>1, <2>1, <1>a, Apart
    <3> QED
      BY <2>1, <2>2, <2>5, <3>1, <3>2, <1>a DEF MovedTo
  <2> QED
    BY <1>1, <2>3, <2>4, <2>5 DEF CheckCached
<1>2. CASE AnswerUnchecked(t)
  <2>1. PICK S : Refuse(t, S)
    BY <1>2 DEF AnswerUnchecked
  <2> QED
    BY <1>2, <2>1, RefusedMoves DEF AnswerUnchecked
<1>3. CASE AnswerOutdated(t)
    BY <1>3, RefusedMoves DEF AnswerOutdated
<1>4. CASE Fetch(t)
  <2>1. pc[t] = "fetch" /\ UNCHANGED <<identity, memory, database, clock, promised, kind, cached>>
    BY <1>4 DEF Fetch, world
  <2>2. CASE Refuse(t, {})
    BY <2>1, <2>2, RefusedMoves
  <2>3. CASE ~Refuse(t, {})
    <3>1. /\ rows[sid[t]] # Never /\ clock - rows[sid[t]] <= SessionTTL /\ clock - born[sid[t]] <= AnonymousMaxAge
          /\ copy' = [copy EXCEPT ![t] = rows[sid[t]]] /\ Goto(t, "kind")
          /\ UNCHANGED <<op, sid, own, seen, read, acting>>
      BY <1>4, <2>3 DEF Fetch
    <3>2. pc'[t] = "kind" /\ copy'[t] = rows[sid[t]] /\ own'[t] = own[t]
      BY <3>1, <1>s DEF Goto, LocalsShape
    <3>3. ~TooOld(sid[t])
      <4>1. born[sid[t]] \in Int
        BY <2>1, <1>a, <1>s DEF SharedShape
      <4> QED
        BY <3>1, <4>1, <1>a, TheLimits DEF TooOld
    <3>4. ReadsTheRow(t)
      BY <2>1, <3>1, <3>2, <3>3 DEF ReadsTheRow
    <3>5. own'[t] => cached'[sid[t]] # NotCached
      BY <2>1, <3>1, <3>2, <1>a, Apart DEF EndingInv, Moments, InCache
    <3>6. copy'[t] <= clock /\ acting'[t] = NoSession /\ pc'[t] \notin Cutting
      BY <2>1, <3>1, <3>2, <1>a, Apart DEF EndingInv, Moments, Restoring
    <3> QED
      BY <2>1, <3>1, <3>2, <3>4, <3>5, <3>6, <1>a DEF MovedTo
  <2> QED
    BY <2>2, <2>3
<1>5. CASE LookUpKind(t) \/ ReadCutoff(t)
  <2>1. pc[t] \in {"kind", "cutoff"} /\ UNCHANGED <<cached, kind, born, cutoff>>
    BY <1>5 DEF LookUpKind, ReadCutoff
  <2>2. CASE Refuse(t, {})
    BY <2>1, <2>2, RefusedMoves
  <2>3. CASE ~Refuse(t, {})
    <3>1. UNCHANGED <<op, sid, own, copy, read, acting>>
      BY <1>5, <2>3 DEF LookUpKind, ReadCutoff
    <3>2. pc'[t] \in {"cutoff", "insert"}
      BY <1>5, <2>3, <1>s DEF LookUpKind, ReadCutoff, Goto, LocalsShape
    <3>3. seen'[t] \in {"anonymous", "signed_in", "unknown"}
      <4>1. CASE LookUpKind(t)
        <5>1. seen'[t] = KindRead(sid[t])
          BY <4>1, <2>3, <1>s DEF LookUpKind, LocalsShape
        <5> QED
          BY <5>1 DEF KindRead
      <4>2. CASE ReadCutoff(t)
        BY <4>2, <2>3, <1>a DEF ReadCutoff
      <4> QED
        BY <1>5, <4>1, <4>2
    <3>4. pc'[t] = "insert" => ~Before(sid[t], cutoff)
      <4>1. CASE LookUpKind(t)
        <5>1. pc'[t] = "insert" => KindRead(sid[t]) = "anonymous"
          BY <4>1, <2>3, <1>s DEF LookUpKind, Goto, LocalsShape
        <5>2. KindRead(sid[t]) = "anonymous" => kind[sid[t]] # "signed_in" \/ account # "recorded"
          BY DEF KindRead
        <5>3. account # "recorded" => cutoff = -1
          BY DEF EndingInv, CutoffsCover, Never
        <5>4. born[sid[t]] \in 0 .. clock
          BY <2>1, <1>a DEF EndingInv, Moments
        <5>5. cutoff = -1 => ~Before(sid[t], cutoff)
          BY <5>4, <1>a DEF Before
        <5> QED
          BY <5>1, <5>2, <5>3, <5>5 DEF Before
      <4>2. CASE ReadCutoff(t)
        BY <4>2, <2>3 DEF ReadCutoff
      <4> QED
        BY <1>5, <4>1, <4>2
    <3>5. own'[t] => cached'[sid'[t]] # NotCached
      BY <2>1, <3>1, <1>a, Apart DEF GoesOnReading, Restoring, InCache
    <3>6. GoesOnReading(t) /\ acting'[t] = NoSession /\ pc'[t] \notin Cutting
      BY <2>1, <3>1, <3>2, <1>a, Apart DEF GoesOnReading, Restoring
    <3> QED
      BY <2>1, <3>1, <3>2, <3>3, <3>4, <3>5, <3>6, <1>a DEF MovedTo
  <2> QED
    BY <2>2, <2>3
<1>6. CASE Insert(t)
  <2>1. pc[t] = "insert" /\ kind' = kind
    BY <1>6 DEF Insert
  <2>2. CASE Refuse(t, {})
    BY <2>1, <2>2, RefusedMoves
  <2>3. CASE ~Refuse(t, {})
    <3>1. /\ Found(t)
          /\ cached' = IF InCache(sid[t]) THEN cached
                       ELSE [cached EXCEPT ![sid[t]] = [used |-> copy[t], written |-> copy[t], as |-> seen[t]]]
      BY <1>6, <2>3 DEF Insert
    <3>2. cached'[sid[t]] # NotCached
      <4>1. CASE InCache(sid[t])
        BY <3>1, <4>1 DEF InCache
      <4>2. CASE ~InCache(sid[t])
        <5>1. cached'[sid[t]].as = seen[t]
          BY <2>1, <3>1, <4>2, <1>a, <1>s DEF SharedShape
        <5>2. NotCached.as = "none" /\ seen[t] # "none"
          BY <2>1, <1>a DEF NotCached
        <5> QED
          BY <5>1, <5>2
      <4> QED
        BY <4>1, <4>2
    <3> QED
      BY <2>1, <3>1, <3>2, FoundMoves
  <2> QED
    BY <2>2, <2>3
<1> QED
    BY <1>1, <1>2, <1>3, <1>4, <1>5, <1>6 DEF LookUp

LEMMA ContinuedMoves ==
    ASSUME EndingInv, NEW t \in Threads, pc[t] # "idle", Continue(t), kind' = kind,
           own'[t] => cached'[sid[t]] # NotCached
    PROVE  MovedTo(t)
<1>1. CASE Done(t, {})
    BY <1>1, AnsweredMoves
<1>2. CASE ~Done(t, {})
  <2>1. op[t] \in {"sign_out", "everywhere", "delete", "sign_in"}
    BY <1>2 DEF Continue, EndingInv, Shape, LocalsShape, Births, Requests
  <2>2. UNCHANGED locals /\ \E l \in {"revoke", "first pass", "begin deletion", "confirm"} : Goto(t, l)
    BY <1>2, <2>1 DEF Continue
  <2>3. copy[t] <= clock /\ read[t] <= clock
    BY DEF EndingInv, Moments
  <2> QED
    BY <2>2, <2>3, GoneOnMoves DEF locals, Plain
<1> QED
    BY <1>1, <1>2

LEMMA RequestsMoveThread ==
    ASSUME EndingInv, NEW t \in Threads, Work(t) \/ SignOutSteps(t) \/ Deletion(t)
    PROVE  MovedTo(t)
<1> USE DEF identity, memory, database, locals, world
<1>s. SharedShape /\ LocalsShape
    BY DEF EndingInv, Shape
<1>a. /\ pc[t] # "idle" => op[t] # "none" /\ sid[t] \in Sessions /\ kind[sid[t]] # "none"
      /\ own[t] => InCache(sid[t]) /\ cached[sid[t]].as \in HeldAs
      /\ copy[t] <= clock /\ read[t] <= clock /\ clock \in Nat
      /\ pc[t] = "idle" => ~own[t]
    BY <1>s DEF EndingInv, Births, Unborn, Holds, Moments, SharedShape, CachedIsLive
<1>n. NotCached.as = "none" /\ "none" \notin HeldAs
    BY DEF NotCached, HeldAs
<1>1. CASE Use(t)
  <2>1. ASSUME NEW S, Done(t, S) PROVE MovedTo(t)
    BY <2>1, AnsweredMoves
  <2>2. CASE own[t] /\ ~Expired(sid[t])
    <3>1. /\ pc[t] = "use" /\ kind' = kind
          /\ cached' = [cached EXCEPT ![sid[t]].used = clock] /\ copy' = [copy EXCEPT ![t] = clock]
          /\ Goto(t, "persist") /\ UNCHANGED <<op, sid, own, read>>
      BY <1>1, <2>2 DEF Use
    <3>2. cached'[sid[t]].used = clock /\ cached'[sid[t]].as \in HeldAs
      BY <3>1, <2>2, <1>s, <1>a DEF SharedShape, CachedShape
    <3>3. cached'[sid[t]] # NotCached
      BY <3>2, <1>n
    <3>4. pc'[t] = "persist" /\ copy'[t] = clock /\ pc'[t] \notin Restoring /\ pc'[t] \notin Cutting /\ pc'[t] \notin BeforeUse
      <4>1. pc'[t] = "persist" /\ copy'[t] = clock
        BY <3>1, <1>s DEF Goto, LocalsShape
      <4> QED
        BY <4>1, Apart
    <3>5. copy'[t] <= clock /\ copy'[t] <= cached'[sid[t]].used
      BY <3>2, <3>4, <1>a
    <3> QED
      BY <3>1, <3>3, <3>4, <3>5, <1>a DEF MovedTo
  <2> QED
    BY <1>1, <2>1, <2>2 DEF Use
<1>2. CASE Persist(t) \/ SkipPersist(t)
  <2>1. pc[t] = "persist" /\ Continue(t) /\ kind' = kind
    BY <1>2 DEF Persist, SkipPersist
  <2>2. own'[t] => own[t]
    <3>1. Done(t, {}) => ~own'[t]
      BY DEF Done, Disowned
    <3>2. ~Done(t, {}) => own' = own
      BY <2>1 DEF Continue
    <3> QED
      BY <3>1, <3>2
  <2>3. own[t] => cached'[sid[t]] # NotCached
    <3>1. PICK w : cached' = cached \/ cached' = [cached EXCEPT ![sid[t]].written = w]
      BY <1>2 DEF Persist, SkipPersist
    <3>2. own[t] => cached'[sid[t]].as = cached[sid[t]].as
      BY <2>1, <3>1, <1>a, <1>s DEF SharedShape, CachedShape
    <3> QED
      BY <3>2, <1>a, <1>n
  <2> QED
    BY <2>1, <2>2, <2>3, ContinuedMoves
<1>3. CASE SignOut(t)
    BY <1>3, AnsweredMoves DEF SignOut
<1>4. CASE FirstPass(t)
  <2>1. CASE Done(t, {})
    BY <2>1, AnsweredMoves
  <2>2. CASE ~Done(t, {})
    <3>1. /\ pc[t] = "first pass" /\ UNCHANGED <<kind, cached>> /\ read' = [read EXCEPT ![t] = clock]
          /\ Goto(t, "memory") /\ UNCHANGED <<op, sid, own, copy>>
      BY <1>4, <2>2 DEF FirstPass
    <3>2. pc'[t] = "memory" /\ read'[t] = clock
      BY <3>1, <1>s DEF Goto, LocalsShape
    <3>3. pc'[t] \notin Restoring /\ pc'[t] \notin BeforeUse
      BY <3>2, Apart
    <3>4. read'[t] <= clock
      BY <3>2, <1>a
    <3> QED
      BY <3>1, <3>2, <3>3, <3>4, <1>a DEF MovedTo, InCache
  <2> QED
    BY <2>1, <2>2
<1>5. CASE EndInMemory(t)
  <2>1. /\ pc[t] = "memory" /\ kind' = kind /\ own' = Disowned(Outdated(read[t]))
        /\ cached' = DroppedFromCache(Outdated(read[t]))
        /\ Goto(t, "second pass") /\ UNCHANGED <<op, sid, copy, read>>
    BY <1>5 DEF EndInMemory, EndSessionsOf
  <2>2. pc'[t] = "second pass"
    BY <2>1, <1>s DEF Goto, LocalsShape
  <2>3. pc'[t] \notin Restoring /\ pc'[t] \notin BeforeUse /\ pc[t] \in Cutting
    BY <2>1, <2>2, Apart
  <2>4. own'[t] => cached'[sid[t]] # NotCached
    BY <2>1, <1>a DEF Disowned, DroppedFromCache, InCache
  <2> QED
    BY <2>1, <2>2, <2>3, <2>4, <1>a DEF MovedTo
<1>6. CASE SecondPass(t) \/ DeleteAgain(t)
    BY <1>6, AnsweredMoves DEF SecondPass, DeleteAgain
<1>7. CASE BeginDeletion(t)
  <2>1. CASE Done(t, {})
    BY <2>1, AnsweredMoves
  <2>2. CASE ~Done(t, {})
    BY <1>7, <2>2, <1>a, GoneOnMoves DEF BeginDeletion, Plain, InCache
  <2> QED
    BY <2>1, <2>2
<1>8. CASE DeleteRows(t)
  <2>1. CASE Done(t, {})
    BY <2>1, AnsweredMoves
  <2>2. CASE ~Done(t, {})
    <3>1. /\ pc[t] = "delete rows" /\ UNCHANGED <<kind, cached>> /\ Goto(t, "revoke account")
          /\ UNCHANGED <<op, sid, own, copy, read>>
          /\ rows' = [s \in Sessions |-> IF s \in AccountSessions THEN Never ELSE rows[s]]
      BY <1>8, <2>2 DEF DeleteRows
    <3>2. pc'[t] = "revoke account"
      BY <3>1, <1>s DEF Goto, LocalsShape
    <3>3. pc'[t] \notin Restoring /\ pc'[t] \notin BeforeUse /\ pc'[t] \notin Cutting
      <4>1. "revoke account" \notin Cutting
        BY DEF Cutting
      <4> QED
        BY <3>2, <4>1, Apart
    <3>4. \A s \in Sessions : kind'[s] = "signed_in" => rows'[s] = Never
      BY <3>1 DEF AccountSessions
    <3> QED
      BY <3>1, <3>2, <3>3, <3>4, <1>a DEF MovedTo, InCache
  <2> QED
    BY <2>1, <2>2
<1>9. CASE RevokeAccount(t)
  <2>1. PICK S : /\ pc[t] = "revoke account" /\ kind' = kind /\ own' = Disowned(S) /\ cached' = DroppedFromCache(S)
                 /\ Goto(t, "delete again") /\ UNCHANGED <<op, sid, copy, read>>
    BY <1>9 DEF RevokeAccount
  <2>2. pc'[t] = "delete again"
    BY <2>1, <1>s DEF Goto, LocalsShape
  <2>3. pc'[t] \notin Restoring /\ pc'[t] \notin BeforeUse /\ pc'[t] \notin Cutting
    <3>1. "delete again" \notin Cutting
      BY DEF Cutting
    <3> QED
      BY <2>2, <3>1, Apart
  <2>4. own'[t] => cached'[sid[t]] # NotCached
    BY <2>1, <1>a DEF Disowned, DroppedFromCache, InCache
  <2> QED
    BY <1>9, <2>1, <2>2, <2>3, <2>4, <1>a DEF MovedTo
<1> QED
    BY <1>1, <1>2, <1>3, <1>4, <1>5, <1>6, <1>7, <1>8, <1>9 DEF Work, SignOutSteps, Deletion

LEMMA SignInsMoveThread ==
    ASSUME EndingInv, NEW t \in Threads, SignIn(t)
    PROVE  MovedTo(t)
<1> USE DEF identity, memory, database, locals
<1>s. SharedShape /\ LocalsShape
    BY DEF EndingInv, Shape
<1>a. /\ pc[t] # "idle" => op[t] # "none" /\ sid[t] \in Sessions /\ kind[sid[t]] # "none"
      /\ own[t] => InCache(sid[t])
      /\ copy[t] <= clock /\ read[t] <= clock /\ clock \in Nat
    BY <1>s DEF EndingInv, Births, Unborn, Holds, Moments, SharedShape
<1>d. ASSUME NEW S, Done(t, S) PROVE MovedTo(t)
    BY <1>d, AnsweredMoves
<1>1. CASE Recover(t) \/ Upsert(t) \/ Recheck(t)
  <2>1. CASE Done(t, {})
    BY <2>1, <1>d
  <2>2. CASE ~Done(t, {})
    <3>1. /\ pc[t] # "idle" /\ UNCHANGED <<kind, cached, op, sid, own, copy, read>>
          /\ \E l \in {"upsert", "recheck", "issue"} : Goto(t, l)
      BY <1>1, <2>2 DEF Recover, Upsert, Recheck
    <3> QED
      BY <3>1, <1>a, GoneOnMoves DEF Plain, InCache
  <2> QED
    BY <2>1, <2>2
<1>2. CASE Issue(t)
  <2>1. CASE Done(t, {sid[t]})
    BY <2>1, <1>d
  <2>2. CASE ~Done(t, {sid[t]})
    <3>1. /\ pc[t] = "issue" /\ UNCHANGED <<kind, op, sid, copy, read>> /\ Goto(t, "create")
          /\ own' = Disowned({sid[t]})
      BY <1>2, <2>2 DEF Issue
    <3>2. ~own'[t]
      BY <3>1 DEF Disowned
    <3> QED
      BY <3>1, <3>2, <1>a, GoneOnMoves DEF Plain
  <2> QED
    BY <2>1, <2>2
<1>3. CASE Confirm(t)
    BY <1>3, <1>d DEF Confirm
<1>4. ASSUME NEW s \in Sessions, CreateSignedIn(t, s) PROVE MovedTo(t)
  <2>1. pc[t] = "create" /\ Create(t, s, "signed_in") /\ Goto(t, "persist") /\ sid' = [sid EXCEPT ![t] = s]
        /\ UNCHANGED <<op, copy, read, rows, signedOutIds>>
    BY <1>4 DEF CreateSignedIn
  <2>2. pc'[t] = "persist" /\ sid'[t] = s
    BY <2>1, <1>s DEF Goto, LocalsShape
  <2>3. pc'[t] \notin Restoring /\ pc'[t] \notin BeforeUse /\ pc'[t] \notin Cutting
    BY <2>2, Apart
  <2>4. kind'[s] = "signed_in" /\ cached'[s].used = clock
    <3>1. DroppedFromCache(Lapsed) \in [Sessions -> CachedShape]
      BY PiecesAreShaped DEF EndingInv
    <3> QED
      BY <2>1, <3>1, <1>s DEF Create, SharedShape
  <2>5. cached'[s] # NotCached
    BY <2>4, <1>a DEF NotCached, Never
  <2> QED
    BY <2>1, <2>2, <2>3, <2>4, <2>5, <1>a DEF MovedTo
<1> QED
    BY <1>1, <1>2, <1>3, <1>4 DEF SignIn

LEMMA ArrivalsMoveThread ==
    ASSUME EndingInv, NEW t \in Threads, NEW s \in Sessions,
           (\E k \in scenario.kinds : Mint(t, s, k)) \/ (\E o \in Requests : Arrive(t, s, o))
    PROVE  MovedTo(t)
<1> USE DEF identity, memory, database, locals
<1>s. SharedShape /\ LocalsShape /\ clock \in Nat
    BY DEF EndingInv, Shape, SharedShape
<1>1. ASSUME NEW k \in scenario.kinds, Mint(t, s, k) PROVE MovedTo(t)
  <2>1. Create(t, s, k) /\ Locals(t, s, "mint", "none") /\ Goto(t, "persist")
    BY <1>1 DEF Mint
  <2>2. pc'[t] = "persist" /\ sid'[t] = s /\ op'[t] = "mint" /\ copy'[t] = -1 /\ read'[t] = -1
    BY <2>1, <1>s DEF Goto, Locals, LocalsShape, Never
  <2>3. pc'[t] \notin Restoring /\ pc'[t] \notin BeforeUse /\ pc'[t] \notin Cutting
    BY <2>2, Apart
  <2>4. kind'[s] = k /\ cached'[s].used = clock /\ k # "none"
    <3>1. DroppedFromCache(Lapsed) \in [Sessions -> CachedShape]
      BY PiecesAreShaped DEF EndingInv
    <3> QED
      BY <2>1, <3>1, <1>s, TheKinds DEF Create, SharedShape
  <2>5. cached'[s] # NotCached
    BY <2>4, <1>s DEF NotCached, Never
  <2>6. copy'[t] <= clock /\ read'[t] <= clock /\ copy'[t] <= cached'[s].used
    BY <2>2, <2>4, <1>s
  <2> QED
    BY <2>2, <2>3, <2>4, <2>5, <2>6 DEF MovedTo
<1>2. ASSUME NEW o \in Requests, Arrive(t, s, o) PROVE MovedTo(t)
  <2> DEFINE held == InCache(s) /\ ~Expired(s)
  <2>1. /\ pc[t] = "idle" /\ kind[s] # "none" /\ cached' = DroppedFromCache(Lapsed)
        /\ own' = [Disowned(Lapsed) EXCEPT ![t] = held]
        /\ UNCHANGED <<kind, born, cutoff, acting>>
    BY <1>2 DEF Arrive
  <2>2. sid'[t] = s /\ op'[t] = o /\ copy'[t] = -1 /\ read'[t] = -1
    BY <1>2, <1>s DEF Arrive, Locals, LocalsShape, Never
  <2>3. pc'[t] \in {"check", "recover", "fetch"} /\ (pc'[t] = "check" <=> held)
    BY <1>2, <1>s DEF Arrive, Goto, LocalsShape
  <2>4. own'[t] = held
    BY <2>1 DEF Disowned
  <2>5. held => cached'[s] # NotCached
    BY <2>1 DEF DroppedFromCache, Lapsed, InCache
  <2>6. held /\ Before(s, cutoff) => Covers(cutoff)
    BY DEF EndingInv, CutoffsCover
  <2>7. pc'[t] \notin Restoring /\ pc'[t] \notin Cutting /\ acting'[t] = NoSession
    <3>1. "recover" \in Plain /\ "check" \notin Cutting /\ "fetch" \notin Cutting
      BY DEF Plain, Cutting
    <3>2. acting[t] = NoSession
      BY <2>1, Apart DEF EndingInv, Holds
    <3> QED
      BY <2>1, <2>3, <3>1, <3>2, Apart
  <2>8. copy'[t] <= clock /\ read'[t] <= clock /\ o # "none"
    BY <2>2, <1>s DEF Requests
  <2> HIDE DEF held
  <2> QED
    BY <2>1, <2>2, <2>3, <2>4, <2>5, <2>6, <2>7, <2>8 DEF MovedTo
<1> QED
    BY <1>1, <1>2

LEMMA EveryThread ==
    ASSUME EndingInv, [Next]_vars, ~Restart, NEW v \in Threads
    PROVE  Waits(v) \/ (~Tick /\ MovedTo(v))
<1>1. CASE Tick \/ OutsideStep
    BY <1>1, AllWait
<1>2. CASE ~Tick /\ ~OutsideStep
  <2>1. PICK t \in Threads : ThreadStep(t)
    BY <1>2, OneStepsOrNone
  <2>2. CASE v = t
    BY <1>2, <2>1, <2>2, LookUpMovesThread, RequestsMoveThread, SignInsMoveThread, ArrivalsMoveThread
       DEF ThreadStep
  <2>3. CASE v # t
    BY <2>1, <2>3, OthersWait
  <2> QED
    BY <2>2, <2>3
<1> QED
    BY <1>1, <1>2

LEMMA ReadersGoOn ==
    ASSUME EndingInv, [Next]_vars, ~Restart, NEW v \in Threads, pc'[v] \in Restoring
    PROVE  ~Tick /\ (GoesOnReading(v) \/ ReadsTheRow(v))
<1>1. CASE Waits(v)
  <2>1. GoesOnReading(v)
    BY <1>1 DEF Waits, SameLocals, GoesOnReading
  <2>2. ~Tick
    BY <2>1, TickIs DEF GoesOnReading
  <2> QED
    BY <2>1, <2>2
<1>2. CASE ~Tick /\ MovedTo(v)
    BY <1>2 DEF MovedTo
<1> QED
    BY <1>1, <1>2, EveryThread

LEMMA PastThePresent ==
    \A c \in Nat : c # Never /\ c + SessionTTL > c /\ (c + SessionTTL) - SessionTTL = c
BY TheLimits DEF Never

LEMMA RevocationLeavesNothing ==
    ASSUME EndingInv, [Next]_vars, ~Restart, ~Tick, NEW t \in Threads, RevokeAccount(t), pc'[t] = "delete again"
    PROVE  WrittenBack(t)'
<1>s. clock \in Nat /\ \A s \in Sessions : rows[s] \in Int
    BY DEF EndingInv, Shape, SharedShape
<1>n. clock # Never
    BY <1>s, PastThePresent
<1>1. /\ deletedUntil' = clock + SessionTTL /\ clock' = clock /\ UNCHANGED <<kind, born, rows>>
      /\ pc[t] = "revoke account"
    BY <1>s DEF RevokeAccount, world, identity, database
<1>2. deletedUntil' > clock' /\ deletedUntil' - SessionTTL = clock
    BY <1>1, <1>s, PastThePresent
<1>3. ASSUME NEW s \in Sessions, Older(s)'
      PROVE  cached'[s] = NotCached /\ rows'[s] < deletedUntil' - SessionTTL
  <2>1. Older(s) /\ kind[s] = "signed_in" /\ ~TooOld(s) /\ ~Noted(s)
    BY <1>3, OlderOnlyShrinks DEF Older
  <2>2. ~InCache(s)
    <3> SUFFICES ASSUME InCache(s) PROVE FALSE
      OBVIOUS
    <3>1. endedIds'[s] = clock
      BY <2>1 DEF RevokeAccount, EndedOnPurpose, AccountSessions
    <3> QED
      BY <1>3, <1>n, <3>1 DEF Older, Noted
  <2>3. rows[s] < clock
    BY <1>1, <2>1, <2>2 DEF EndingInv, WrittenBack
  <2>4. cached'[s] = NotCached
    BY <2>2 DEF RevokeAccount, DroppedFromCache, InCache
  <2> QED
    BY <1>1, <1>2, <2>3, <2>4
<1>4. ASSUME NEW u \in Threads, Older(sid[u])' PROVE EndedMeanwhile(sid[u])'
    BY <1>2, <1>4 DEF Older, EndedMeanwhile, RefusedByMemory, WasDeleted
<1> QED
    BY <1>3, <1>4 DEF WrittenBack, InCache

\* Whatever a thread does, it is then where the invariant wants it.
ThreadParts(v) ==
    /\ BornParts(v) /\ Holds(v) /\ SeesTheEnd(v) /\ WrittenBack(v)
    /\ pc[v] \in Restoring => kind[sid[v]] # "sign_in_only"
    /\ copy[v] <= clock /\ read[v] <= clock
    /\ pc[v] \in Cutting => Covers(read[v])
    /\ pc[v] \in {"check", "insert"} /\ Before(sid[v], cutoff) => Covers(cutoff)

LEMMA ReadingIsRight ==
    ASSUME EndingInv, [Next]_vars, ~Restart, NEW v \in Threads
    PROVE  SeesTheEnd(v)' /\ (pc'[v] \in Restoring => kind'[sid'[v]] # "sign_in_only")
<1>1. CASE pc'[v] \in Restoring
    BY <1>1, ReadersGoOn, ReaderSeesTheEnd
<1>2. CASE pc'[v] \notin Restoring
    BY <1>2 DEF SeesTheEnd
<1> QED
    BY <1>1, <1>2

LEMMA DeletingIsRight ==
    ASSUME EndingInv, [Next]_vars, ~Restart, NEW v \in Threads
    PROVE  WrittenBack(v)'
<1>1. CASE Waits(v)
    BY <1>1, ReadersGoOn, WaitingDeletes
<1>2. CASE ~Tick /\ MovedTo(v)
  <2>1. CASE pc'[v] = "delete again"
    BY <1>2, <2>1, RevocationLeavesNothing DEF MovedTo
  <2>2. CASE pc'[v] = "revoke account"
    <3>1. \A s \in Sessions : kind'[s] = "signed_in" => rows'[s] = Never
      BY <1>2, <2>2 DEF MovedTo
    <3>2. clock' \in Nat
      BY ShapeOfTheShared DEF SharedShape, EndingInv
    <3>3. Never < clock'
      BY <3>2 DEF Never
    <3> QED
      BY <2>2, <3>1, <3>3 DEF WrittenBack
  <2>3. CASE pc'[v] \notin {"delete again", "revoke account"}
    BY <2>3 DEF WrittenBack
  <2> QED
    BY <2>1, <2>2, <2>3
<1> QED
    BY <1>1, <1>2, EveryThread

LEMMA CutsOfThreads ==
    ASSUME EndingInv, [Next]_vars, ~Restart, NEW v \in Threads
    PROVE  pc'[v] \in Cutting => Covers(read[v])'
<1> SUFFICES ASSUME pc'[v] \in Cutting, NEW s \in Sessions, Older(s)' PROVE born'[s] <= read'[v]
    BY DEF Covers
<1>s. cutoff \in Int /\ read[v] \in Int
    BY DEF EndingInv, Shape, SharedShape, LocalsShape
<1>1. CASE pc[v] \in Cutting /\ read'[v] = read[v]
  <2>1. Covers(read[v])
    BY <1>1 DEF EndingInv, CutoffsCover, Cutting
  <2> QED
    BY <1>1, <2>1, <1>s, CoverageStays
<1>2. CASE Waits(v)
    BY <1>1, <1>2 DEF Waits, SameLocals
<1>3. CASE MovedTo(v)
  <2>1. CASE read'[v] = clock
    BY <2>1, NowCovers
  <2>2. CASE read'[v] = cutoff /\ pc[v] = "check" /\ Before(sid[v], cutoff)
    <3>1. Covers(cutoff)
      BY <2>2 DEF EndingInv, CutoffsCover
    <3> QED
      BY <2>2, <3>1, <1>s, CoverageStays
  <2> QED
    BY <1>1, <1>3, <2>1, <2>2 DEF MovedTo
<1> QED
    BY <1>2, <1>3, EveryThread

LEMMA ChecksOfThreads ==
    ASSUME EndingInv, [Next]_vars, ~Restart, NEW v \in Threads
    PROVE  pc'[v] \in {"check", "insert"} /\ Before(sid[v], cutoff)' => Covers(cutoff)'
<1> SUFFICES ASSUME pc'[v] \in {"check", "insert"}, Before(sid[v], cutoff)', NEW s \in Sessions, Older(s)'
             PROVE  born'[s] <= cutoff'
    BY DEF Covers
<1>s. cutoff \in Int
    BY DEF EndingInv, Shape, SharedShape
<1>1. CASE Waits(v)
  <2>1. pc[v] \in {"check", "insert"} /\ sid'[v] = sid[v] /\ sid[v] \in Sessions /\ kind[sid[v]] # "none"
    BY <1>1 DEF Waits, SameLocals, EndingInv, Births, Unborn
  <2>2. kind'[sid[v]] = kind[sid[v]] /\ born'[sid[v]] = born[sid[v]]
    BY <2>1, BirthsOfSessions DEF Unborn
  <2>3. cutoff' # Never
    <3>1. born[sid[v]] \in 0 .. clock /\ clock \in Nat
      BY <2>1 DEF EndingInv, Moments, Shape, SharedShape
    <3>2. born[sid[v]] <= cutoff'
      BY <2>1, <2>2 DEF Before
    <3> QED
      BY <3>1, <3>2 DEF Never
  <2>4. CASE cutoff' = cutoff
    <3>1. Before(sid[v], cutoff)
      BY <2>1, <2>2, <2>4 DEF Before
    <3>2. Covers(cutoff)
      BY <2>1, <3>1 DEF EndingInv, CutoffsCover
    <3> QED
      BY <2>4, <3>2, <1>s, CoverageStays
  <2> QED
    BY <2>3, <2>4, AccountCutoffCovers
<1>2. CASE MovedTo(v)
  <2>1. UNCHANGED <<kind, born, cutoff>> /\ (Before(sid'[v], cutoff) => Covers(cutoff))
    BY <1>2 DEF MovedTo
  <2>2. Before(sid'[v], cutoff)
    BY <2>1 DEF Before
  <2> QED
    BY <2>1, <2>2, <1>s, CoverageStays
<1> QED
    BY <1>1, <1>2, EveryThread

LEMMA ThreadsStayRight ==
    ASSUME EndingInv, [Next]_vars, ~Restart, NEW v \in Threads
    PROVE  ThreadParts(v)'
<1>1. BornParts(v)' /\ Holds(v)' /\ copy'[v] <= clock' /\ read'[v] <= clock'
  <2>1. CASE Waits(v)
    <3>1. copy'[v] = copy[v] /\ read'[v] = read[v] /\ copy[v] <= clock /\ read[v] <= clock
      BY <2>1 DEF Waits, SameLocals, EndingInv, Moments
    <3>2. clock' = clock \/ clock' = clock + 1
      BY TickIs, TimeStands
    <3>3. copy[v] \in Int /\ read[v] \in Int /\ clock \in Nat
      BY DEF EndingInv, Shape, SharedShape, LocalsShape
    <3>4. copy'[v] <= clock' /\ read'[v] <= clock'
      BY <3>1, <3>2, <3>3
    <3> QED
      BY <2>1, <3>4, WaitingHolds
  <2>2. CASE ~Tick /\ MovedTo(v)
    <3>1. clock' = clock
      BY <2>2, TimeStands
    <3>2. BornParts(v)'
      BY <2>2 DEF MovedTo, BornParts, Unborn
    <3>3. Holds(v)'
      BY <2>2 DEF MovedTo, Holds, InCache
    <3> QED
      BY <2>2, <3>1, <3>2, <3>3 DEF MovedTo
  <2> QED
    BY <2>1, <2>2, EveryThread
<1> QED
    BY <1>1, ReadingIsRight, DeletingIsRight, CutsOfThreads, ChecksOfThreads DEF ThreadParts

-----------------------------------------------------------------------------
(* The invariant.                                                            *)

LEMMA StepsKeepTheInvariant ==
    ASSUME EndingInv, [Next]_vars, ~Restart
    PROVE  EndingInv'
<1>1. Shape'
    BY ShapeOfLocals, ShapeOfTheShared DEF EndingInv, Shape
<1>t. \A v \in Threads : ThreadParts(v)'
    BY ThreadsStayRight
<1>2. Moments'
  <2>1. \A s \in Sessions :
           /\ rows'[s] <= clock' /\ cached'[s].used <= clock'
           /\ kind'[s] # "none" => born'[s] \in 0 .. clock'
           /\ endedIds'[s] # Never => born'[s] <= endedIds'[s]
           /\ signedOutIds'[s] # Never => born'[s] <= signedOutIds'[s]
    BY MomentsOfSessions
  <2>2. \A v \in Threads : copy'[v] <= clock' /\ read'[v] <= clock'
    BY <1>t DEF ThreadParts
  <2>3. cutoff' <= clock' /\ deletedUntil' <= clock' + SessionTTL
    <3>1. /\ clock \in Nat /\ clock' \in Nat /\ cutoff' \in Int /\ deletedUntil' \in Int /\ cutoff' <= clock
          /\ deletedUntil \in Int /\ deletedUntil <= clock + SessionTTL /\ SessionTTL \in Nat
      BY <1>1, AccountCutoffCovers, TheLimits DEF EndingInv, Shape, SharedShape, Moments
    <3>2. CASE Tick
      <4>1. clock' = clock + 1 /\ deletedUntil' = deletedUntil
        BY <3>2, TickIs
      <4> QED
        BY <3>1, <4>1
    <3>3. CASE ~Tick
      <4>1. clock' = clock /\ deletedUntil' <= clock' + SessionTTL
        BY <3>3, TimeStands
      <4> QED
        BY <3>1, <4>1
    <3> QED
      BY <3>2, <3>3
  <2> QED
    BY <2>1, <2>2, <2>3 DEF Moments
<1>3. Births' /\ KeptInMemory'
  <2>1. \A s \in Sessions : /\ Unborn(s)' => Nowhere(s)'
                            /\ ~Unborn(s)' => promised'[s] # "unborn"
                            /\ kind'[s] = "sign_in_only" => rows'[s] = Never
    BY BirthsOfSessions
  <2>2. \A v \in Threads : BornParts(v)' /\ (pc'[v] \in Restoring => kind'[sid'[v]] # "sign_in_only")
    BY <1>t DEF ThreadParts
  <2> QED
    BY <2>1, <2>2 DEF Births, KeptInMemory, BornParts
<1>4. \A s \in Sessions : CachedIsLive(s)'
    BY CacheStaysLive
<1>5. CutoffsCover'
  <2>1. cutoff' # Never => account' = "recorded"
    BY AccountCutoffCovers
  <2>2. memoryCutoff' = Never \/ Covers(memoryCutoff)'
    BY MemoryCutoffCovers DEF Covers
  <2>3. \A s \in Sessions : cached'[s] # NotCached /\ Before(s, cutoff)' => Covers(cutoff)'
    BY CutoffsOfSessions DEF Covers
  <2>4. \A v \in Threads :
           /\ pc'[v] \in {"outdated", "memory", "second pass"} => Covers(read[v])'
           /\ pc'[v] \in {"check", "insert"} /\ Before(sid[v], cutoff)' => Covers(cutoff)'
    BY <1>t DEF ThreadParts, Cutting
  <2> QED
    BY <2>1, <2>2, <2>3, <2>4 DEF CutoffsCover, InCache
<1>6. \A s \in Sessions : EndedIsBarred(s)'
    BY EndedStaysBarred
<1>7. \A v \in Threads : Holds(v)' /\ SeesTheEnd(v)' /\ WrittenBack(v)'
    BY <1>t DEF ThreadParts
<1> QED
    BY <1>1, <1>2, <1>3, <1>4, <1>5, <1>6, <1>7 DEF EndingInv

LEMMA RestartKeepsTheInvariant ==
    ASSUME EndingInv, Restart
    PROVE  EndingInv'
<1>s. SharedShape /\ SharedShape' /\ LocalsShape'
  <2>1. [Next]_vars
    BY DEF Next
  <2> QED
    BY <2>1, ShapeOfLocals, ShapeOfTheShared DEF EndingInv, Shape
<1>1. \A t \in Threads : /\ pc'[t] = "idle" /\ ~own'[t] /\ acting'[t] = NoSession /\ copy'[t] = -1 /\ read'[t] = -1
                         /\ pc'[t] \notin Restoring
    BY Apart DEF Restart, Never
<1>2. \A s \in Sessions : /\ cached'[s] = NotCached /\ cached'[s].used = -1
                          /\ endedIds'[s] = Never /\ signedOutIds'[s] = Never
                          /\ promised'[s] = IF promised[s] = "ended_here" THEN "live" ELSE promised[s]
    BY DEF Restart, NotCached, Never
<1>3. /\ UNCHANGED <<clock, kind, born, rows, account, cutoff>>
      /\ memoryCutoff' = Never /\ deletedUntil' = -1 /\ clock \in Nat
    BY <1>s DEF Restart, identity, database, Never, SharedShape
<1>4. Moments'
  <2>1. -1 <= clock + SessionTTL /\ -1 <= clock
    BY <1>3, TheLimits
  <2> QED
    BY <1>1, <1>2, <1>3, <2>1 DEF EndingInv, Moments
<1>5. Births' /\ KeptInMemory'
    BY <1>1, <1>2, <1>3 DEF EndingInv, Births, KeptInMemory, Unborn, Nowhere, InCache
<1>6. CutoffsCover'
    BY <1>1, <1>2, <1>3 DEF EndingInv, CutoffsCover, InCache
<1>7. \A s \in Sessions : EndedIsBarred(s)' /\ CachedIsLive(s)'
    BY <1>2, <1>3 DEF EndingInv, EndedIsBarred, Barred, CachedIsLive, InCache, Over
<1>8. \A t \in Threads : Holds(t)' /\ SeesTheEnd(t)' /\ WrittenBack(t)'
    BY <1>1 DEF Holds, SeesTheEnd, WrittenBack
<1> QED
    BY <1>s, <1>4, <1>5, <1>6, <1>7, <1>8 DEF EndingInv, Shape

LEMMA TheStartIsRight ==
    ASSUME Init
    PROVE  EndingInv
<1> DEFINE Held == scenario.held
<1>s. /\ clock = 0 /\ cutoff = -1 /\ memoryCutoff = -1 /\ deletedUntil = -1
      /\ scenario \in Scenarios /\ Held \in SUBSET Sessions
    BY ScenarioAssumption DEF Init, Never, Scenario
<1>1. \A t \in Threads : /\ pc[t] = "idle" /\ ~own[t] /\ acting[t] = NoSession /\ copy[t] = -1 /\ read[t] = -1
                         /\ pc[t] \notin Restoring
    BY Apart DEF Init, Never
<1>2. \A s \in Held : /\ kind[s] = "signed_in" /\ born[s] = 0 /\ cached[s] = [used |-> 0, written |-> 0, as |-> "signed_in"]
                      /\ rows[s] = 0 /\ promised[s] = "live"
    BY <1>s DEF Init
<1>3. \A s \in Sessions \ Held : /\ kind[s] = "none" /\ born[s] = -1 /\ cached[s] = NotCached /\ rows[s] = -1
                                 /\ promised[s] = "unborn"
    BY DEF Init, Never
<1>4. \A s \in Sessions : endedIds[s] = -1 /\ signedOutIds[s] = -1
    BY DEF Init, Never
<1>5. Shape
  <2>1. LocalsShape
    <3>1. "idle" \in Labels /\ "none" \in SessionKind
      BY LabelsAre DEF SessionKind
    <3>2. pc \in [Threads -> Labels] /\ seen \in [Threads -> SessionKind \cup {"unknown"}]
      BY <3>1 DEF Init
    <3>3. /\ op \in [Threads -> Requests \cup {"none", "mint"}] /\ sid \in [Threads -> Sessions \cup {NoSession}]
          /\ own \in [Threads -> BOOLEAN] /\ acting \in [Threads -> Sessions \cup {NoSession}]
      BY DEF Init
    <3>4. copy \in [Threads -> Int] /\ read \in [Threads -> Int]
      BY DEF Init, Never
    <3> QED
      BY <3>2, <3>3, <3>4 DEF LocalsShape
  <2>2. /\ kind = [s \in Sessions |-> IF s \in Held THEN "signed_in" ELSE "none"]
        /\ born = [s \in Sessions |-> IF s \in Held THEN 0 ELSE -1]
        /\ cached = [s \in Sessions |->
              IF s \in Held THEN [used |-> 0, written |-> 0, as |-> "signed_in"] ELSE NotCached]
        /\ rows = [s \in Sessions |-> IF s \in Held THEN 0 ELSE -1]
        /\ promised = [s \in Sessions |-> IF s \in Held THEN "live" ELSE "unborn"]
        /\ endedIds = [s \in Sessions |-> -1] /\ signedOutIds = [s \in Sessions |-> -1]
    BY DEF Init, Never
  <2>3. cached \in [Sessions -> CachedShape]
    <3>1. NotCached \in CachedShape /\ [used |-> 0, written |-> 0, as |-> "signed_in"] \in CachedShape
      BY DEF NotCached, Never, CachedShape, SessionKind
    <3> QED
      BY <2>2, <3>1
  <2>4. kind \in [Sessions -> SessionKind] /\ promised \in [Sessions -> {"unborn", "live"} \cup Over]
    BY <2>2 DEF SessionKind
  <2>5. /\ born \in [Sessions -> Int] /\ rows \in [Sessions -> Int]
        /\ endedIds \in [Sessions -> Int] /\ signedOutIds \in [Sessions -> Int]
    BY <2>2
  <2> HIDE DEF Held
  <2> QED
    BY <1>s, <2>1, <2>3, <2>4, <2>5 DEF Shape, SharedShape
<1> HIDE DEF Held
<1>6. \A s \in Sessions \ Held : ~InCache(s)
    BY <1>3 DEF InCache
<1>7. \A s \in Sessions : ~Before(s, cutoff)
    BY <1>s, <1>2, <1>3 DEF Before
<1>8. Moments
  <2>1. NotCached.used = -1 /\ SessionTTL \in Nat
    BY TheLimits DEF NotCached, Never
  <2>2. \A s \in Sessions :
          /\ rows[s] <= clock /\ cached[s].used <= clock
          /\ kind[s] # "none" => born[s] \in 0 .. clock
    BY <1>s, <1>2, <1>3, <2>1
  <2> QED
    BY <1>s, <1>1, <1>4, <2>1, <2>2 DEF Moments, Never
<1>9. Births /\ KeptInMemory
    BY <1>1, <1>2, <1>3, <1>4, <1>6 DEF Births, KeptInMemory, Unborn, Nowhere, Never
<1>10. \A s \in Sessions : CachedIsLive(s)
  <2>1. ASSUME NEW s \in Held PROVE CachedIsLive(s)
    <3>1. MaxAge(HeldKind(s)) \in Nat
      BY TheLimits DEF MaxAge
    <3>2. cached[s].used = 0 /\ cached[s].as = "signed_in" /\ "signed_in" \in HeldAs
      BY <1>2 DEF HeldAs
    <3> QED
      BY <1>2, <3>1, <3>2 DEF CachedIsLive
  <2> QED
    BY <2>1, <1>6 DEF CachedIsLive
<1>11. CutoffsCover
    BY <1>s, <1>1, <1>7 DEF CutoffsCover, Never
<1>12. \A s \in Sessions : EndedIsBarred(s)
    BY <1>2, <1>3 DEF EndedIsBarred, Over
<1>13. \A t \in Threads : Holds(t) /\ SeesTheEnd(t) /\ WrittenBack(t)
    BY <1>1 DEF Holds, SeesTheEnd, WrittenBack
<1> QED
    BY <1>5, <1>8, <1>9, <1>10, <1>11, <1>12, <1>13 DEF EndingInv

\* What keeps every ending for good holds in every state: an ended session is in
\* no cache, a row left of it is barred by what memory or the account refuses,
\* and a lookup that read that row before will see it (auth.py lookup, revoke,
\* end_sessions_of, revoke_account; session_store.py's cutoff and deletes).
THEOREM EndingInvariant == Spec => []EndingInv
<1>1. Init => EndingInv
    BY TheStartIsRight
<1>2. EndingInv /\ [Next]_vars => EndingInv'
    BY StepsKeepTheInvariant, RestartKeepsTheInvariant
<1> QED
    BY <1>1, <1>2, PTL DEF Spec

-----------------------------------------------------------------------------
(* Sessions implements SessionLife.                                          *)

\* Some of the requests that act are done, no other begins to.
ActsNoMore == \E F \in SUBSET Threads : acting' = [u \in Threads |-> IF u \in F THEN NoSession ELSE acting[u]]
StartsToAct(t) ==
    /\ pc[t] = "use" /\ own[t] /\ ~Expired(sid[t]) /\ promised' = promised
    /\ acting' = [acting EXCEPT ![t] = sid[t]]
BeginsOne ==
    \E s \in Sessions : Unborn(s) /\ promised' = [promised EXCEPT ![s] = "live"] /\ acting' = acting

LEMMA AnsweredActsNoMore ==
    ASSUME LocalsShape, NEW t \in Threads, NEW S,
           Done(t, S) \/ Refuse(t, S) \/ Found(t) \/ Continue(t) \/ acting' = acting
    PROVE  ActsNoMore
<1>1. acting' = [acting EXCEPT ![t] = NoSession] => ActsNoMore
  <2> SUFFICES ASSUME acting' = [acting EXCEPT ![t] = NoSession] PROVE ActsNoMore
    OBVIOUS
  <2>1. acting' = [u \in Threads |-> IF u \in {t} THEN NoSession ELSE acting[u]]
    BY DEF LocalsShape
  <2> QED
    BY <2>1 DEF ActsNoMore
<1>2. acting' = acting => ActsNoMore
  <2> SUFFICES ASSUME acting' = acting PROVE ActsNoMore
    OBVIOUS
  <2>1. PICK F \in SUBSET Threads : F = {}
    OBVIOUS
  <2>2. acting' = [u \in Threads |-> IF u \in F THEN NoSession ELSE acting[u]]
    BY <2>1 DEF LocalsShape
  <2> QED
    BY <2>2 DEF ActsNoMore
<1>3. acting' = [acting EXCEPT ![t] = NoSession] \/ acting' = acting
    BY DEF Done, Refuse, Found, Continue, locals
<1> QED
    BY <1>1, <1>2, <1>3

LEMMA WhatThreadsDo ==
    ASSUME EndingInv, NEW t \in Threads, ThreadStep(t)
    PROVE  BeginsOne \/ StartsToAct(t) \/ (kind' = kind /\ ActsNoMore)
<1> USE DEF identity, locals, promises
<1>s. LocalsShape
    BY DEF EndingInv, Shape
<1>d. ASSUME NEW S, Done(t, S) \/ Refuse(t, S) \/ Found(t) \/ Continue(t) \/ acting' = acting PROVE ActsNoMore
    BY <1>d, <1>s, AnsweredActsNoMore
<1>1. ASSUME NEW s \in Sessions, NEW k \in scenario.kinds, Mint(t, s, k) PROVE BeginsOne
    BY <1>1 DEF Mint, Create, BeginsOne, Unborn
<1>2. ASSUME NEW s \in Sessions, CreateSignedIn(t, s) PROVE BeginsOne
    BY <1>2 DEF CreateSignedIn, Create, BeginsOne, Unborn
<1>3. ASSUME NEW s \in Sessions, NEW o \in Requests, Arrive(t, s, o) PROVE kind' = kind /\ ActsNoMore
    BY <1>3, <1>d DEF Arrive
<1>4. CASE LookUp(t)
  <2>1. kind' = kind
    BY <1>4 DEF LookUp, CheckCached, AnswerUnchecked, AnswerOutdated, Fetch, LookUpKind, ReadCutoff, Insert
  <2>2. CASE CheckCached(t)
    BY <2>2, <1>d DEF CheckCached
  <2>3. CASE AnswerUnchecked(t) \/ AnswerOutdated(t)
    BY <2>3, <1>d DEF AnswerUnchecked, AnswerOutdated
  <2>4. CASE Fetch(t) \/ LookUpKind(t) \/ ReadCutoff(t) \/ Insert(t)
    BY <2>4, <1>d DEF Fetch, LookUpKind, ReadCutoff, Insert
  <2> QED
    BY <1>4, <2>1, <2>2, <2>3, <2>4, <1>d DEF LookUp
<1>5. CASE Use(t)
  <2>1. StartsToAct(t) \/ \E S : Done(t, S)
    BY <1>5 DEF Use, StartsToAct
  <2>2. kind' = kind
    BY <1>5 DEF Use
  <2> QED
    BY <2>1, <2>2, <1>d
<1>6. CASE Persist(t) \/ SkipPersist(t)
    BY <1>6, <1>d DEF Persist, SkipPersist
<1>7. CASE SignOutSteps(t)
    BY <1>7, <1>d DEF SignOutSteps, SignOut, FirstPass, EndInMemory, SecondPass
<1>8. CASE Deletion(t)
    BY <1>8, <1>d DEF Deletion, BeginDeletion, DeleteRows, RevokeAccount, DeleteAgain
<1>9. CASE Recover(t) \/ Upsert(t) \/ Recheck(t) \/ Issue(t) \/ Confirm(t)
    BY <1>9, <1>d DEF Recover, Upsert, Recheck, Issue, Confirm
<1> QED
    BY <1>1, <1>2, <1>3, <1>4, <1>5, <1>6, <1>7, <1>8, <1>9 DEF ThreadStep, Work, SignIn

LEMMA WhatHappensOutside ==
    ASSUME EndingInv, OutsideStep \/ Tick
    PROVE  promised' = promised /\ acting' = acting
BY DEF OutsideStep, OperatorEnds, OperatorReadsBack, StoreFails, StoreAnswers, CollectGarbage, Tick, vars, locals, promises

\* An ending of SessionLife: the sessions whose promise changed, and the requests
\* that are done.
LEMMA EndsRefines ==
    ASSUME SharedShape, SharedShape', ActsNoMore,
           \A s \in Sessions : promised'[s] = promised[s] \/ Ends(s)
    PROVE  Life!Next
<1> DEFINE H == { s \in Sessions : promised'[s] # promised[s] }
           how == [s \in H |-> promised'[s]]
<1>1. PICK F \in SUBSET Threads : acting' = [u \in Threads |-> IF u \in F THEN NoSession ELSE acting[u]]
    BY DEF ActsNoMore
<1>2. how \in [H -> Life!Ended]
    BY DEF Life!Ended, Ends
<1>3. \A s \in DOMAIN how :
         promised[s] = "live" \/ (promised[s] = "ended_here" /\ how[s] = "ended")
    BY DEF Ends
<1>4. promised' = [s \in Sessions |-> IF s \in DOMAIN how THEN how[s] ELSE promised[s]]
  <2>1. promised' = [s \in Sessions |-> promised'[s]]
    BY DEF SharedShape
  <2> QED
    BY <2>1
<1>5. Life!End(how, F)
    BY <1>1, <1>3, <1>4 DEF Life!End
<1>6. H \in SUBSET Sessions
    OBVIOUS
<1> HIDE DEF H, how
<1> QED
    BY <1>2, <1>5, <1>6 DEF Life!Next

LEMMA StepsRefine ==
    ASSUME EndingInv, [Next]_vars
    PROVE  [Life!Next]_<<promised, acting>>
<1>s. LocalsShape /\ SharedShape /\ LocalsShape' /\ SharedShape'
    BY ShapeOfLocals, ShapeOfTheShared DEF EndingInv, Shape
<1>1. CASE Restart
  <2>1. Life!Restart
    BY <1>1 DEF Restart, Life!Restart
  <2> QED
    BY <2>1 DEF Life!Next
<1>2. CASE ~Restart
  <2>1. CASE OutsideStep \/ Tick
    BY <2>1, WhatHappensOutside
  <2>2. ASSUME NEW t \in Threads, ThreadStep(t) PROVE Life!Next
    <3>1. CASE BeginsOne
      <4>1. PICK s \in Sessions : Unborn(s) /\ promised' = [promised EXCEPT ![s] = "live"] /\ acting' = acting
        BY <3>1 DEF BeginsOne
      <4>2. promised[s] = "unborn"
        BY <4>1 DEF EndingInv, Births, Nowhere
      <4>3. Life!Begin(s)
        BY <4>1, <4>2 DEF Life!Begin
      <4> QED
        BY <4>3 DEF Life!Next
    <3>2. CASE StartsToAct(t)
      <4>1. sid[t] \in Sessions /\ promised[sid[t]] = "live"
        BY <3>2 DEF StartsToAct, EndingInv, Births, Holds, CachedIsLive
      <4>2. acting[t] = NoSession
        BY <3>2, Apart DEF StartsToAct, EndingInv, Holds
      <4>3. Life!Act(t, sid[t])
        BY <3>2, <4>1, <4>2 DEF StartsToAct, Life!Act
      <4> QED
        BY <4>1, <4>3 DEF Life!Next
    <3>3. CASE kind' = kind /\ ActsNoMore
      <4>1. \A s \in Sessions : promised'[s] = promised[s] \/ Ends(s)
        <5>1. \A s \in Sessions : ~Begins(s)
          BY <3>3 DEF Begins, Unborn
        <5> QED
          BY <1>2, <5>1, PromisesMove
      <4> QED
        BY <1>s, <3>3, <4>1, EndsRefines
    <3> QED
      BY <2>2, <3>1, <3>2, <3>3, WhatThreadsDo
  <2> QED
    BY <1>2, <2>1, <2>2, OneStepsOrNone
<1> QED
    BY <1>1, <1>2

\* No request begins to act for a session its visitor ended, whatever lookups,
\* restores from disk, late writes, sign-ins, deletions and crashes come between
\* (SessionRepository.lookup, use, revoke, end_sessions_of, revoke_account).
THEOREM NoEndedSessionActs == Spec => EndedSessionNeverActs
<1>1. Init => Life!Init
    BY DEF Init, Life!Init
<1>2. EndingInv /\ [Next]_vars => [Life!Next]_<<promised, acting>>
    BY StepsRefine
<1> QED
    BY <1>1, <1>2, EndingInvariant, PTL DEF Spec, EndedSessionNeverActs, Life!Spec

-----------------------------------------------------------------------------
(* What ends a session from outside of the app's memory: the operator's      *)
(* command and the time.                                                     *)

\* No half of a session says it was used later than it was.
UsesAreKnown ==
    /\ lastUse \in [Sessions -> Int]
    /\ \A s \in Sessions :
          /\ lastUse[s] >= Never /\ lastUse[s] <= clock
          /\ cached[s].used <= lastUse[s] /\ rows[s] <= lastUse[s]
    /\ \A t \in Threads : pc[t] \in Restoring => copy[t] <= lastUse[sid[t]]

\* A session of the account is there only after the account was.
SigningIn == {"recheck", "issue", "create"}
AccountStands ==
    /\ account \in {"absent", "recorded", "gone"}
    /\ \A s \in Sessions : kind[s] = "signed_in" => account # "absent"
    /\ \A t \in Threads : pc[t] \in SigningIn => account # "absent"
    /\ operatorCutoff \in Int /\ (operator = "read back" => account # "absent")

\* A session of the account is taken for an anonymous one only when there is no
\* account any more.
TakenForAnonymous ==
    /\ \A s \in Sessions : kind[s] = "signed_in" /\ NeedsNoStore(cached[s].as) => account = "gone"
    /\ \A t \in Threads :
          pc[t] \in {"check", "cutoff", "insert"} /\ kind[sid[t]] = "signed_in" /\ NeedsNoStore(seen[t])
              => account = "gone"

\* What the operator was told is ended has no row and is refused by the account.
SweptAreOver ==
    /\ swept \subseteq Sessions
    /\ \A s \in swept : /\ kind[s] = "signed_in"
                        /\ account = "recorded" => born[s] <= cutoff /\ rows[s] = Never

\* A request that came after that gets no further than the lookup.
LateAreRefused ==
    /\ late \in [Threads -> BOOLEAN]
    /\ \A t \in Threads : late[t] =>
          /\ pc[t] \in {"check", "fetch"} => sid[t] \in swept
          /\ pc[t] \in Restoring \cup {"use"} \/ acting[t] # NoSession => account = "gone"

OutsideInv ==
    /\ UsesAreKnown /\ AccountStands /\ TakenForAnonymous /\ SweptAreOver /\ LateAreRefused

\* A session's last use moves when it begins or is used; else what the cache
\* says of it does not get newer, or comes from the row.
UsesStayKnown(q) ==
    \/ /\ lastUse' = lastUse
       /\ \/ cached'[q] = cached[q] \/ cached'[q] = NotCached \/ cached'[q].used = cached[q].used
          \/ \E t \in Threads : pc[t] = "insert" /\ sid[t] = q /\ cached'[q].used = copy[t]
    \/ /\ \E s \in Sessions : lastUse' = [lastUse EXCEPT ![s] = clock]
       /\ cached'[q] = cached[q] \/ cached'[q] = NotCached \/ lastUse'[q] = clock

LEMMA CreationIsAUse ==
    ASSUME EndingInv, UsesAreKnown, NEW t, NEW s \in Sessions, NEW k, Create(t, s, k), NEW q \in Sessions
    PROVE  UsesStayKnown(q)
<1>1. DroppedFromCache(Lapsed) \in [Sessions -> CachedShape]
    BY PiecesAreShaped DEF EndingInv, Shape
<1>2. CASE q = s
    BY <1>2 DEF Create, UsesStayKnown, UsesAreKnown
<1>3. CASE q # s
  <2>1. cached'[q] = DroppedFromCache(Lapsed)[q]
    BY <1>1, <1>3 DEF Create
  <2> QED
    BY <2>1 DEF Create, UsesStayKnown, DroppedFromCache
<1> QED
    BY <1>2, <1>3

LEMMA LastUseMoves ==
    ASSUME EndingInv, [Next]_vars
    PROVE  lastUse' = lastUse \/ \E s \in Sessions : lastUse' = [lastUse EXCEPT ![s] = clock]
<1> USE DEF promises
<1>s. \A t \in Threads : pc[t] # "idle" => sid[t] \in Sessions
    BY DEF EndingInv, Births
<1>1. ASSUME NEW t \in Threads, LookUp(t) \/ SignOutSteps(t) \/ Deletion(t) PROVE lastUse' = lastUse
    BY <1>1 DEF LookUp, CheckCached, AnswerUnchecked, AnswerOutdated, Fetch, LookUpKind, ReadCutoff, Insert,
        SignOutSteps, SignOut, FirstPass, EndInMemory, SecondPass,
        Deletion, BeginDeletion, DeleteRows, RevokeAccount, DeleteAgain
<1>2. ASSUME NEW t \in Threads, Work(t)
      PROVE  lastUse' = lastUse \/ (sid[t] \in Sessions /\ lastUse' = [lastUse EXCEPT ![sid[t]] = clock])
    BY <1>2, <1>s DEF Work, Use, Persist, SkipPersist
<1>3. ASSUME NEW t \in Threads, Recover(t) \/ Upsert(t) \/ Recheck(t) \/ Issue(t) \/ Confirm(t) PROVE lastUse' = lastUse
    BY <1>3 DEF Recover, Upsert, Recheck, Issue, Confirm
<1>4. ASSUME NEW t \in Threads, NEW s \in Sessions
      PROVE  /\ \A k \in scenario.kinds : Mint(t, s, k) => lastUse' = [lastUse EXCEPT ![s] = clock]
             /\ \A o \in Requests : Arrive(t, s, o) => lastUse' = lastUse
             /\ CreateSignedIn(t, s) => lastUse' = [lastUse EXCEPT ![s] = clock]
    BY DEF Mint, Create, Arrive, CreateSignedIn
<1>5. CASE OutsideStep \/ Tick \/ Restart
    BY <1>5 DEF OutsideStep, OperatorEnds, OperatorReadsBack, StoreFails, StoreAnswers, CollectGarbage, Tick, Restart,
        vars
<1> QED
    BY <1>1, <1>2, <1>3, <1>4, <1>5, OneStepsOrNone DEF ThreadStep, SignIn

LEMMA UsesMove ==
    ASSUME EndingInv, UsesAreKnown, [Next]_vars, NEW q \in Sessions
    PROVE  UsesStayKnown(q)
<1> USE DEF memory, promises
<1>s. SharedShape /\ LocalsShape /\ \A t \in Threads : pc[t] # "idle" => sid[t] \in Sessions
    BY DEF EndingInv, Shape, Births
<1> DEFINE Rests == lastUse' = lastUse /\ (cached'[q] = cached[q] \/ cached'[q] = NotCached)
<1>1. ASSUME NEW t \in Threads, NEW s \in Sessions
      PROVE  /\ \A k \in scenario.kinds : Mint(t, s, k) => UsesStayKnown(q)
             /\ CreateSignedIn(t, s) => UsesStayKnown(q)
    BY CreationIsAUse DEF Mint, CreateSignedIn
<1>2. ASSUME NEW t \in Threads, NEW s \in Sessions, NEW o \in Requests, Arrive(t, s, o) PROVE Rests
    BY <1>2 DEF Arrive, DroppedFromCache
<1>3. ASSUME NEW t \in Threads,
             CheckCached(t) \/ AnswerUnchecked(t) \/ AnswerOutdated(t) \/ Fetch(t) \/ LookUpKind(t) \/ ReadCutoff(t)
      PROVE  Rests
    BY <1>3 DEF CheckCached, AnswerUnchecked, AnswerOutdated, EndSessionsOf, Fetch, LookUpKind, ReadCutoff,
        DroppedFromCache
<1>4. ASSUME NEW t \in Threads, Insert(t) PROVE UsesStayKnown(q)
  <2>1. sid[t] \in Sessions /\ pc[t] = "insert" /\ lastUse' = lastUse
    BY <1>4, <1>s DEF Insert
  <2>2. \/ cached' = cached
        \/ cached' = [cached EXCEPT ![sid[t]] = [used |-> copy[t], written |-> copy[t], as |-> seen[t]]]
    BY <1>4 DEF Insert
  <2>3. cached'[q] = cached[q] \/ (sid[t] = q /\ cached'[q].used = copy[t])
    BY <2>1, <2>2, <1>s DEF SharedShape
  <2> QED
    BY <2>1, <2>3 DEF UsesStayKnown
<1>5. ASSUME NEW t \in Threads, Use(t) PROVE UsesStayKnown(q)
  <2>1. sid[t] \in Sessions
    BY <1>5, <1>s DEF Use
  <2>2. CASE /\ cached' = [cached EXCEPT ![sid[t]].used = clock]
             /\ lastUse' = [lastUse EXCEPT ![sid[t]] = clock]
    <3>1. cached'[q] = cached[q] \/ lastUse'[q] = clock
      BY <2>1, <2>2, <1>s DEF SharedShape, UsesAreKnown
    <3> QED
      BY <2>1, <2>2, <3>1 DEF UsesStayKnown
  <2>3. CASE Rests
    BY <2>3 DEF UsesStayKnown
  <2> QED
    BY <1>5, <2>2, <2>3 DEF Use, DroppedFromCache
<1>6. ASSUME NEW t \in Threads, Persist(t) PROVE UsesStayKnown(q)
  <2>1. sid[t] \in Sessions /\ lastUse' = lastUse
    BY <1>6, <1>s DEF Persist
  <2> DEFINE w == Latest(cached[sid[t]].used, copy[t])
  <2>2. cached' = cached \/ cached' = [cached EXCEPT ![sid[t]].written = w]
    BY <1>6 DEF Persist
  <2> HIDE DEF w
  <2>3. cached'[q] = cached[q] \/ cached'[q].used = cached[q].used
    <3>1. cached \in [Sessions -> CachedShape] /\ cached[q] \in CachedShape
      BY <1>s DEF SharedShape
    <3>2. CASE cached' = cached
      BY <3>2
    <3>3. CASE cached' = [cached EXCEPT ![sid[t]].written = w]
      BY <2>1, <3>1, <3>3 DEF CachedShape
    <3> QED
      BY <2>2, <3>2, <3>3
  <2> QED
    BY <2>1, <2>3 DEF UsesStayKnown
<1>7. ASSUME NEW t \in Threads, SkipPersist(t) \/ SignOutSteps(t) PROVE Rests
    BY <1>7 DEF SkipPersist, SignOutSteps, SignOut, Revoked, FirstPass, EndInMemory, EndSessionsOf, SecondPass,
        DroppedFromCache
<1>8. ASSUME NEW t \in Threads, Deletion(t) PROVE Rests
    BY <1>8 DEF Deletion, BeginDeletion, DeleteRows, RevokeAccount, DeleteAgain, DroppedFromCache
<1>9. ASSUME NEW t \in Threads, Recover(t) \/ Upsert(t) \/ Recheck(t) \/ Issue(t) \/ Confirm(t) PROVE Rests
    BY <1>9 DEF Recover, Upsert, Recheck, Issue, Revoked, Confirm, DroppedFromCache
<1>10. CASE OutsideStep \/ Tick \/ Restart
    BY <1>10 DEF OutsideStep, OperatorEnds, OperatorReadsBack, StoreFails, StoreAnswers, CollectGarbage, Tick, Restart,
        vars, DroppedFromCache, UsesStayKnown
<1>11. Rests => UsesStayKnown(q)
    BY DEF UsesStayKnown
<1> HIDE DEF Rests
<1> QED
    BY <1>1, <1>2, <1>3, <1>4, <1>5, <1>6, <1>7, <1>8, <1>9, <1>10, <1>11, OneStepsOrNone
       DEF ThreadStep, LookUp, Work, SignIn

LEMMA UsesStayRight ==
    ASSUME EndingInv, UsesAreKnown, [Next]_vars, ~Restart
    PROVE  UsesAreKnown'
<1>1. SharedShape /\ SharedShape' /\ LocalsShape /\ LocalsShape'
    BY ShapeOfLocals, ShapeOfTheShared DEF EndingInv, Shape
<1>2. clock \in Nat /\ clock' \in Nat /\ clock <= clock'
  <2>1. clock \in Nat /\ clock' \in Nat
    BY <1>1 DEF SharedShape
  <2>2. clock' = clock \/ clock' = clock + 1
    BY TickIs, TimeStands
  <2> QED
    BY <2>1, <2>2
<1>3. ASSUME NEW q \in Sessions
      PROVE  /\ lastUse' \in [Sessions -> Int]
             /\ lastUse'[q] >= Never /\ lastUse'[q] <= clock' /\ cached'[q].used <= lastUse'[q]
             /\ lastUse[q] <= lastUse'[q]
  <2>1. /\ lastUse \in [Sessions -> Int] /\ lastUse[q] \in Int /\ lastUse[q] >= -1 /\ lastUse[q] <= clock
        /\ cached[q].used <= lastUse[q]
    BY DEF UsesAreKnown, Never
  <2>2. cached'[q].used \in Int /\ cached[q].used \in Int
    BY <1>1 DEF SharedShape, CachedShape
  <2>3. NotCached.used = -1
    BY DEF NotCached, Never
  <2>4. CASE lastUse' = lastUse
    <3>1. /\ lastUse'[q] = lastUse[q]
          /\ \/ cached'[q].used = cached[q].used \/ cached'[q].used = -1
             \/ \E t \in Threads : pc[t] = "insert" /\ sid[t] = q /\ cached'[q].used = copy[t]
             \/ lastUse'[q] = clock
      BY <2>3, <2>4, UsesMove DEF UsesStayKnown
    <3>2. ASSUME NEW t \in Threads, pc[t] = "insert", sid[t] = q PROVE copy[t] <= lastUse[q]
      BY <3>2 DEF UsesAreKnown, Restoring
    <3>3. cached'[q].used <= clock'
      BY MomentsOfSessions
    <3>4. lastUse'[q] = clock => clock' = clock \/ cached'[q].used = cached[q].used
      <4>1. CASE Tick
        BY <4>1, TickIs
      <4>2. CASE ~Tick
        BY <4>2, TimeStands
      <4> QED
        BY <4>1, <4>2
    <3>5. cached'[q].used <= lastUse[q]
      BY <1>2, <2>1, <2>2, <3>1, <3>2, <3>3, <3>4
    <3> QED
      BY <1>2, <2>1, <2>4, <3>1, <3>5 DEF Never
  <2>5. CASE lastUse' # lastUse
    <3>1. PICK s \in Sessions : lastUse' = [lastUse EXCEPT ![s] = clock]
      BY <2>5, UsesMove DEF UsesStayKnown
    <3>2. lastUse' \in [Sessions -> Int] /\ (lastUse'[q] = lastUse[q] \/ lastUse'[q] = clock)
      BY <1>2, <2>1, <3>1
    <3>3. cached'[q].used = cached[q].used \/ cached'[q].used = -1 \/ lastUse'[q] = clock
      BY <2>3, <2>5, UsesMove DEF UsesStayKnown
    <3>4. clock' = clock
      <4>1. ~Tick
        BY <2>5 DEF Tick, promises
      <4> QED
        BY <4>1, TimeStands
    <3>5. cached'[q].used <= clock'
      BY MomentsOfSessions
    <3> QED
      BY <1>2, <2>1, <2>2, <3>2, <3>3, <3>4, <3>5 DEF Never
  <2> QED
    BY <2>4, <2>5
<1>4. ASSUME NEW q \in Sessions PROVE rows'[q] <= lastUse'[q]
  <2>1. /\ lastUse[q] \in Int /\ lastUse'[q] \in Int /\ lastUse[q] <= lastUse'[q] /\ rows[q] <= lastUse[q]
        /\ cached[q].used <= lastUse[q] /\ lastUse'[q] >= -1
    BY <1>3 DEF UsesAreKnown, Never
  <2>2. rows'[q] = rows[q] \/ rows'[q] = -1 \/ rows'[q] = cached[q].used
    <3>1. CASE Tick
      BY <3>1, TickIs
    <3>2. CASE ~Tick
      <4>1. Moves(q)
        BY <3>2, SessionsMove
      <4>2. ASSUME NEW t \in Threads, IsWritten(t, q) PROVE rows'[q] = rows[q] \/ rows'[q] = cached[q].used
        <5>1. copy[t] <= cached[q].used /\ copy[t] \in Int /\ cached[q].used \in Int
          BY <4>2, <1>1 DEF IsWritten, EndingInv, Holds, LocalsShape, SharedShape, CachedShape
        <5>2. Latest(cached[q].used, copy[t]) = cached[q].used
          BY <5>1 DEF Latest
        <5> QED
          BY <4>2, <5>2 DEF IsWritten
      <4> QED
        BY <4>1, <4>2 DEF Moves, OldMoves, Begins, Settles, RowSettles, IsRestored, IsUsed, Never
    <3> QED
      BY <3>1, <3>2
  <2>3. rows[q] \in Int /\ cached[q].used \in Int
    BY <1>1 DEF SharedShape, CachedShape
  <2> QED
    BY <2>1, <2>2, <2>3
<1>5. ASSUME NEW v \in Threads, pc'[v] \in Restoring PROVE copy'[v] <= lastUse'[sid'[v]]
  <2>1. /\ sid[v] \in Sessions /\ sid'[v] = sid[v]
        /\ (copy'[v] = copy[v] /\ copy[v] <= lastUse[sid[v]]) \/ copy'[v] = rows[sid[v]]
    BY <1>5, ReadersGoOn, Apart DEF GoesOnReading, ReadsTheRow, UsesAreKnown, EndingInv, Births
  <2>2. /\ lastUse[sid[v]] \in Int /\ lastUse'[sid[v]] \in Int /\ lastUse[sid[v]] <= lastUse'[sid[v]]
        /\ rows[sid[v]] <= lastUse[sid[v]] /\ rows[sid[v]] \in Int /\ copy[v] \in Int
    BY <1>1, <1>3, <2>1 DEF UsesAreKnown, SharedShape, LocalsShape
  <2> QED
    BY <2>1, <2>2
<1>6. lastUse' \in [Sessions -> Int]
  <2>1. CASE lastUse' = lastUse
    BY <2>1 DEF UsesAreKnown
  <2>2. CASE \E s \in Sessions : lastUse' = [lastUse EXCEPT ![s] = clock]
    BY <1>2, <2>2 DEF UsesAreKnown
  <2> QED
    BY <2>1, <2>2, LastUseMoves
<1> QED
    BY <1>3, <1>4, <1>5, <1>6 DEF UsesAreKnown

\* A deleted account stays deleted, and one there is not forgotten.
AccountMoves == account' = account \/ (account' = "recorded" /\ account # "gone") \/ account' = "gone"

\* What a thread may know of the account, of the session it asks for and of the
\* operator's command, once it has taken a step.
KnowsTheAccount(t) ==
    pc'[t] \in SigningIn => account' = "recorded" \/ (account' = account /\ pc[t] \in SigningIn)
KnowsTheSession(t) ==
    LET s == sid'[t] IN
    /\ pc'[t] = "check" => s \in Sessions /\ seen'[t] = cached[s].as /\ kind'[s] = kind[s]
    /\ pc'[t] \in {"cutoff", "insert"} =>
          /\ sid'[t] = sid[t] /\ kind' = kind
          /\ \/ pc[t] = "kind" /\ seen'[t] = KindRead(s)
             \/ pc[t] = "cutoff" /\ seen'[t] = seen[t]
NotRefusedYet(t) ==
    LET s == sid[t] IN
    \/ pc[t] \in Restoring
    \/ pc[t] = "fetch" /\ rows[s] # Never
    \/ pc[t] = "check" /\ (NeedsNoStore(seen[t]) \/ ~Before(s, cutoff))
ComesLate(t) ==
    late'[t] =>
        /\ pc'[t] \in {"check", "fetch"} => sid'[t] \in swept
        /\ pc'[t] \in Restoring \cup {"use"} => late[t] /\ NotRefusedYet(t)
        /\ acting'[t] # NoSession => late[t] /\ (acting[t] # NoSession \/ pc[t] = "use")
Knows(t) == KnowsTheAccount(t) /\ KnowsTheSession(t) /\ ComesLate(t)

LEMMA AnsweredKnows ==
    ASSUME LocalsShape, late \in [Threads -> BOOLEAN], NEW t \in Threads, NEW S,
           Done(t, S) \/ (Refuse(t, S) /\ pc[t] \in BeforeUse /\ acting[t] = NoSession)
    PROVE  Knows(t)
<1>1. CASE Done(t, S)
  <2>1. pc'[t] = "idle" /\ ~late'[t]
    BY <1>1 DEF Done, Goto, LocalsShape
  <2> QED
    BY <2>1, Apart DEF Knows, KnowsTheAccount, KnowsTheSession, ComesLate, SigningIn
<1>2. CASE Refuse(t, S) /\ ~Done(t, S) /\ acting[t] = NoSession
  <2>1. pc'[t] = "recover" /\ acting'[t] = NoSession
    BY <1>2 DEF Refuse, Goto, LocalsShape
  <2>2. "recover" \notin Restoring
    BY Apart DEF Plain
  <2> QED
    BY <2>1, <2>2 DEF Knows, KnowsTheAccount, KnowsTheSession, ComesLate, SigningIn
<1> QED
    BY <1>1, <1>2

LEMMA FoundKnows ==
    ASSUME LocalsShape, NEW t \in Threads, Found(t), NotRefusedYet(t), acting[t] = NoSession
    PROVE  Knows(t)
<1>1. pc'[t] \in {"use", "upsert"} /\ acting' = acting /\ late' = late
    BY DEF Found, Goto, LocalsShape
<1> QED
    BY <1>1 DEF Knows, KnowsTheAccount, KnowsTheSession, ComesLate, SigningIn

\* A step to a place that is neither in a lookup nor in a sign-in that goes on.
Elsewhere == {"unread", "outdated", "persist", "confirm", "revoke", "first pass", "memory", "second pass",
              "begin deletion", "delete rows", "revoke account", "delete again", "recover", "upsert"}
LEMMA ElsewhereIs ==
    \A l \in Elsewhere : l \notin SigningIn \cup Restoring \cup {"check", "fetch", "use", "cutoff", "insert"}
BY DEF Elsewhere, SigningIn, Restoring

LEMMA ElsewhereKnows ==
    ASSUME NEW t \in Threads, pc'[t] \in Elsewhere, late'[t] => late[t], acting'[t] = acting[t] \/ pc[t] = "use"
    PROVE  Knows(t)
BY ElsewhereIs DEF Knows, KnowsTheAccount, KnowsTheSession, ComesLate

LEMMA LookUpKnows ==
    ASSUME EndingInv, late \in [Threads -> BOOLEAN], NEW t \in Threads, LookUp(t)
    PROVE  Knows(t)
<1> USE DEF identity, memory, database, locals, promises
<1>s. LocalsShape
    BY DEF EndingInv, Shape
<1>a. pc[t] \in BeforeUse => acting[t] = NoSession
    BY DEF EndingInv, Holds
<1>g. ASSUME NEW l, Goto(t, l) PROVE pc'[t] = l
    BY <1>g, <1>s DEF Goto, LocalsShape
<1>1. CASE CheckCached(t)
  <2>1. pc[t] = "check" /\ acting[t] = NoSession /\ cutoff' = cutoff
    BY <1>1, <1>a, Apart DEF CheckCached
  <2>2. CASE Found(t) /\ (NeedsNoStore(seen[t]) \/ ~Before(sid[t], cutoff))
    BY <1>s, <2>1, <2>2, FoundKnows DEF NotRefusedYet
  <2>3. CASE (Goto(t, "outdated") \/ Goto(t, "unread")) /\ UNCHANGED <<acting, late>>
    BY <2>3, <1>g, ElsewhereKnows DEF Elsewhere
  <2> QED
    BY <1>1, <2>2, <2>3 DEF CheckCached
<1>2. CASE AnswerUnchecked(t) \/ AnswerOutdated(t)
  <2>1. pc[t] \in BeforeUse /\ \E S : Refuse(t, S)
    BY <1>2, Apart DEF AnswerUnchecked, AnswerOutdated
  <2> QED
    BY <1>a, <1>s, <2>1, AnsweredKnows
<1>3. CASE Fetch(t)
  <2>1. pc[t] = "fetch" /\ pc[t] \in BeforeUse
    BY <1>3, Apart DEF Fetch
  <2>2. CASE Refuse(t, {})
    BY <1>a, <1>s, <2>1, <2>2, AnsweredKnows
  <2>3. CASE Goto(t, "kind") /\ rows[sid[t]] # Never /\ UNCHANGED <<acting, late>>
    <3>1. pc'[t] = "kind" /\ NotRefusedYet(t) /\ acting'[t] = NoSession
      BY <1>a, <1>g, <2>1, <2>3 DEF NotRefusedYet
    <3> QED
      BY <2>3, <3>1 DEF Knows, KnowsTheAccount, KnowsTheSession, ComesLate, SigningIn
  <2> QED
    BY <1>3, <2>2, <2>3 DEF Fetch
<1>4. CASE LookUpKind(t) \/ ReadCutoff(t)
  <2>1. pc[t] \in Restoring /\ pc[t] \in BeforeUse /\ acting[t] = NoSession
    BY <1>4, <1>a, Apart DEF LookUpKind, ReadCutoff, Restoring
  <2>2. CASE Refuse(t, {})
    BY <1>s, <2>1, <2>2, AnsweredKnows
  <2>3. CASE ~Refuse(t, {})
    <3>1. /\ pc'[t] \in {"cutoff", "insert"} /\ UNCHANGED <<sid, kind, acting, late>>
          /\ \/ pc[t] = "kind" /\ seen'[t] = KindRead(sid[t])
             \/ pc[t] = "cutoff" /\ seen'[t] = seen[t]
      BY <1>4, <1>g, <1>s, <2>3 DEF LookUpKind, ReadCutoff, LocalsShape
    <3>2. NotRefusedYet(t)
      BY <2>1 DEF NotRefusedYet
    <3> QED
      BY <2>1, <3>1, <3>2 DEF Knows, KnowsTheAccount, KnowsTheSession, ComesLate, SigningIn
  <2> QED
    BY <2>2, <2>3
<1>5. CASE Insert(t)
  <2>1. pc[t] \in Restoring /\ pc[t] \in BeforeUse /\ acting[t] = NoSession
    BY <1>5, <1>a, Apart DEF Insert, Restoring
  <2>2. CASE Refuse(t, {})
    BY <1>s, <2>1, <2>2, AnsweredKnows
  <2>3. CASE Found(t)
    BY <1>s, <2>1, <2>3, FoundKnows DEF NotRefusedYet
  <2> QED
    BY <1>5, <2>2, <2>3 DEF Insert
<1> QED
    BY <1>1, <1>2, <1>3, <1>4, <1>5 DEF LookUp

LEMMA RequestsKnow ==
    ASSUME EndingInv, late \in [Threads -> BOOLEAN], NEW t \in Threads, Work(t) \/ SignOutSteps(t) \/ Deletion(t)
    PROVE  Knows(t)
<1> USE DEF identity, memory, database, locals, promises
<1>s. LocalsShape
    BY DEF EndingInv, Shape
<1>d. ASSUME NEW S, Done(t, S) PROVE Knows(t)
    BY <1>d, <1>s, AnsweredKnows
<1>g. ASSUME NEW l \in Elsewhere, Goto(t, l), late' = late, acting' = acting \/ pc[t] = "use" PROVE Knows(t)
  <2>1. pc'[t] = l
    BY <1>g, <1>s DEF Goto, LocalsShape
  <2> QED
    BY <1>g, <2>1, ElsewhereKnows
<1>c. ASSUME Continue(t), pc[t] = "persist" PROVE Knows(t)
  <2>1. CASE Done(t, {})
    BY <2>1, <1>d
  <2>2. CASE ~Done(t, {})
    <3>1. op[t] \in {"sign_out", "everywhere", "delete", "sign_in"} /\ UNCHANGED <<acting, late>>
      BY <1>c, <1>s, <2>2 DEF Continue, LocalsShape, Requests, EndingInv, Births
    <3>2. /\ op[t] = "sign_out" => Goto(t, "revoke")
          /\ op[t] = "everywhere" => Goto(t, "first pass")
          /\ op[t] = "delete" => Goto(t, "begin deletion")
          /\ op[t] = "sign_in" => Goto(t, "confirm")
      BY <1>c, <2>2, Zenon DEF Continue
    <3> QED
      BY <1>g, <3>1, <3>2 DEF Elsewhere
  <2> QED
    BY <2>1, <2>2
<1>1. CASE Use(t)
    BY <1>1, <1>d, <1>g DEF Use, Elsewhere
<1>2. CASE Persist(t) \/ SkipPersist(t)
    BY <1>2, <1>c DEF Persist, SkipPersist
<1>3. CASE SignOutSteps(t)
    BY <1>3, <1>d, <1>g DEF SignOutSteps, SignOut, FirstPass, EndInMemory, SecondPass, Elsewhere
<1>4. CASE Deletion(t)
    BY <1>4, <1>d, <1>g DEF Deletion, BeginDeletion, DeleteRows, RevokeAccount, DeleteAgain, Elsewhere
<1> QED
    BY <1>1, <1>2, <1>3, <1>4 DEF Work

LEMMA SignInsKnow ==
    ASSUME EndingInv, late \in [Threads -> BOOLEAN], NEW t \in Threads, SignIn(t)
    PROVE  Knows(t)
<1> USE DEF identity, memory, database, locals, promises
<1>s. LocalsShape
    BY DEF EndingInv, Shape
<1>d. ASSUME NEW S, Done(t, S) PROVE Knows(t)
    BY <1>d, <1>s, AnsweredKnows
<1>g. ASSUME NEW l \in Elsewhere, Goto(t, l), late' = late, acting' = acting PROVE Knows(t)
  <2>1. pc'[t] = l
    BY <1>g, <1>s DEF Goto, LocalsShape
  <2> QED
    BY <1>g, <2>1, ElsewhereKnows
<1>i. ASSUME NEW l \in SigningIn, Goto(t, l), late' = late, acting' = acting,
             account' = "recorded" \/ (account' = account /\ pc[t] \in SigningIn)
      PROVE  Knows(t)
  <2>1. pc'[t] = l /\ l \notin Restoring \cup {"check", "fetch", "use", "cutoff", "insert"}
    BY <1>i, <1>s DEF Goto, LocalsShape, SigningIn, Restoring
  <2>2. pc[t] \in {"upsert", "recheck", "issue", "create"} => acting'[t] = acting[t]
    BY <1>i
  <2> QED
    BY <1>i, <2>1 DEF Knows, KnowsTheAccount, KnowsTheSession, ComesLate
<1>1. CASE Recover(t)
    BY <1>1, <1>d, <1>g DEF Recover, Elsewhere
<1>2. CASE Upsert(t)
    BY <1>2, <1>d, <1>i DEF Upsert, SigningIn
<1>3. CASE Recheck(t) \/ Issue(t)
    BY <1>3, <1>d, <1>i DEF Recheck, Issue, SigningIn
<1>4. ASSUME NEW s \in Sessions, CreateSignedIn(t, s) PROVE Knows(t)
    BY <1>4, <1>g DEF CreateSignedIn, Create, Elsewhere
<1>5. CASE Confirm(t)
    BY <1>5, <1>d DEF Confirm
<1> QED
    BY <1>1, <1>2, <1>3, <1>4, <1>5 DEF SignIn

LEMMA ArrivalsKnow ==
    ASSUME EndingInv, late \in [Threads -> BOOLEAN], NEW t \in Threads, NEW s \in Sessions
    PROVE  /\ \A k \in scenario.kinds : Mint(t, s, k) => Knows(t)
           /\ \A o \in Requests : Arrive(t, s, o) => Knows(t)
<1> USE DEF identity, memory, database, locals, promises
<1>s. LocalsShape
    BY DEF EndingInv, Shape
<1>a. pc[t] = "idle" => acting[t] = NoSession
    BY Apart DEF EndingInv, Holds
<1>1. ASSUME NEW k \in scenario.kinds, Mint(t, s, k) PROVE Knows(t)
  <2>1. pc'[t] = "persist" /\ late' = late /\ acting' = acting
    BY <1>1, <1>s DEF Mint, Goto, LocalsShape
  <2> QED
    BY <2>1, ElsewhereKnows DEF Elsewhere
<1>2. ASSUME NEW o \in Requests, Arrive(t, s, o) PROVE Knows(t)
  <2>1. /\ pc'[t] \in {"check", "recover", "fetch"} /\ sid'[t] = s /\ kind' = kind /\ acting'[t] = NoSession
        /\ pc'[t] = "check" => seen'[t] = cached[s].as
        /\ late'[t] => s \in swept
    BY <1>2, <1>s, <1>a DEF Arrive, Goto, Locals, LocalsShape
  <2>2. "check" \notin Restoring /\ "recover" \notin Restoring /\ "fetch" \notin Restoring
    BY DEF Restoring
  <2> QED
    BY <2>1, <2>2 DEF Knows, KnowsTheAccount, KnowsTheSession, ComesLate, SigningIn
<1> QED
    BY <1>1, <1>2

\* Another thread's request is not late because of this one's step.
LEMMA EveryThreadKnows ==
    ASSUME EndingInv, late \in [Threads -> BOOLEAN], [Next]_vars, ~Restart, NEW v \in Threads
    PROVE  (Waits(v) /\ late'[v] = late[v]) \/ Knows(v)
<1> USE DEF promises
<1>1. CASE Tick \/ OutsideStep
  <2>1. late' = late
    BY <1>1 DEF Tick, OutsideStep, OperatorEnds, OperatorReadsBack, StoreFails, StoreAnswers, CollectGarbage, vars
  <2> QED
    BY <1>1, <2>1, AllWait
<1>2. CASE ~Tick /\ ~OutsideStep
  <2>1. PICK t \in Threads : ThreadStep(t)
    BY <1>2, OneStepsOrNone
  <2>2. CASE v = t
    BY <2>1, <2>2, LookUpKnows, RequestsKnow, SignInsKnow, ArrivalsKnow DEF ThreadStep
  <2>3. CASE v # t
    <3>1. \A b : late' = [late EXCEPT ![t] = b] => late'[v] = late[v]
      BY <2>3
    <3>2. ASSUME NEW S, Done(t, S) \/ Refuse(t, S) \/ Found(t) \/ Continue(t) PROVE late'[v] = late[v]
      BY <3>1, <3>2 DEF Done, Refuse, Found, Continue
    <3>3. ASSUME LookUp(t) PROVE late'[v] = late[v]
      BY <3>2, <3>3 DEF LookUp, CheckCached, AnswerUnchecked, AnswerOutdated, Fetch, LookUpKind, ReadCutoff, Insert
    <3>4. ASSUME Work(t) \/ SignOutSteps(t) PROVE late'[v] = late[v]
      BY <3>2, <3>4 DEF Work, Use, Persist, SkipPersist, SignOutSteps, SignOut, FirstPass, EndInMemory, SecondPass
    <3>5. ASSUME Deletion(t) \/ SignIn(t) PROVE late'[v] = late[v]
      BY <3>2, <3>5 DEF Deletion, BeginDeletion, DeleteRows, RevokeAccount, DeleteAgain,
          SignIn, Recover, Upsert, Recheck, Issue, CreateSignedIn, Confirm
    <3>6. ASSUME NEW s \in Sessions
          PROVE  /\ \A k \in scenario.kinds : Mint(t, s, k) => late'[v] = late[v]
                 /\ \A o \in Requests : Arrive(t, s, o) => late'[v] = late[v]
      BY <3>1 DEF Mint, Arrive
    <3> QED
      BY <2>1, <2>3, <3>3, <3>4, <3>5, <3>6, OthersWait DEF ThreadStep
  <2> QED
    BY <2>2, <2>3
<1> QED
    BY <1>1, <1>2

LEMMA AccountOnlyGrowsOlder ==
    ASSUME [Next]_vars
    PROVE  AccountMoves
<1> USE DEF database, AccountMoves
<1>1. ASSUME NEW t \in Threads, NEW s \in Sessions
      PROVE  /\ \A k \in scenario.kinds : Mint(t, s, k) => AccountMoves
             /\ \A o \in Requests : Arrive(t, s, o) => AccountMoves
    BY DEF Mint, Arrive
<1>2. ASSUME NEW t \in Threads, LookUp(t) \/ Work(t) PROVE AccountMoves
    BY <1>2 DEF LookUp, CheckCached, AnswerUnchecked, AnswerOutdated, Fetch, LookUpKind, ReadCutoff,
        Insert, Work, Use, Persist, SkipPersist
<1>3. ASSUME NEW t \in Threads, SignOutSteps(t) \/ Deletion(t) PROVE AccountMoves
    BY <1>3 DEF SignOutSteps, SignOut, FirstPass, EndInMemory, SecondPass,
        Deletion, BeginDeletion, DeleteRows, RevokeAccount, DeleteAgain
<1>4. ASSUME NEW t \in Threads, SignIn(t) PROVE AccountMoves
    BY <1>4 DEF SignIn, Recover, Upsert, Recheck, Issue, CreateSignedIn, Confirm
<1>5. CASE OutsideStep \/ Tick \/ Restart
    BY <1>5 DEF OutsideStep, Tick, OperatorEnds, OperatorReadsBack, StoreFails, StoreAnswers, CollectGarbage, vars,
        Restart
<1> QED
    BY <1>1, <1>2, <1>3, <1>4, <1>5, OneStepsOrNone DEF ThreadStep

\* A session of the account begins with a sign-in that wrote the account.
LEMMA SignedInBegins ==
    ASSUME EndingInv, [Next]_vars, ~Restart, NEW q \in Sessions, kind'[q] = "signed_in", kind[q] # "signed_in"
    PROVE  \E t \in Threads : pc[t] \in SigningIn /\ account' = account
<1> USE DEF identity, database
<1>s. SharedShape
    BY DEF EndingInv, Shape
<1>1. kind' # kind
    OBVIOUS
<1>2. ASSUME NEW t \in Threads, NEW s \in Sessions, NEW k \in scenario.kinds, Mint(t, s, k) PROVE FALSE
  <2>1. kind' = [kind EXCEPT ![s] = k] /\ k # "signed_in"
    BY <1>2, <1>s, TheKinds DEF Mint, Create, SharedShape
  <2> QED
    BY <2>1, <1>s DEF SharedShape
<1>3. ASSUME NEW t \in Threads, NEW s \in Sessions, NEW o \in Requests, Arrive(t, s, o) PROVE FALSE
    BY <1>1, <1>3 DEF Arrive
<1>4. ASSUME NEW t \in Threads, LookUp(t) \/ Work(t) PROVE FALSE
    BY <1>1, <1>4 DEF LookUp, CheckCached, AnswerUnchecked, AnswerOutdated, Fetch, LookUpKind, ReadCutoff,
        Insert, Work, Use, Persist, SkipPersist
<1>5. ASSUME NEW t \in Threads, SignOutSteps(t) \/ Deletion(t) PROVE FALSE
    BY <1>1, <1>5 DEF SignOutSteps, SignOut, FirstPass, EndInMemory, SecondPass,
        Deletion, BeginDeletion, DeleteRows, RevokeAccount, DeleteAgain
<1>6. ASSUME NEW t \in Threads, SignIn(t) PROVE pc[t] \in SigningIn /\ account' = account
    BY <1>1, <1>6 DEF SignIn, Recover, Upsert, Recheck, Issue, CreateSignedIn, Confirm, SigningIn
<1>7. CASE OutsideStep \/ Tick
    BY <1>1, <1>7 DEF OutsideStep, Tick, OperatorEnds, OperatorReadsBack, StoreFails, StoreAnswers, CollectGarbage, vars
<1> QED
    BY <1>2, <1>3, <1>4, <1>5, <1>6, <1>7, OneStepsOrNone DEF ThreadStep

LEMMA AccountStaysRight ==
    ASSUME EndingInv, OutsideInv, [Next]_vars, ~Restart
    PROVE  AccountStands'
<1>1. AccountMoves
    BY AccountOnlyGrowsOlder
<1>2. ASSUME account # "absent" PROVE account' # "absent"
    BY <1>1, <1>2 DEF AccountMoves
<1>3. ASSUME NEW q \in Sessions, kind'[q] = "signed_in" PROVE account' # "absent"
    BY <1>2, <1>3, SignedInBegins DEF OutsideInv, AccountStands
<1>4. ASSUME NEW v \in Threads, pc'[v] \in SigningIn PROVE account' # "absent"
    BY <1>2, <1>4, EveryThreadKnows
       DEF OutsideInv, AccountStands, LateAreRefused, Waits, SameLocals, Knows, KnowsTheAccount
<1>5. operatorCutoff' \in Int /\ (operator' = "read back" => account' # "absent")
  <2>1. clock \in Nat
    BY DEF EndingInv, Shape, SharedShape
  <2>2. CASE OperatorEnds
    <3>1. operatorCutoff' = clock /\ account' = account /\ account = "recorded"
      BY <2>2 DEF OperatorEnds
    <3> QED
      BY <2>1, <3>1
  <2>3. CASE OperatorReadsBack
    <3>1. operatorCutoff' = -1 /\ operator' = "idle"
      BY <2>3 DEF OperatorReadsBack, Never
    <3> QED
      BY <3>1
  <2>4. CASE ~OperatorEnds /\ ~OperatorReadsBack
    <3> USE DEF outside
    <3>1. ASSUME NEW t \in Threads, NEW s \in Sessions
          PROVE  /\ \A k \in scenario.kinds : Mint(t, s, k) => UNCHANGED outside
                 /\ \A o \in Requests : Arrive(t, s, o) => UNCHANGED outside
      BY DEF Mint, Arrive
    <3>2. ASSUME NEW t \in Threads, LookUp(t) \/ Work(t) PROVE UNCHANGED outside
      BY <3>2 DEF LookUp, CheckCached, AnswerUnchecked, AnswerOutdated, Fetch, LookUpKind, ReadCutoff,
          Insert, Work, Use, Persist, SkipPersist
    <3>3. ASSUME NEW t \in Threads, SignOutSteps(t) \/ Deletion(t) PROVE UNCHANGED outside
      BY <3>3 DEF SignOutSteps, SignOut, FirstPass, EndInMemory, SecondPass,
          Deletion, BeginDeletion, DeleteRows, RevokeAccount, DeleteAgain
    <3>4. ASSUME NEW t \in Threads, SignIn(t) PROVE UNCHANGED outside
      BY <3>4 DEF SignIn, Recover, Upsert, Recheck, Issue, CreateSignedIn, Confirm
    <3>5. ASSUME OutsideStep \/ Tick PROVE UNCHANGED outside
      BY <2>4, <3>5 DEF OutsideStep, Tick, StoreFails, StoreAnswers, CollectGarbage, vars
    <3>6. UNCHANGED outside
      BY <3>1, <3>2, <3>3, <3>4, <3>5, OneStepsOrNone DEF ThreadStep
    <3> QED
      BY <1>2, <3>6 DEF OutsideInv, AccountStands
  <2> QED
    BY <2>2, <2>3, <2>4
<1>6. account' \in {"absent", "recorded", "gone"}
    BY <1>1 DEF AccountMoves, OutsideInv, AccountStands
<1> QED
    BY <1>3, <1>4, <1>5, <1>6 DEF AccountStands

LEMMA GoneStays ==
    ASSUME EndingInv, OutsideInv, [Next]_vars
    PROVE  /\ account = "gone" => account' = "gone"
           /\ account # "absent" => account' # "absent"
           /\ account' = "recorded" /\ account # "absent" => account = "recorded"
BY AccountOnlyGrowsOlder DEF AccountMoves, OutsideInv, AccountStands

LEMMA NamesOfKinds ==
    /\ ~NeedsNoStore(NotCached.as) /\ ~NeedsNoStore("signed_in")
    /\ \A k : NeedsNoStore(k) => k \in {"anonymous", "sign_in_only"}
BY DEF NotCached, NeedsNoStore

LEMMA TakenStaysRight ==
    ASSUME EndingInv, OutsideInv, [Next]_vars, ~Restart
    PROVE  TakenForAnonymous'
<1>1. ASSUME NEW q \in Sessions, kind'[q] = "signed_in", NeedsNoStore(cached'[q].as) PROVE account' = "gone"
  <2>1. CASE Tick
    <3>1. UNCHANGED <<kind, cached, account>>
      BY <2>1, TickIs
    <3> QED
      BY <1>1, <3>1 DEF OutsideInv, TakenForAnonymous
  <2>2. CASE ~Tick
    <3>1. Moves(q)
      BY <2>2, SessionsMove
    <3>2. CASE Begins(q)
      <4>1. cached'[q].as = "signed_in"
        BY <1>1, <3>2 DEF Begins
      <4> QED
        BY <1>1, <4>1, NamesOfKinds
    <3>3. CASE OldMoves(q)
      <4>1. kind[q] = "signed_in"
        BY <1>1, <3>3 DEF OldMoves
      <4>2. ASSUME NEW t \in Threads, IsRestored(t, q) PROVE account = "gone"
        <5>1. pc[t] = "insert" /\ sid[t] = q /\ cached'[q].as = seen[t]
          BY <4>2 DEF IsRestored
        <5> QED
          BY <1>1, <4>1, <5>1 DEF OutsideInv, TakenForAnonymous
      <4>3. ASSUME cached'[q].as = cached[q].as PROVE account = "gone"
        BY <1>1, <4>1, <4>3 DEF OutsideInv, TakenForAnonymous
      <4>4. cached[q] \in CachedShape
        BY DEF EndingInv, Shape, SharedShape
      <4>5. ASSUME NEW t \in Threads, IsUsed(t, q) \/ IsWritten(t, q) PROVE cached'[q].as = cached[q].as
        BY <4>4, <4>5 DEF IsUsed, IsWritten, CachedShape
      <4>6. ASSUME Settles(q) PROVE cached'[q].as = cached[q].as
        BY <1>1, <4>6, NamesOfKinds DEF Settles, CacheSettles, Leaves
      <4>7. account = "gone"
        BY <3>3, <4>2, <4>3, <4>5, <4>6 DEF OldMoves
      <4> QED
        BY <4>7, GoneStays
    <3> QED
      BY <3>1, <3>2, <3>3 DEF Moves
  <2> QED
    BY <2>1, <2>2
<1>2. ASSUME NEW v \in Threads, pc'[v] \in {"check", "cutoff", "insert"}, kind'[sid'[v]] = "signed_in",
             NeedsNoStore(seen'[v])
      PROVE  account' = "gone"
  <2>1. CASE Waits(v)
    <3>1. /\ pc[v] \in {"check", "cutoff", "insert"} /\ sid'[v] = sid[v] /\ seen'[v] = seen[v]
          /\ sid[v] \in Sessions /\ ~Unborn(sid[v])
      BY <1>2, <2>1 DEF Waits, SameLocals, EndingInv, Births
    <3>2. kind'[sid[v]] = kind[sid[v]]
      <4>1. CASE Tick
        BY <4>1, TickIs
      <4>2. CASE ~Tick
        BY <3>1, <4>2, SessionsMove DEF Moves, Begins, OldMoves
      <4> QED
        BY <4>1, <4>2
    <3> QED
      BY <1>2, <3>1, <3>2, GoneStays DEF OutsideInv, TakenForAnonymous
  <2>2. CASE Knows(v)
    <3>1. CASE pc'[v] = "check"
      <4>1. sid'[v] \in Sessions /\ kind[sid'[v]] = "signed_in" /\ NeedsNoStore(cached[sid'[v]].as)
        BY <1>2, <2>2, <3>1 DEF Knows, KnowsTheSession
      <4> QED
        BY <4>1, GoneStays DEF OutsideInv, TakenForAnonymous
    <3>2. CASE pc'[v] \in {"cutoff", "insert"}
      <4>1. /\ sid'[v] = sid[v] /\ kind[sid[v]] = "signed_in"
            /\ \/ pc[v] = "kind" /\ seen'[v] = KindRead(sid[v])
               \/ pc[v] = "cutoff" /\ seen'[v] = seen[v]
        BY <1>2, <2>2, <3>2 DEF Knows, KnowsTheSession
      <4>2. CASE pc[v] = "cutoff" /\ seen'[v] = seen[v]
        BY <1>2, <4>1, <4>2, GoneStays DEF OutsideInv, TakenForAnonymous
      <4>3. CASE pc[v] = "kind" /\ seen'[v] = KindRead(sid[v])
        <5>1. account # "recorded"
          BY <1>2, <4>1, <4>3 DEF KindRead, NeedsNoStore
        <5>2. account # "absent" /\ account \in {"absent", "recorded", "gone"}
          <6>1. sid[v] \in Sessions
            BY <4>3 DEF EndingInv, Births
          <6> QED
            BY <4>1, <6>1 DEF OutsideInv, AccountStands
        <5> QED
          BY <5>1, <5>2, GoneStays
      <4> QED
        BY <4>1, <4>2, <4>3
    <3> QED
      BY <1>2, <3>1, <3>2
  <2> QED
    BY <2>1, <2>2, EveryThreadKnows DEF OutsideInv, LateAreRefused
<1> QED
    BY <1>1, <1>2 DEF TakenForAnonymous

\* SessionStore.save writes no row the account's cutoff refuses.
LEMMA RefusedRowsStayAway ==
    ASSUME EndingInv, [Next]_vars, ~Restart, NEW q \in Sessions, account = "recorded", Before(q, cutoff)
    PROVE  rows'[q] \in {rows[q], Never}
<1> USE DEF database
<1>s. SharedShape /\ \A t \in Threads : pc[t] # "idle" => sid[t] \in Sessions
    BY DEF EndingInv, Shape, Births, SharedShape
<1>1. ASSUME NEW t \in Threads, Persist(t) PROVE rows'[q] \in {rows[q], Never}
  <2>1. sid[t] \in Sessions
    BY <1>1, <1>s DEF Persist
  <2>2. rows' = rows \/ (rows' = [rows EXCEPT ![sid[t]] = Latest(cached[sid[t]].used, copy[t])] /\ ~Before(sid[t], cutoff))
    BY <1>1 DEF Persist, Saved
  <2> QED
    BY <2>1, <2>2, <1>s DEF SharedShape
<1>2. ASSUME NEW t \in Threads, LookUp(t) \/ Use(t) \/ SkipPersist(t) PROVE rows' = rows
    BY <1>2 DEF LookUp, CheckCached, AnswerUnchecked, AnswerOutdated, Fetch, LookUpKind, ReadCutoff, Insert, Use,
        SkipPersist
<1>3. ASSUME NEW t \in Threads, SignOutSteps(t) PROVE rows'[q] \in {rows[q], Never}
  <2>1. sid[t] \in Sessions \/ ~SignOut(t)
    BY <1>s DEF SignOut
  <2> QED
    BY <1>3, <2>1, <1>s DEF SignOutSteps, SignOut, Revoked, FirstPass, EndInMemory, SecondPass, EndRows, SharedShape
<1>4. ASSUME NEW t \in Threads, Deletion(t) PROVE rows'[q] \in {rows[q], Never}
    BY <1>4 DEF Deletion, BeginDeletion, DeleteRows, RevokeAccount, DeleteAgain
<1>5. ASSUME NEW t \in Threads, SignIn(t) PROVE rows'[q] \in {rows[q], Never}
    BY <1>5, <1>s DEF SignIn, Recover, Upsert, Recheck, Issue, CreateSignedIn, Confirm, Revoked, SharedShape
<1>6. ASSUME NEW t \in Threads, NEW s \in Sessions
      PROVE  /\ \A k \in scenario.kinds : Mint(t, s, k) => rows' = rows
             /\ \A o \in Requests : Arrive(t, s, o) => rows' = rows
    BY DEF Mint, Arrive
<1>7. ASSUME OutsideStep \/ Tick PROVE rows'[q] \in {rows[q], Never}
    BY <1>7 DEF OutsideStep, Tick, OperatorEnds, EndRows, OperatorReadsBack, StoreFails, StoreAnswers, CollectGarbage,
        RowsAfterPurge, vars
<1> QED
    BY <1>1, <1>2, <1>3, <1>4, <1>5, <1>6, <1>7, OneStepsOrNone DEF ThreadStep, Work

LEMMA SweptMoves ==
    ASSUME [Next]_vars
    PROVE  swept' = swept \/ OperatorReadsBack
<1> USE DEF promises
<1>1. ASSUME NEW t \in Threads, NEW s \in Sessions
      PROVE  /\ \A k \in scenario.kinds : Mint(t, s, k) => swept' = swept
             /\ \A o \in Requests : Arrive(t, s, o) => swept' = swept
    BY DEF Mint, Arrive
<1>2. ASSUME NEW t \in Threads, LookUp(t) \/ Work(t) PROVE swept' = swept
    BY <1>2 DEF LookUp, CheckCached, AnswerUnchecked, AnswerOutdated, Fetch, LookUpKind, ReadCutoff,
        Insert, Work, Use, Persist, SkipPersist
<1>3. ASSUME NEW t \in Threads, SignOutSteps(t) \/ Deletion(t) PROVE swept' = swept
    BY <1>3 DEF SignOutSteps, SignOut, FirstPass, EndInMemory, SecondPass,
        Deletion, BeginDeletion, DeleteRows, RevokeAccount, DeleteAgain
<1>4. ASSUME NEW t \in Threads, SignIn(t) PROVE swept' = swept
    BY <1>4 DEF SignIn, Recover, Upsert, Recheck, Issue, CreateSignedIn, Confirm
<1>5. ASSUME OutsideStep \/ Tick \/ Restart PROVE swept' = swept \/ OperatorReadsBack
    BY <1>5 DEF OutsideStep, OperatorEnds, StoreFails, StoreAnswers, CollectGarbage, Tick, Restart, vars
<1> QED
    BY <1>1, <1>2, <1>3, <1>4, <1>5, OneStepsOrNone DEF ThreadStep

LEMMA SweptStayOver ==
    ASSUME EndingInv, OutsideInv, [Next]_vars, ~Restart
    PROVE  SweptAreOver' /\ swept \subseteq swept'
<1>t. /\ cutoff \in Int /\ clock \in Nat /\ operatorCutoff \in Int
      /\ \A t \in Threads : read[t] \in Int
      /\ \A s \in Sessions : born[s] \in Int
    BY DEF EndingInv, Shape, SharedShape, LocalsShape, OutsideInv, AccountStands
<1>1. ASSUME NEW q \in swept
      PROVE  /\ q \in Sessions /\ kind'[q] = "signed_in"
             /\ account' = "recorded" => born'[q] <= cutoff' /\ rows'[q] = Never
  <2>1. q \in Sessions /\ kind[q] = "signed_in" /\ account # "absent"
    BY DEF OutsideInv, SweptAreOver, AccountStands
  <2>2. kind'[q] = kind[q] /\ born'[q] = born[q]
    <3>1. CASE Tick
      BY <3>1, TickIs
    <3>2. CASE ~Tick
      BY <2>1, <3>2, SessionsMove DEF Moves, Begins, OldMoves, Unborn
    <3> QED
      BY <3>1, <3>2
  <2>3. ASSUME account' = "recorded" PROVE born'[q] <= cutoff' /\ rows'[q] = Never
    <3>1. account = "recorded"
      BY <2>1, <2>3, GoneStays
    <3>2. born[q] <= cutoff /\ rows[q] = Never
      BY <3>1 DEF OutsideInv, SweptAreOver
    <3>3. cutoff' = cutoff \/ \E c \in Int : cutoff' = Latest(cutoff, c)
      <4>1. AccountRises
        BY CutoffsMove
      <4> QED
        BY <1>t, <2>3, <4>1 DEF AccountRises
    <3>4. cutoff <= cutoff' /\ cutoff' \in Int
      BY <1>t, <3>3 DEF Latest
    <3>5. rows'[q] = Never
      BY <2>1, <3>1, <3>2, RefusedRowsStayAway DEF Before
    <3>6. born[q] \in Int
      BY <1>t, <2>1
    <3> QED
      BY <1>t, <2>2, <3>2, <3>4, <3>5, <3>6
  <2> QED
    BY <2>1, <2>2, <2>3
<1>2. CASE swept' = swept
    BY <1>1, <1>2 DEF SweptAreOver, OutsideInv
<1>3. CASE OperatorReadsBack
  <2> DEFINE S == { s \in Sessions : Before(s, operatorCutoff) }
  <2>1. /\ UNCHANGED <<kind, born, account, cutoff>>
        /\ rows' = [s \in Sessions |-> IF s \in S THEN Never ELSE rows[s]]
        /\ swept' = swept \/ (swept' = swept \cup S /\ (account = "recorded" => cutoff >= operatorCutoff))
    BY <1>3 DEF OperatorReadsBack, identity
  <2>2. ASSUME NEW q \in S, account = "recorded" => cutoff >= operatorCutoff
        PROVE  /\ q \in Sessions /\ kind'[q] = "signed_in"
               /\ account' = "recorded" => born'[q] <= cutoff' /\ rows'[q] = Never
    <3>1. q \in Sessions /\ kind[q] = "signed_in" /\ born[q] <= operatorCutoff
      BY DEF Before
    <3>2. born[q] \in Int
      BY <1>t, <3>1
    <3> QED
      BY <1>t, <2>1, <2>2, <3>1, <3>2
  <2> HIDE DEF S
  <2>3. CASE swept' = swept \cup S /\ (account = "recorded" => cutoff >= operatorCutoff)
    BY <1>1, <2>2, <2>3 DEF SweptAreOver
  <2> QED
    BY <1>2, <2>1, <2>3
<1> QED
    BY <1>2, <1>3, SweptMoves

LEMMA LateStayRefused ==
    ASSUME EndingInv, OutsideInv, [Next]_vars, ~Restart
    PROVE  LateAreRefused'
<1>1. ASSUME NEW v \in Threads, late'[v], pc'[v] \in {"check", "fetch"} PROVE sid'[v] \in swept'
    BY <1>1, EveryThreadKnows, SweptStayOver
       DEF OutsideInv, LateAreRefused, Waits, SameLocals, Knows, ComesLate
<1>2. ASSUME NEW v \in Threads, late[v], NotRefusedYet(v) PROVE account = "gone"
  <2>1. CASE pc[v] \in Restoring
    BY <1>2, <2>1 DEF OutsideInv, LateAreRefused
  <2>2. CASE pc[v] \in {"check", "fetch"}
    <3>1. sid[v] \in swept
      BY <1>2, <2>2 DEF OutsideInv, LateAreRefused
    <3>2. /\ sid[v] \in Sessions /\ kind[sid[v]] = "signed_in"
          /\ account = "recorded" => Before(sid[v], cutoff) /\ rows[sid[v]] = Never
      BY <3>1 DEF OutsideInv, SweptAreOver, Before
    <3>3. account \in {"recorded", "gone"}
      BY <3>2 DEF OutsideInv, AccountStands
    <3>4. CASE pc[v] = "check" /\ NeedsNoStore(seen[v])
      BY <3>2, <3>4 DEF OutsideInv, TakenForAnonymous
    <3>5. "check" \notin Restoring /\ "fetch" \notin Restoring
      BY DEF Restoring
    <3> QED
      BY <1>2, <2>2, <3>2, <3>3, <3>4, <3>5 DEF NotRefusedYet
  <2> QED
    BY <1>2, <2>1, <2>2 DEF NotRefusedYet
<1>3. ASSUME NEW v \in Threads, late'[v], pc'[v] \in Restoring \cup {"use"} \/ acting'[v] # NoSession
      PROVE  account' = "gone"
  <2>1. CASE Waits(v) /\ late'[v] = late[v]
    <3>1. late[v] /\ (pc[v] \in Restoring \cup {"use"} \/ acting[v] # NoSession)
      BY <1>3, <2>1 DEF Waits, SameLocals
    <3> QED
      BY <3>1, GoneStays DEF OutsideInv, LateAreRefused
  <2>2. CASE Knows(v)
    <3>1. CASE pc'[v] \in Restoring \cup {"use"}
      <4>1. late[v] /\ NotRefusedYet(v)
        BY <1>3, <2>2, <3>1 DEF Knows, ComesLate
      <4> QED
        BY <1>2, <4>1, GoneStays
    <3>2. CASE acting'[v] # NoSession
      <4>1. late[v] /\ (acting[v] # NoSession \/ pc[v] = "use")
        BY <1>3, <2>2, <3>2 DEF Knows, ComesLate
      <4> QED
        BY <4>1, GoneStays DEF OutsideInv, LateAreRefused
    <3> QED
      BY <1>3, <3>1, <3>2
  <2> QED
    BY <2>1, <2>2, EveryThreadKnows DEF OutsideInv, LateAreRefused
<1>4. late' \in [Threads -> BOOLEAN]
  <2> USE DEF promises
  <2>1. late \in [Threads -> BOOLEAN]
    BY DEF OutsideInv, LateAreRefused
  <2>2. ASSUME NEW t, NEW b \in BOOLEAN, late' = [late EXCEPT ![t] = b] PROVE late' \in [Threads -> BOOLEAN]
    BY <2>1, <2>2
  <2>3. ASSUME NEW t, NEW S, Done(t, S) \/ Refuse(t, S) \/ Found(t) \/ Continue(t) \/ late' = late
        PROVE  late' \in [Threads -> BOOLEAN]
    BY <2>1, <2>3 DEF Done, Refuse, Found, Continue
  <2>4. ASSUME NEW t \in Threads, LookUp(t) PROVE late' \in [Threads -> BOOLEAN]
    BY <2>3, <2>4 DEF LookUp, CheckCached, AnswerUnchecked, AnswerOutdated, Fetch, LookUpKind, ReadCutoff, Insert
  <2>5. ASSUME NEW t \in Threads, Work(t) \/ SignOutSteps(t) PROVE late' \in [Threads -> BOOLEAN]
    BY <2>3, <2>5 DEF Work, Use, Persist, SkipPersist, SignOutSteps, SignOut, FirstPass, EndInMemory, SecondPass
  <2>6. ASSUME NEW t \in Threads, Deletion(t) \/ SignIn(t) PROVE late' \in [Threads -> BOOLEAN]
    BY <2>3, <2>6 DEF Deletion, BeginDeletion, DeleteRows, RevokeAccount, DeleteAgain,
        SignIn, Recover, Upsert, Recheck, Issue, CreateSignedIn, Confirm
  <2>7. ASSUME NEW t \in Threads, NEW s \in Sessions
        PROVE  /\ \A k \in scenario.kinds : Mint(t, s, k) => late' \in [Threads -> BOOLEAN]
               /\ \A o \in Requests : Arrive(t, s, o) => late' \in [Threads -> BOOLEAN]
    <3>1. (s \in swept) \in BOOLEAN
      OBVIOUS
    <3>2. [late EXCEPT ![t] = (s \in swept)] \in [Threads -> BOOLEAN]
      <4> DEFINE b == s \in swept
      <4>1. b \in BOOLEAN
        BY <3>1
      <4> HIDE DEF b
      <4>2. [late EXCEPT ![t] = b] \in [Threads -> BOOLEAN]
        BY <2>1, <4>1
      <4> QED
        BY <4>2 DEF b
    <3>3. \A o \in Requests : Arrive(t, s, o) => late' = [late EXCEPT ![t] = (s \in swept)]
      BY DEF Arrive
    <3>4. \A k \in scenario.kinds : Mint(t, s, k) => late' = late
      BY DEF Mint
    <3> QED
      BY <2>1, <3>2, <3>3, <3>4
  <2>8. ASSUME OutsideStep \/ Tick PROVE late' \in [Threads -> BOOLEAN]
    BY <2>1, <2>8 DEF OutsideStep, Tick, OperatorEnds, OperatorReadsBack, StoreFails, StoreAnswers, CollectGarbage, vars
  <2> QED
    BY <2>4, <2>5, <2>6, <2>7, <2>8, OneStepsOrNone DEF ThreadStep
<1> QED
    BY <1>1, <1>3, <1>4 DEF LateAreRefused

LEMMA OutsideStepsKeep ==
    ASSUME EndingInv, OutsideInv, [Next]_vars
    PROVE  OutsideInv'
<1>1. CASE ~Restart
    BY <1>1, UsesStayRight, AccountStaysRight, TakenStaysRight, SweptStayOver, LateStayRefused DEF OutsideInv
<1>2. CASE Restart
  <2>1. /\ UNCHANGED <<clock, kind, born, rows, account, cutoff, operator, operatorCutoff, swept, lastUse>>
        /\ \A s \in Sessions : cached'[s] = NotCached
        /\ \A t \in Threads : pc'[t] = "idle" /\ acting'[t] = NoSession
        /\ late' = [t \in Threads |-> FALSE]
    BY <1>2 DEF Restart, identity, database, outside
  <2>2. "idle" \notin Restoring \cup SigningIn \cup {"check", "cutoff", "insert", "fetch", "use"}
    BY DEF Restoring, SigningIn
  <2>3. NotCached.used = Never
    BY DEF NotCached
  <2>4. UsesAreKnown'
    BY <2>1, <2>2, <2>3 DEF OutsideInv, UsesAreKnown
  <2>5. AccountStands' /\ SweptAreOver'
    BY <2>1, <2>2 DEF OutsideInv, AccountStands, SweptAreOver
  <2>6. TakenForAnonymous'
    BY <2>1, <2>2, NamesOfKinds DEF TakenForAnonymous
  <2>7. LateAreRefused'
    BY <2>1 DEF LateAreRefused
  <2> QED
    BY <2>4, <2>5, <2>6, <2>7 DEF OutsideInv
<1> QED
    BY <1>1, <1>2

LEMMA NothingEndedYet ==
    ASSUME Init
    PROVE  OutsideInv
<1> DEFINE Held == scenario.held
<1>1. /\ clock = 0 /\ Held \in SUBSET Sessions /\ swept = {} /\ operator = "idle" /\ operatorCutoff = -1
      /\ account = (IF Held = {} THEN "absent" ELSE "recorded")
      /\ late = [t \in Threads |-> FALSE]
      /\ \A t \in Threads : pc[t] = "idle"
    BY ScenarioAssumption DEF Init, Never, Scenario
<1>2. /\ lastUse = [s \in Sessions |-> IF s \in Held THEN 0 ELSE -1]
      /\ rows = [s \in Sessions |-> IF s \in Held THEN 0 ELSE -1]
      /\ kind = [s \in Sessions |-> IF s \in Held THEN "signed_in" ELSE "none"]
      /\ cached = [s \in Sessions |->
              IF s \in Held THEN [used |-> 0, written |-> 0, as |-> "signed_in"] ELSE NotCached]
    BY DEF Init, Never
<1>3. "idle" \notin Restoring \cup SigningIn \cup {"check", "cutoff", "insert", "fetch", "use"}
    BY DEF Restoring, SigningIn
<1> HIDE DEF Held
<1>4. ASSUME NEW s \in Sessions
      PROVE  /\ lastUse[s] \in {0, -1} /\ cached[s].used = lastUse[s] /\ rows[s] = lastUse[s]
             /\ kind[s] = "signed_in" => Held # {} /\ ~NeedsNoStore(cached[s].as)
  <2>1. NotCached.used = -1
    BY DEF NotCached, Never
  <2> QED
    BY <1>2, <2>1, NamesOfKinds
<1>5. UsesAreKnown
  <2>1. lastUse \in [Sessions -> Int]
    BY <1>2
  <2> QED
    BY <1>1, <1>3, <1>4, <2>1 DEF UsesAreKnown, Never
<1>6. AccountStands
    BY <1>1, <1>3, <1>4 DEF AccountStands
<1>7. TakenForAnonymous /\ SweptAreOver
    BY <1>1, <1>3, <1>4 DEF TakenForAnonymous, SweptAreOver
<1>8. LateAreRefused
    BY <1>1 DEF LateAreRefused
<1> QED
    BY <1>5, <1>6, <1>7, <1>8 DEF OutsideInv

\* What memory knows of an ending elsewhere is never more than what the account
\* and the rows say of it, and a session counts as used no later than it was
\* (auth.py _check_cached, _restore_lookup, _persist; session_store.py save;
\* end_sessions.py _read_back).
THEOREM OutsideInvariant == Spec => []OutsideInv
<1>1. Init => OutsideInv
    BY NothingEndedYet
<1>2. EndingInv /\ OutsideInv /\ [Next]_vars => OutsideInv'
    BY OutsideStepsKeep
<1> QED
    BY <1>1, <1>2, EndingInvariant, PTL DEF Spec

\* A session used within the limits it is held to is within those of its kind.
LEMMA HeldLimitsAreItsOwn ==
    ASSUME EndingInv, OutsideInv, NEW s \in Sessions, InCache(s), ~Unborn(s), ~Expired(s),
           kind[s] = "signed_in" => account = "recorded"
    PROVE  clock - lastUse[s] <= IdleLimit(kind[s]) /\ clock - born[s] <= MaxAge(kind[s])
<1>1. /\ clock \in Nat /\ born[s] \in Int /\ lastUse[s] \in Int /\ cached[s].used \in Int
      /\ cached[s].used <= lastUse[s]
    BY DEF EndingInv, Shape, SharedShape, CachedShape, OutsideInv, UsesAreKnown
<1>2. clock - cached[s].used <= IdleLimit(HeldKind(s)) /\ clock - born[s] <= MaxAge(HeldKind(s))
  <2>1. IdleLimit(HeldKind(s)) \in Nat /\ MaxAge(HeldKind(s)) \in Nat
    BY TheLimits DEF IdleLimit, MaxAge
  <2> QED
    BY <1>1, <2>1 DEF Expired, ExpiredAt
<1>3. \/ HeldKind(s) = "signed_in" /\ kind[s] = "signed_in"
      \/ kind[s] # "signed_in"
  <2>1. cached[s].as \in HeldAs
    BY DEF EndingInv, CachedIsLive
  <2>2. kind[s] = "signed_in" => ~NeedsNoStore(cached[s].as)
    BY DEF OutsideInv, TakenForAnonymous
  <2> QED
    BY <2>1, <2>2 DEF HeldKind, HeldAs, NeedsNoStore
<1>4. /\ IdleLimit(HeldKind(s)) <= IdleLimit(kind[s]) /\ MaxAge(HeldKind(s)) <= MaxAge(kind[s])
      /\ IdleLimit(HeldKind(s)) \in Nat /\ MaxAge(HeldKind(s)) \in Nat
      /\ IdleLimit(kind[s]) \in Nat /\ MaxAge(kind[s]) \in Nat
    BY <1>3, TheLimits DEF IdleLimit, MaxAge
<1> QED
    BY <1>1, <1>2, <1>4

LEMMA OnlyLiveSessionsAct ==
    ASSUME EndingInv, OutsideInv, [Next]_vars, NEW t \in Threads, acting[t] = NoSession, acting'[t] # NoSession,
           kind[acting'[t]] = "signed_in" => account = "recorded"
    PROVE  LET s == acting'[t] IN clock - lastUse[s] <= IdleLimit(kind[s]) /\ clock - born[s] <= MaxAge(kind[s])
<1>1. ~Restart
    BY DEF Restart
<1>2. acting' # acting
    OBVIOUS
<1>3. ~OutsideStep /\ ~Tick
    BY <1>2, WhatHappensOutside
<1>4. PICK u \in Threads : ThreadStep(u)
    BY <1>1, <1>3, OneStepsOrNone
<1>5. ~BeginsOne
    BY <1>2 DEF BeginsOne
<1>6. ~ActsNoMore
  <2>1. ASSUME NEW F \in SUBSET Threads, acting' = [v \in Threads |-> IF v \in F THEN NoSession ELSE acting[v]]
        PROVE  acting'[t] = NoSession
    BY <2>1
  <2> QED
    BY <2>1 DEF ActsNoMore
<1>7. StartsToAct(u)
    BY <1>4, <1>5, <1>6, WhatThreadsDo
<1>8. acting'[t] = sid[u] /\ own[u] /\ ~Expired(sid[u]) /\ pc[u] = "use"
  <2>1. acting \in [Threads -> Sessions \cup {NoSession}]
    BY DEF EndingInv, Shape, LocalsShape
  <2> QED
    BY <1>7, <2>1 DEF StartsToAct
<1>9. sid[u] \in Sessions /\ ~Unborn(sid[u]) /\ InCache(sid[u])
    BY <1>8 DEF EndingInv, Births, Holds
<1> QED
    BY <1>8, <1>9, HeldLimitsAreItsOwn

\* What ends a session from outside of the app's memory, the operator's command
\* or the time, holds for every request after it (end_sessions.py; is_expired in
\* use, fetch_checked's limits, _restore_lookup).
THEOREM EndedOutsideNeverActs == Spec => SessionEndedOutsideNeverActs
<1>1. EndingInv /\ OutsideInv => EndedElsewhereStaysEnded
  <2> SUFFICES ASSUME EndingInv, OutsideInv PROVE EndedElsewhereStaysEnded
    OBVIOUS
  <2>1. \A t \in Threads : late[t] /\ acting[t] # NoSession => account # "recorded"
    BY DEF OutsideInv, LateAreRefused
  <2>2. \A s \in Sessions : promised[s] = "ended" => rows[s] = Never
    BY DEF EndingInv, EndedIsBarred
  <2>3. \A s \in Sessions : s \in swept /\ account = "recorded" => rows[s] = Never
    BY DEF OutsideInv, SweptAreOver
  <2> QED
    BY <2>1, <2>2, <2>3 DEF EndedElsewhereStaysEnded
<1>2. EndingInv /\ OutsideInv /\ [Next]_vars =>
        [\A t \in Threads :
            LET s == acting'[t] IN
            acting[t] = NoSession /\ s # NoSession /\ (kind[s] = "signed_in" => account = "recorded")
                => /\ clock - lastUse[s] <= IdleLimit(kind[s])
                   /\ clock - born[s] <= MaxAge(kind[s])]_vars
  <2> SUFFICES ASSUME EndingInv, OutsideInv, [Next]_vars, NEW t \in Threads,
                      acting[t] = NoSession, acting'[t] # NoSession,
                      kind[acting'[t]] = "signed_in" => account = "recorded"
               PROVE  /\ clock - lastUse[acting'[t]] <= IdleLimit(kind[acting'[t]])
                      /\ clock - born[acting'[t]] <= MaxAge(kind[acting'[t]])
    OBVIOUS
  <2> QED
    BY OnlyLiveSessionsAct
<1> QED
    BY <1>1, <1>2, EndingInvariant, OutsideInvariant, PTL
       DEF Spec, SessionEndedOutsideNeverActs, ExpiredSessionNeverActs
=============================================================================
