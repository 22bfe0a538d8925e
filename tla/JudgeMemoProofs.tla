--------------------------- MODULE JudgeMemoProofs ---------------------------
(* What JudgeMemo promises of the paid calls for every number of readers,   *)
(* runs and memo entries, and that it implements JudgePurchase; after it,   *)
(* what SourcePages promises of the pages the judge is told of, for every   *)
(* list of citations, every set of sites and every deadline and cap.        *)
EXTENDS JudgeMemo, SequenceTheorems, FiniteSetTheorems, TLAPS

Entry == [run : Runs, verdict : Verdict]
Memo == Seq(Entry)

Labels == {"idle", "lookup", "touching", "asking", "paying?", "claiming", "waiting",
           "calling", "called", "publishing", "storing"}

\* The state the paid call depends on has its shape.
Shape ==
    /\ verdicts \in Memo
    /\ inflight \in [Runs -> Readers \cup {Nobody}]
    /\ paid \in [Runs -> 0 .. 2]
    /\ pc \in [Readers -> Labels]
    /\ target \in [Readers -> Runs \cup {NoRun}]
    /\ sharing \in [Readers -> BOOLEAN]
    /\ allowed \in [Readers -> BOOLEAN]

\* A reader at work reads a run of this process.
ReadsARun == \A p \in Readers : pc[p] # "idle" => target[p] \in Runs

\* What a reader brings to its second look: a share in another one's call, or
\* the rails' consent.
ClaimantAsked ==
    \A p \in Readers :
        /\ pc[p] = "paying?" => ~sharing[p]
        /\ pc[p] = "claiming" /\ ~sharing[p] => allowed[p]

\* Nobody pays for a verdict that can be read.
PayerMissed == \A p \in Readers : Paying(p) => ~Holds(verdicts, target[p])

PayInv ==
    /\ Shape /\ ReadsARun /\ ClaimantAsked
    /\ OnePayerPerRun /\ PayerAskedTheRails /\ PayerMissed

-----------------------------------------------------------------------------
(* The memo of verdicts                                                     *)

\* The elements of a stretch of a sequence are elements of the sequence.
LEMMA StretchElements ==
    ASSUME NEW S, NEW s \in Seq(S), NEW m \in 1 .. Len(s) + 1, NEW n \in 0 .. Len(s)
    PROVE  /\ SubSeq(s, m, n) \in Seq(S)
           /\ Len(SubSeq(s, m, n)) = IF m <= n THEN n - m + 1 ELSE 0
           /\ \A x \in DOMAIN SubSeq(s, m, n) : \E y \in DOMAIN s : SubSeq(s, m, n)[x] = s[y]
<1>1. m \in Int /\ n \in Int /\ \A x \in m .. n : s[x] \in S
    BY ElementOfSeq
<1> DEFINE u == SubSeq(s, m, n)
<1>2. /\ u \in Seq(S)
      /\ Len(u) = IF m <= n THEN n - m + 1 ELSE 0
      /\ \A x \in 1 .. n - m + 1 : u[x] = s[m + x - 1]
    BY <1>1, SubSeqProperties
<1> HIDE DEF u
<1>3. ASSUME NEW x \in DOMAIN u
      PROVE  m + x - 1 \in DOMAIN s /\ u[x] = s[m + x - 1]
    BY <1>2
<1> QED
    BY <1>2, <1>3 DEF u

\* The elements of a concatenation are elements of its parts.
LEMMA ConcatElements ==
    ASSUME NEW S, NEW s \in Seq(S), NEW t \in Seq(S)
    PROVE  /\ s \o t \in Seq(S)
           /\ \A x \in DOMAIN (s \o t) :
                \/ \E y \in DOMAIN s : (s \o t)[x] = s[y]
                \/ \E y \in DOMAIN t : (s \o t)[x] = t[y]
<1> DEFINE u == s \o t
<1>1. /\ u \in Seq(S) /\ Len(u) = Len(s) + Len(t)
      /\ \A x \in 1 .. Len(s) + Len(t) : u[x] = IF x <= Len(s) THEN s[x] ELSE t[x - Len(s)]
    BY ConcatProperties
<1> HIDE DEF u
<1>2. ASSUME NEW x \in DOMAIN u
      PROVE  \/ x \in DOMAIN s /\ u[x] = s[x]
             \/ x - Len(s) \in DOMAIN t /\ u[x] = t[x - Len(s)]
    BY <1>1
<1> QED
    BY <1>1, <1>2 DEF u

\* move_to_end keeps the memo's entries.
LEMMA TouchedKeys ==
    ASSUME verdicts \in Memo, NEW k
    PROVE  /\ Touched(k) \in Memo
           /\ \A j : Holds(Touched(k), j) => Holds(verdicts, j)
<1>1. CASE ~Holds(verdicts, k)
    BY <1>1 DEF Touched
<1>2. CASE Holds(verdicts, k)
    <2> DEFINE i == HeldVerdict(k)
               c == RemoveAt(verdicts, i)
               t == Append(c, verdicts[i])
    <2>1. i \in 1 .. Len(verdicts) /\ DOMAIN verdicts = 1 .. Len(verdicts)
        BY <1>2 DEF HeldVerdict, Holds, Memo
    <2>2. verdicts[i] \in Entry
        BY <2>1, ElementOfSeq DEF Memo
    <2>3. Touched(k) = t
        BY <1>2 DEF Touched
    <2> HIDE DEF i
    <2>4. c \in Memo /\ \A x \in DOMAIN c : \E y \in DOMAIN verdicts : c[x] = verdicts[y]
        <3> DEFINE a == SubSeq(verdicts, 1, i - 1)
                   b == SubSeq(verdicts, i + 1, Len(verdicts))
        <3>1. 1 \in 1 .. Len(verdicts) + 1 /\ i - 1 \in 0 .. Len(verdicts)
            BY <2>1 DEF Memo
        <3>2. i + 1 \in 1 .. Len(verdicts) + 1 /\ Len(verdicts) \in 0 .. Len(verdicts)
            BY <2>1 DEF Memo
        <3>3. a \in Memo /\ \A x \in DOMAIN a : \E y \in DOMAIN verdicts : a[x] = verdicts[y]
            BY <3>1, StretchElements DEF Memo
        <3>4. b \in Memo /\ \A x \in DOMAIN b : \E y \in DOMAIN verdicts : b[x] = verdicts[y]
            BY <3>2, StretchElements DEF Memo
        <3>5. c = a \o b
            BY DEF RemoveAt
        <3> HIDE DEF a, b, c
        <3>6. /\ a \o b \in Memo
              /\ \A x \in DOMAIN (a \o b) :
                    \/ \E y \in DOMAIN a : (a \o b)[x] = a[y]
                    \/ \E y \in DOMAIN b : (a \o b)[x] = b[y]
            <4>1. a \in Seq(Entry) /\ b \in Seq(Entry)
                BY <3>3, <3>4 DEF Memo
            <4> HIDE DEF Entry
            <4> QED
                BY <4>1, ConcatElements DEF Memo
        <3>7. ASSUME NEW x \in DOMAIN c
              PROVE  \E y \in DOMAIN verdicts : c[x] = verdicts[y]
            <4>1. CASE \E y \in DOMAIN a : c[x] = a[y]
                BY <4>1, <3>3
            <4>2. CASE \E y \in DOMAIN b : c[x] = b[y]
                BY <4>2, <3>4
            <4> QED
                BY <4>1, <4>2, <3>5, <3>6
        <3> QED
            BY <3>5, <3>6, <3>7
    <2> HIDE DEF c
    <2>5. /\ t \in Memo /\ Len(t) = Len(c) + 1
          /\ \A x \in 1 .. Len(c) : t[x] = c[x]
          /\ t[Len(c) + 1] = verdicts[i]
        BY <2>2, <2>4, AppendProperties DEF Memo
    <2> HIDE DEF t
    <2>6. ASSUME NEW x \in DOMAIN t
          PROVE  \E y \in DOMAIN verdicts : t[x] = verdicts[y]
        <3>1. CASE x = Len(c) + 1
            BY <3>1, <2>1, <2>5
        <3>2. CASE x \in DOMAIN c
            <4>1. t[x] = c[x]
                BY <3>2, <2>4, <2>5 DEF Memo
            <4> QED
                BY <3>2, <4>1, <2>4
        <3> QED
            BY <3>1, <3>2, <2>4, <2>5 DEF Memo
    <2> QED
        BY <2>3, <2>5, <2>6 DEF Holds
<1> QED
    BY <1>1, <1>2

\* A stored verdict adds its own run to the memo, and no other.
LEMMA StoredKeys ==
    ASSUME verdicts \in Memo, NEW k \in Runs, NEW v \in Verdict
    PROVE  /\ StoredVerdict(k, v) \in Memo
           /\ \A j : Holds(StoredVerdict(k, v), j) => j = k \/ Holds(verdicts, j)
<1>1. CASE Holds(verdicts, k)
    <2> DEFINE i == HeldVerdict(k)
               s == [verdicts EXCEPT ![i].verdict = v]
    <2>1. i \in 1 .. Len(verdicts) /\ DOMAIN verdicts = 1 .. Len(verdicts)
        BY <1>1 DEF HeldVerdict, Holds, Memo
    <2> HIDE DEF i
    <2>2. \A n \in 1 .. Len(verdicts) : verdicts[n] \in Entry
        BY ElementOfSeq DEF Memo
    <2>3. [verdicts[i] EXCEPT !.verdict = v] \in Entry
        BY <2>1, <2>2 DEF Entry
    <2>4. s \in Memo
        BY <2>1, <2>3, ExceptSeq DEF Memo
    <2>5. DOMAIN s = DOMAIN verdicts /\ \A n \in DOMAIN s : s[n].run = verdicts[n].run
        BY <2>1, <2>2
    <2>6. StoredVerdict(k, v) = s
        BY <1>1 DEF StoredVerdict, i
    <2> HIDE DEF s
    <2> QED
        BY <2>4, <2>5, <2>6 DEF Holds
<1>2. CASE ~Holds(verdicts, k)
    <2> DEFINE e == [run |-> k, verdict |-> v]
               t == Append(verdicts, e)
               u == Trimmed(t, VerdictMax)
    <2>1. /\ t \in Memo /\ Len(t) = Len(verdicts) + 1
          /\ \A n \in 1 .. Len(verdicts) : t[n] = verdicts[n]
          /\ t[Len(verdicts) + 1] = e
        <3>1. e \in Entry
            BY DEF Entry
        <3> QED
            BY <3>1, AppendProperties DEF Memo
    <2>2. \A j : Holds(t, j) => j = k \/ Holds(verdicts, j)
        <3> SUFFICES ASSUME NEW j, NEW n \in 1 .. Len(verdicts) + 1, t[n].run = j, j # k
                     PROVE  Holds(verdicts, j)
            BY <2>1 DEF Holds, Memo
        <3>1. n \in 1 .. Len(verdicts)
            BY <2>1 DEF Memo
        <3> QED
            BY <3>1, <2>1 DEF Holds, Memo
    <2> HIDE DEF t
    <2>3. u \in Memo /\ \A j : Holds(u, j) => Holds(t, j)
        <3>1. CASE Len(t) <= VerdictMax
            BY <3>1, <2>1, BoundsAssumption DEF Trimmed, Memo
        <3>2. CASE Len(t) > VerdictMax
            <4> DEFINE m == Len(t) - VerdictMax + 1
            <4>1. u = SubSeq(t, m, Len(t))
                BY <3>2 DEF Trimmed
            <4>2. m \in 1 .. Len(t) + 1 /\ Len(t) \in 0 .. Len(t)
                BY <3>2, <2>1, BoundsAssumption DEF Memo
            <4> HIDE DEF m, u
            <4>3. u \in Memo /\ \A x \in DOMAIN u : \E y \in DOMAIN t : u[x] = t[y]
                BY <4>1, <4>2, <2>1, StretchElements DEF Memo
            <4> QED
                BY <4>3 DEF Holds
        <3> QED
            BY <3>1, <3>2, <2>1, BoundsAssumption DEF Memo
    <2>4. StoredVerdict(k, v) = u
        BY <1>2 DEF StoredVerdict, t
    <2> QED
        BY <2>2, <2>3, <2>4
<1> QED
    BY <1>1, <1>2

-----------------------------------------------------------------------------
(* Who pays                                                                 *)

\* PayInv is an inductive invariant of the readers, the memo and the claims: it is
\* what the three properties below rest on.
THEOREM PayInvariant == Spec => []PayInv
<1>1. Init => PayInv
    <2> SUFFICES ASSUME Init PROVE PayInv
        OBVIOUS
    <2>1. Shape
        <3>1. verdicts \in Memo
            BY EmptySeq DEF Init, Memo
        <3> QED
            BY <3>1 DEF Init, Shape, Labels, Kind
    <2> QED
        BY <2>1 DEF Init, PayInv, ReadsARun, ClaimantAsked, OnePayerPerRun, PayerAskedTheRails,
            PayerMissed, Paying
<1>2. PayInv /\ [Next]_vars => PayInv'
    <2> SUFFICES ASSUME PayInv, [Next]_vars PROVE PayInv'
        OBVIOUS
    <2>0. /\ Shape /\ ReadsARun /\ ClaimantAsked
          /\ OnePayerPerRun /\ PayerAskedTheRails /\ PayerMissed
        BY DEF PayInv
    <2>1. ASSUME NEW p \in Readers, NEW k \in Runs, Read(p, k)
          PROVE  PayInv'
        BY <2>0, <2>1 DEF Read, Goto, memos, world, PayInv, Shape, ReadsARun, ClaimantAsked, OnePayerPerRun,
            PayerAskedTheRails, PayerMissed, Paying, Holds, Labels
    <2>2. ASSUME NEW p \in Readers, MissEvaluation(p)
          PROVE  PayInv'
        BY <2>0, <2>2 DEF MissEvaluation, Goto, Answer, memos, world, PayInv, Shape, ReadsARun, ClaimantAsked, OnePayerPerRun,
            PayerAskedTheRails, PayerMissed, Paying, Holds, Labels
    <2>3. ASSUME NEW p \in Readers, HitEvaluation(p)
          PROVE  PayInv'
        BY <2>0, <2>3 DEF HitEvaluation, Goto, Answer, memos, world, PayInv, Shape, ReadsARun, ClaimantAsked, OnePayerPerRun,
            PayerAskedTheRails, PayerMissed, Paying, Holds, Labels
    <2>4. ASSUME NEW p \in Readers, TouchVerdict(p)
          PROVE  PayInv'
        <3>1. verdicts' \in Memo /\ \A j : Holds(verdicts', j) => Holds(verdicts, j)
            BY <2>0, <2>4, TouchedKeys DEF TouchVerdict, Shape
        <3>2. /\ pc' = [pc EXCEPT ![p] = "idle"]
              /\ target' = [target EXCEPT ![p] = NoRun]
              /\ sharing' = [sharing EXCEPT ![p] = FALSE]
              /\ allowed' = [allowed EXCEPT ![p] = FALSE]
              /\ UNCHANGED <<inflight, paid>>
            BY <2>4 DEF TouchVerdict, Return, Goto, world
        <3> QED
            BY <2>0, <3>1, <3>2 DEF PayInv, Shape, ReadsARun, ClaimantAsked, OnePayerPerRun,
                PayerAskedTheRails, PayerMissed, Paying, Labels
    <2>5. ASSUME NEW p \in Readers, pc[p] \in {"asking", "claiming"}, UseVerdict(p)
          PROVE  PayInv'
        <3>1. verdicts' \in Memo /\ \A j : Holds(verdicts', j) => Holds(verdicts, j)
            BY <2>0, <2>5, TouchedKeys DEF UseVerdict, Shape
        <3>2. /\ pc' = [pc EXCEPT ![p] = "storing"]
              /\ UNCHANGED <<inflight, paid, target, sharing, allowed>>
            BY <2>5 DEF UseVerdict, Goto, world
        <3> QED
            BY <2>0, <2>5, <3>1, <3>2 DEF PayInv, Shape, ReadsARun, ClaimantAsked, OnePayerPerRun,
                PayerAskedTheRails, PayerMissed, Paying, Labels
    <2>6. ASSUME NEW p \in Readers, Ask(p)
          PROVE  PayInv'
        <3>1. CASE Holds(verdicts, target[p])
            BY <2>5, <2>6, <3>1 DEF Ask
        <3>2. CASE ~Holds(verdicts, target[p])
            <4>1. CASE inflight[target[p]] = Nobody
                <5>1. /\ pc[p] = "asking" /\ (inflight[target[p]] # Nobody) = FALSE
                      /\ pc' = [pc EXCEPT ![p] = "paying?"]
                      /\ allowed' = [allowed EXCEPT ![p] = FALSE]
                      /\ UNCHANGED <<verdicts, inflight, paid, target>>
                    BY <2>6, <3>2, <4>1 DEF Ask, Goto, memos, world
                <5>2. sharing' = [sharing EXCEPT ![p] = FALSE]
                    BY <2>6, <3>2, <5>1, Zenon DEF Ask
                <5> QED
                    BY <2>0, <3>2, <5>1, <5>2 DEF PayInv, Shape, ReadsARun, ClaimantAsked, OnePayerPerRun,
                    PayerAskedTheRails, PayerMissed, Paying, Labels
            <4>2. CASE inflight[target[p]] # Nobody
                <5>1. /\ pc[p] = "asking" /\ (inflight[target[p]] # Nobody) = TRUE
                      /\ pc' = [pc EXCEPT ![p] = "claiming"]
                      /\ allowed' = [allowed EXCEPT ![p] = FALSE]
                      /\ UNCHANGED <<verdicts, inflight, paid, target>>
                    BY <2>6, <3>2, <4>2 DEF Ask, Goto, memos, world
                <5>2. sharing' = [sharing EXCEPT ![p] = TRUE]
                    BY <2>6, <3>2, <5>1, Zenon DEF Ask
                <5> QED
                    BY <2>0, <3>2, <5>1, <5>2 DEF PayInv, Shape, ReadsARun, ClaimantAsked, OnePayerPerRun,
                    PayerAskedTheRails, PayerMissed, Paying, Labels
            <4> QED
                BY <4>1, <4>2
        <3> QED
            BY <3>1, <3>2
    <2>7. ASSUME NEW p \in Readers, CheckRails(p)
          PROVE  PayInv'
        <3>1. CASE railsOpen
            <4>1. /\ pc[p] = "paying?"
                  /\ pc' = [pc EXCEPT ![p] = "claiming"]
                  /\ allowed' = [allowed EXCEPT ![p] = TRUE]
                  /\ UNCHANGED <<verdicts, inflight, paid, target, sharing>>
                BY <2>7, <3>1 DEF CheckRails, Goto, memos, world
            <4> QED
                BY <2>0, <4>1 DEF PayInv, Shape, ReadsARun, ClaimantAsked, OnePayerPerRun,
                    PayerAskedTheRails, PayerMissed, Paying, Labels
        <3>2. CASE ~railsOpen
            BY <2>0, <2>7, <3>2 DEF CheckRails, Suppress, Goto, Answer, memos, world, PayInv, Shape, ReadsARun, ClaimantAsked, OnePayerPerRun,
                PayerAskedTheRails, PayerMissed, Paying, Holds, Labels
        <3> QED
            BY <3>1, <3>2
    <2>8. ASSUME NEW p \in Readers, Claim(p)
          PROVE  PayInv'
        <3>1. CASE Holds(verdicts, target[p])
            BY <2>5, <2>8, <3>1 DEF Claim
        <3>2. CASE ~Holds(verdicts, target[p]) /\ sharing[p] /\ inflight[target[p]] = Nobody
            BY <2>0, <2>8, <3>2 DEF Claim, Suppress, Goto, Answer, memos, world, PayInv, Shape, ReadsARun, ClaimantAsked, OnePayerPerRun,
                PayerAskedTheRails, PayerMissed, Paying, Holds, Labels
        <3>3. CASE /\ ~Holds(verdicts, target[p]) /\ ~sharing[p]
                   /\ inflight[target[p]] = Nobody
            <4>1. /\ pc[p] = "claiming" /\ allowed[p] /\ target[p] \in Runs
                  /\ inflight' = [inflight EXCEPT ![target[p]] = p]
                  /\ pc' = [pc EXCEPT ![p] = "calling"]
                  /\ UNCHANGED <<verdicts, paid, target, sharing, allowed>>
                BY <2>0, <2>8, <3>3 DEF Claim, ClaimOrJoin, Goto, world, ReadsARun, ClaimantAsked
            <4>2. \A q \in Readers : Paying(q) => target[q] # target[p]
                BY <2>0, <3>3, NamesAssumption DEF OnePayerPerRun
            <4> QED
                BY <2>0, <3>3, <4>1, <4>2 DEF PayInv, Shape, ReadsARun, ClaimantAsked, OnePayerPerRun,
                    PayerAskedTheRails, PayerMissed, Paying, Holds, Labels
        <3>4. CASE ~Holds(verdicts, target[p]) /\ inflight[target[p]] # Nobody
            BY <2>0, <2>8, <3>4 DEF Claim, ClaimOrJoin, Goto, world, PayInv, Shape, ReadsARun, ClaimantAsked, OnePayerPerRun,
                PayerAskedTheRails, PayerMissed, Paying, Holds, Labels
        <3> QED
            BY <2>0, <3>1, <3>2, <3>3, <3>4 DEF Shape
    <2>9. ASSUME NEW p \in Readers, Dispatch(p)
          PROVE  PayInv'
        BY <2>0, <2>9 DEF Dispatch, locals, Goto, Answer, memos, world, PayInv, Shape, ReadsARun, ClaimantAsked, OnePayerPerRun,
            PayerAskedTheRails, PayerMissed, Paying, Holds, Labels
    <2>10. ASSUME NEW p \in Readers, Settle(p)
          PROVE  PayInv'
        <3>1. pc[p] = "called" /\ target[p] \in Runs
            BY <2>0, <2>10 DEF Settle, ReadsARun
        <3>2. /\ verdicts' \in Memo
              /\ \A j : Holds(verdicts', j) => j = target[p] \/ Holds(verdicts, j)
            BY <2>0, <2>10, <3>1, StoredKeys DEF Settle, Shape
        <3>3. /\ inflight' = [inflight EXCEPT ![target[p]] = Nobody]
              /\ pc' = [pc EXCEPT ![p] = "publishing"]
              /\ UNCHANGED <<paid, target, sharing, allowed>>
            BY <2>10 DEF Settle, Goto, world
        <3>4. \A q \in Readers : Paying(q) /\ target[q] = target[p] => q = p
            BY <2>0, <3>1 DEF OnePayerPerRun, Paying
        <3> QED
            BY <2>0, <3>1, <3>2, <3>3, <3>4 DEF PayInv, Shape, ReadsARun, ClaimantAsked, OnePayerPerRun,
                PayerAskedTheRails, PayerMissed, Paying, Labels
    <2>11. ASSUME NEW p \in Readers, Publish(p)
          PROVE  PayInv'
        BY <2>0, <2>11 DEF Publish, Goto, Answer, memos, world, PayInv, Shape, ReadsARun, ClaimantAsked, OnePayerPerRun,
            PayerAskedTheRails, PayerMissed, Paying, Holds, Labels
    <2>12. ASSUME NEW p \in Readers, WaitTimesOut(p)
          PROVE  PayInv'
        BY <2>0, <2>12 DEF WaitTimesOut, Suppress, Goto, Answer, memos, world, PayInv, Shape, ReadsARun, ClaimantAsked, OnePayerPerRun,
            PayerAskedTheRails, PayerMissed, Paying, Holds, Labels
    <2>13. ASSUME NEW p \in Readers, Store(p)
          PROVE  PayInv'
        BY <2>0, <2>13 DEF Store, Return, Goto, Answer, memos, world, PayInv, Shape, ReadsARun, ClaimantAsked, OnePayerPerRun,
            PayerAskedTheRails, PayerMissed, Paying, Holds, Labels
    <2>14. ASSUME NEW p \in Readers, EvaluationRaises(p)
          PROVE  PayInv'
        BY <2>0, <2>14 DEF EvaluationRaises, Return, Goto, Answer, memos, world, PayInv, Shape, ReadsARun, ClaimantAsked, OnePayerPerRun,
            PayerAskedTheRails, PayerMissed, Paying, Holds, Labels
    <2>15. CASE \/ \E k \in Runs : RunMoves(k)
              \/ RailsMove
              \/ UNCHANGED vars
        BY <2>0, <2>15 DEF RunMoves, RailsMove, vars, memos, world, locals, PayInv, Shape, ReadsARun, ClaimantAsked, OnePayerPerRun,
            PayerAskedTheRails, PayerMissed, Paying, Holds, Labels
    <2> QED
        BY <2>1, <2>2, <2>3, <2>4, <2>6, <2>7, <2>8, <2>9, <2>10, <2>11, <2>12, <2>13, <2>14, <2>15 DEF Next, Evaluate
<1> QED
    BY <1>1, <1>2, PTL DEF Spec

\* OnePayerPerRun: however many readers evaluate a run, one of them pays for it.
THEOREM OnePayer == Spec => []OnePayerPerRun
BY PayInvariant, PTL DEF PayInv

\* PayerAskedTheRails: no reader pays that did not ask the money rails itself.
THEOREM NoUnaskedSpend == Spec => []PayerAskedTheRails
BY PayInvariant, PTL DEF PayInv

\* PaidAgainOnlyIfForgotten: no interleaving of readers, evictions, timeouts and
\* lost owners buys a verdict that is still in the memo.
THEOREM NeverBoughtTwice == Spec => PaidAgainOnlyIfForgotten
<1>1. PayInv /\ [Next]_vars => [NoSecondPurchase]_vars
    <2> SUFFICES ASSUME PayInv, [Next]_vars, NEW k \in Runs, paid[k] = 1, paid'[k] = 2
                 PROVE  ~Holds(verdicts, k)
        BY DEF NoSecondPurchase
    <2>1. PICK p \in Readers : Dispatch(p)
        <3>1. paid' # paid
            OBVIOUS
        <3> QED
            BY <3>1 DEF Next, Evaluate, Read, MissEvaluation, HitEvaluation, TouchVerdict, Ask,
                UseVerdict, CheckRails, Claim, ClaimOrJoin, Settle, Publish, WaitTimesOut, Store,
                EvaluationRaises, RunMoves, RailsMove, world, vars
    <2>2. target[p] = k
        BY <2>1 DEF Dispatch, PayInv, Shape
    <2> QED
        BY <2>1, <2>2 DEF Dispatch, PayInv, PayerMissed, Paying
<1> QED
    BY <1>1, PayInvariant, PTL DEF Spec, PaidAgainOnlyIfForgotten

-----------------------------------------------------------------------------
(* JudgeMemo implements JudgePurchase: what is bought is kept as it came.    *)

\* The memo has one entry for a run.
OneEntryPerRun(memo) ==
    \A x, y \in DOMAIN memo : memo[x].run = memo[y].run => x = y

\* A claim belongs to a reader that has its call to make or to wait for.
ClaimHasItsCall ==
    \A k \in Runs : inflight[k] # Nobody =>
        Paying(inflight[k]) /\ target[inflight[k]] = k

BuyInv == PayInv /\ OneEntryPerRun(verdicts) /\ ClaimHasItsCall

\* Where an entry moves to the end, those behind it move up.
MovedFrom(s, i, n) == IF n < i THEN n ELSE IF n < Len(s) THEN n + 1 ELSE i

LEMMA MovedToEnd ==
    ASSUME NEW S, NEW s \in Seq(S), NEW i \in 1 .. Len(s)
    PROVE  LET t == Append(RemoveAt(s, i), s[i])
           IN  /\ t \in Seq(S) /\ Len(t) = Len(s)
               /\ \A n \in 1 .. Len(s) : t[n] = s[MovedFrom(s, i, n)]
<1> DEFINE a == SubSeq(s, 1, i - 1)
           b == SubSeq(s, i + 1, Len(s))
           c == a \o b
           t == Append(c, s[i])
<1>1. Len(s) \in Nat /\ i \in Int /\ \A x \in 1 .. Len(s) : s[x] \in S
    BY ElementOfSeq
<1>2. /\ a \in Seq(S) /\ Len(a) = i - 1
      /\ \A x \in 1 .. i - 1 : a[x] = s[x]
    <2>1. 1 \in Int /\ i - 1 \in Int /\ \A x \in 1 .. i - 1 : s[x] \in S
        BY <1>1
    <2>2. /\ a \in Seq(S) /\ Len(a) = IF 1 <= i - 1 THEN i - 1 - 1 + 1 ELSE 0
          /\ \A x \in 1 .. i - 1 - 1 + 1 : a[x] = s[1 + x - 1]
        BY <2>1, SubSeqProperties
    <2> HIDE DEF a
    <2>3. ASSUME NEW x \in 1 .. i - 1 PROVE a[x] = s[x]
        <3>1. x \in 1 .. i - 1 - 1 + 1 /\ 1 + x - 1 = x
            OBVIOUS
        <3> QED
            BY <2>2, <3>1
    <2> QED
        BY <2>2, <2>3
<1>3. /\ b \in Seq(S) /\ Len(b) = Len(s) - i
      /\ \A x \in 1 .. Len(s) - i : b[x] = s[i + x]
    <2>1. i + 1 \in Int /\ Len(s) \in Int /\ \A x \in i + 1 .. Len(s) : s[x] \in S
        BY <1>1
    <2>2. /\ b \in Seq(S) /\ Len(b) = IF i + 1 <= Len(s) THEN Len(s) - (i + 1) + 1 ELSE 0
          /\ \A x \in 1 .. Len(s) - (i + 1) + 1 : b[x] = s[(i + 1) + x - 1]
        BY <2>1, SubSeqProperties
    <2> HIDE DEF b
    <2>3. ASSUME NEW x \in 1 .. Len(s) - i PROVE b[x] = s[i + x]
        <3>1. x \in 1 .. Len(s) - (i + 1) + 1 /\ (i + 1) + x - 1 = i + x
            BY <1>1
        <3> QED
            BY <2>2, <3>1
    <2> QED
        BY <1>1, <2>2, <2>3
<1> HIDE DEF a, b
<1>4. /\ c \in Seq(S) /\ Len(c) = Len(s) - 1
      /\ \A x \in 1 .. Len(s) - 1 : c[x] = IF x < i THEN s[x] ELSE s[x + 1]
    <2>1. /\ c \in Seq(S) /\ Len(c) = Len(a) + Len(b)
          /\ \A x \in 1 .. Len(a) + Len(b) : c[x] = IF x <= Len(a) THEN a[x] ELSE b[x - Len(a)]
        BY <1>2, <1>3, ConcatProperties
    <2> HIDE DEF c
    <2>2. ASSUME NEW x \in 1 .. Len(s) - 1, x < i PROVE c[x] = s[x]
        BY <2>1, <2>2, <1>1, <1>2, <1>3
    <2>3. ASSUME NEW x \in 1 .. Len(s) - 1, ~(x < i) PROVE c[x] = s[x + 1]
        <3>1. x - Len(a) \in 1 .. Len(s) - i /\ i + (x - Len(a)) = x + 1
            BY <2>3, <1>1, <1>2
        <3>2. c[x] = b[x - Len(a)]
            BY <2>1, <2>3, <1>1, <1>2, <1>3
        <3> QED
            BY <3>1, <3>2, <1>3
    <2> QED
        BY <2>1, <2>2, <2>3, <1>1, <1>2, <1>3
<1> HIDE DEF c
<1>5. /\ t \in Seq(S) /\ Len(t) = Len(c) + 1
      /\ \A x \in 1 .. Len(c) : t[x] = c[x]
      /\ t[Len(c) + 1] = s[i]
    BY <1>1, <1>4, AppendProperties
<1>6. t = Append(RemoveAt(s, i), s[i])
    BY DEF t, c, a, b, RemoveAt
<1> HIDE DEF t
<1>7. ASSUME NEW n \in 1 .. Len(s) PROVE t[n] = s[MovedFrom(s, i, n)]
    <2>1. CASE n = Len(s)
        BY <2>1, <1>1, <1>4, <1>5 DEF MovedFrom
    <2>2. CASE n < Len(s)
        BY <2>2, <1>1, <1>4, <1>5 DEF MovedFrom
    <2> QED
        BY <2>1, <2>2, <1>1
<1> QED
    BY <1>1, <1>4, <1>5, <1>6, <1>7

\* What a memo says of a run.
Place(memo, k) == CHOOSE i \in DOMAIN memo : memo[i].run = k
Says(memo, k) == memo[Place(memo, k)].verdict

LEMMA PlaceOfEntry ==
    ASSUME NEW memo, OneEntryPerRun(memo), NEW i \in DOMAIN memo
    PROVE  Holds(memo, memo[i].run) /\ Says(memo, memo[i].run) = memo[i].verdict
<1>1. Place(memo, memo[i].run) \in DOMAIN memo
      /\ memo[Place(memo, memo[i].run)].run = memo[i].run
    BY DEF Place
<1>2. Place(memo, memo[i].run) = i
    BY <1>1 DEF OneEntryPerRun
<1> QED
    BY <1>2 DEF Holds, Says

\* A touch changes nothing of what the memo says.
LEMMA TouchedSays ==
    ASSUME verdicts \in Memo, OneEntryPerRun(verdicts), NEW k
    PROVE  /\ OneEntryPerRun(Touched(k))
           /\ \A j : Holds(Touched(k), j) <=> Holds(verdicts, j)
           /\ \A j : Holds(verdicts, j) => Says(Touched(k), j) = Says(verdicts, j)
<1>1. CASE ~Holds(verdicts, k)
    BY <1>1 DEF Touched
<1>2. CASE Holds(verdicts, k)
    <2> DEFINE i == HeldVerdict(k)
               t == Append(RemoveAt(verdicts, i), verdicts[i])
    <2>1. i \in 1 .. Len(verdicts) /\ DOMAIN verdicts = 1 .. Len(verdicts) /\ Len(verdicts) \in Nat
        BY <1>2 DEF HeldVerdict, Holds, Memo
    <2>2. Touched(k) = t
        BY <1>2 DEF Touched
    <2> HIDE DEF i
    <2>3. /\ t \in Memo /\ Len(t) = Len(verdicts)
          /\ \A n \in 1 .. Len(verdicts) : t[n] = verdicts[MovedFrom(verdicts, i, n)]
        <3>1. verdicts \in Seq(Entry)
            BY DEF Memo
        <3> QED
            BY <3>1, <2>1, MovedToEnd, Zenon DEF Memo
    <2> HIDE DEF t
    <2>4. DOMAIN t = DOMAIN verdicts
        BY <2>1, <2>3 DEF Memo
    <2>5. ASSUME NEW n \in DOMAIN t
          PROVE  MovedFrom(verdicts, i, n) \in DOMAIN verdicts
        BY <2>1, <2>4 DEF MovedFrom
    <2>6. OneEntryPerRun(t)
        <3> SUFFICES ASSUME NEW x \in DOMAIN t, NEW y \in DOMAIN t, t[x].run = t[y].run
                     PROVE  x = y
            BY DEF OneEntryPerRun
        <3>1. MovedFrom(verdicts, i, x) = MovedFrom(verdicts, i, y)
            BY <2>1, <2>3, <2>4, <2>5 DEF OneEntryPerRun
        <3> QED
            BY <3>1, <2>1, <2>4 DEF MovedFrom
    <2>7. ASSUME NEW n \in DOMAIN verdicts
          PROVE  \E x \in DOMAIN t : t[x] = verdicts[n]
        <3> DEFINE x == IF n < i THEN n ELSE IF n = i THEN Len(verdicts) ELSE n - 1
        <3>1. x \in DOMAIN t /\ MovedFrom(verdicts, i, x) = n
            BY <2>1, <2>4 DEF MovedFrom
        <3> QED
            BY <3>1, <2>1, <2>3, <2>4
    <2>8. ASSUME NEW j, Holds(t, j) PROVE Holds(verdicts, j)
        BY <2>1, <2>3, <2>4, <2>5, <2>8 DEF Holds
    <2>9. ASSUME NEW j, Holds(verdicts, j)
          PROVE  Holds(t, j) /\ Says(t, j) = Says(verdicts, j)
        <3>1. PICK n \in DOMAIN verdicts : verdicts[n].run = j
            BY <2>9 DEF Holds
        <3>2. PICK x \in DOMAIN t : t[x] = verdicts[n]
            BY <2>7
        <3>3. Says(verdicts, j) = verdicts[n].verdict
            BY <3>1, PlaceOfEntry
        <3>4. Holds(t, t[x].run) /\ Says(t, t[x].run) = t[x].verdict
            BY <2>6, PlaceOfEntry
        <3> QED
            BY <3>1, <3>2, <3>3, <3>4
    <2> QED
        BY <2>2, <2>6, <2>8, <2>9
<1> QED
    BY <1>1, <1>2

\* A verdict that is stored is said; what else the memo says it said before.
LEMMA StoredSays ==
    ASSUME verdicts \in Memo, OneEntryPerRun(verdicts),
           NEW k \in Runs, NEW v \in Verdict, ~Holds(verdicts, k)
    PROVE  LET s == StoredVerdict(k, v)
           IN  /\ OneEntryPerRun(s)
               /\ Holds(s, k) /\ Says(s, k) = v
               /\ \A j : Holds(s, j) /\ j # k => Holds(verdicts, j) /\ Says(s, j) = Says(verdicts, j)
<1> DEFINE e == [run |-> k, verdict |-> v]
           t == Append(verdicts, e)
           s == Trimmed(t, VerdictMax)
<1>1. /\ t \in Memo /\ Len(t) = Len(verdicts) + 1 /\ Len(verdicts) \in Nat
      /\ \A n \in 1 .. Len(verdicts) : t[n] = verdicts[n]
      /\ t[Len(verdicts) + 1] = e
    <2>1. e \in Entry
        BY DEF Entry
    <2> QED
        BY <2>1, AppendProperties DEF Memo
<1>2. StoredVerdict(k, v) = s
    BY DEF StoredVerdict
<1>d. DOMAIN verdicts = 1 .. Len(verdicts) /\ DOMAIN t = 1 .. Len(t)
    BY <1>1 DEF Memo
<1> HIDE DEF t
<1>3. OneEntryPerRun(t)
    <2> SUFFICES ASSUME NEW x \in DOMAIN t, NEW y \in DOMAIN t, t[x].run = t[y].run
                 PROVE  x = y
        BY DEF OneEntryPerRun
    <2>1. CASE x \in DOMAIN verdicts /\ y \in DOMAIN verdicts
        BY <2>1, <1>1, <1>d DEF OneEntryPerRun
    <2>2. ASSUME NEW n \in DOMAIN verdicts PROVE t[n].run # k
        BY <2>2, <1>1, <1>d DEF Holds
    <2>3. x \in DOMAIN verdicts \/ x = Len(verdicts) + 1
        BY <1>1, <1>d
    <2>4. y \in DOMAIN verdicts \/ y = Len(verdicts) + 1
        BY <1>1, <1>d
    <2> QED
        BY <2>1, <2>2, <2>3, <2>4, <1>1
\* The newest entries stay.
<1>4. PICK m \in 0 .. Len(t) - 1 :
        /\ DOMAIN s = 1 .. Len(t) - m
        /\ \A x \in 1 .. Len(t) - m : s[x] = t[m + x]
    <2>1. CASE Len(t) <= VerdictMax
        <3>1. s = t
            BY <2>1, <1>1, BoundsAssumption DEF Trimmed
        <3> QED
            BY <3>1, <1>1, <1>d
    <2>2. CASE Len(t) > VerdictMax
        <3> DEFINE b == Len(t) - VerdictMax + 1
        <3>1. s = SubSeq(t, b, Len(t))
            BY <2>2 DEF Trimmed
        <3>2. b \in Int /\ Len(t) \in Int /\ \A x \in b .. Len(t) : t[x] \in Entry
            <4>1. \A x \in 1 .. Len(t) : t[x] \in Entry
                BY <1>1, ElementOfSeq DEF Memo
            <4> QED
                BY <4>1, <2>2, <1>1, BoundsAssumption
        <3> HIDE DEF s
        <3>3. /\ s \in Seq(Entry) /\ Len(s) = IF b <= Len(t) THEN Len(t) - b + 1 ELSE 0
              /\ \A x \in 1 .. Len(t) - b + 1 : s[x] = t[b + x - 1]
            <4> HIDE DEF b, Entry
            <4> QED
                BY <3>1, <3>2, SubSeqProperties
        <3>4. /\ b - 1 \in 0 .. Len(t) - 1 /\ Len(s) = Len(t) - (b - 1) /\ DOMAIN s = 1 .. Len(s)
              /\ Len(t) - b + 1 = Len(t) - (b - 1)
            BY <3>3, <2>2, <1>1, BoundsAssumption
        <3>5. ASSUME NEW x \in 1 .. Len(t) - (b - 1) PROVE s[x] = t[(b - 1) + x]
            <4>1. b + x - 1 = (b - 1) + x
                BY <3>2
            <4> QED
                BY <4>1, <3>3, <3>4
        <3> QED
            BY <3>4, <3>5
    <2>3. Len(t) <= VerdictMax \/ Len(t) > VerdictMax
        BY <1>1, BoundsAssumption
    <2> QED
        BY <2>1, <2>2, <2>3, Zenon
<1> HIDE DEF s
<1>5. ASSUME NEW x \in DOMAIN s PROVE m + x \in DOMAIN t /\ s[x] = t[m + x]
    BY <1>1, <1>d, <1>4
<1>6. OneEntryPerRun(s)
    <2> SUFFICES ASSUME NEW x \in DOMAIN s, NEW y \in DOMAIN s, s[x].run = s[y].run
                 PROVE  x = y
        BY DEF OneEntryPerRun
    <2>1. m + x = m + y
        BY <1>3, <1>5 DEF OneEntryPerRun
    <2> QED
        BY <2>1, <1>1, <1>4
<1>7. Holds(s, k) /\ Says(s, k) = v
    <2>1. Len(t) - m \in DOMAIN s /\ m + (Len(t) - m) = Len(verdicts) + 1
        BY <1>1, <1>4
    <2>2. s[Len(t) - m] = e
        BY <2>1, <1>1, <1>5
    <2> QED
        BY <2>1, <2>2, <1>6, PlaceOfEntry
<1>8. ASSUME NEW j, Holds(s, j), j # k
      PROVE  Holds(verdicts, j) /\ Says(s, j) = Says(verdicts, j)
    <2>1. PICK x \in DOMAIN s : s[x].run = j
        BY <1>8 DEF Holds
    <2>2. m + x \in DOMAIN verdicts /\ s[x] = verdicts[m + x]
        BY <2>1, <1>1, <1>d, <1>5, <1>8
    <2>3. Holds(verdicts, verdicts[m + x].run) /\ Says(verdicts, verdicts[m + x].run) = verdicts[m + x].verdict
        BY <2>2, PlaceOfEntry
    <2>4. Says(s, s[x].run) = s[x].verdict
        BY <1>6, PlaceOfEntry
    <2> QED
        BY <2>1, <2>2, <2>3, <2>4
<1> QED
    BY <1>2, <1>6, <1>7, <1>8

\* What the steps of the readers come to: nothing, a claim, its call, its verdict.
Quiet ==
    /\ OneEntryPerRun(verdicts')
    /\ \A j : Holds(verdicts', j) <=> Holds(verdicts, j)
    /\ \A j : Holds(verdicts, j) => Says(verdicts', j) = Says(verdicts, j)
    /\ UNCHANGED <<inflight, paid>>
    /\ \A q \in Readers : Paying(q)' => Paying(q)
    /\ \A q \in Readers : Paying(q) => pc'[q] = pc[q] /\ target'[q] = target[q]

Claims(p) ==
    /\ pc[p] = "claiming" /\ target[p] \in Runs
    /\ ~Holds(verdicts, target[p]) /\ inflight[target[p]] = Nobody
    /\ inflight' = [inflight EXCEPT ![target[p]] = p]
    /\ pc' = [pc EXCEPT ![p] = "calling"]
    /\ UNCHANGED <<verdicts, paid, target>>

LEMMA UnseenIsQuiet ==
    ASSUME BuyInv, NEW p \in Readers, pc[p] \notin {"calling", "called"}, UNCHANGED <<inflight, paid>>,
           \A q \in Readers \ {p} : pc'[q] = pc[q] /\ target'[q] = target[q],
           pc'[p] \notin {"calling", "called"},
           verdicts' = verdicts \/ verdicts' = Touched(target[p])
    PROVE  Quiet
<1>1. verdicts \in Memo /\ OneEntryPerRun(verdicts)
    BY DEF BuyInv, PayInv, Shape
<1>2. /\ OneEntryPerRun(verdicts')
      /\ \A j : Holds(verdicts', j) <=> Holds(verdicts, j)
      /\ \A j : Holds(verdicts, j) => Says(verdicts', j) = Says(verdicts, j)
    <2>1. CASE verdicts' = verdicts
        BY <2>1, <1>1
    <2>2. CASE verdicts' = Touched(target[p])
        BY <2>2, <1>1, TouchedSays, Zenon
    <2> QED
        BY <2>1, <2>2
<1> QED
    BY <1>2 DEF Quiet, Paying

LEMMA WhatReadersDo ==
    ASSUME BuyInv, [Next]_vars
    PROVE  Quiet \/ \E p \in Readers : Claims(p) \/ Dispatch(p) \/ Settle(p)
<1>s. /\ pc \in [Readers -> Labels] /\ target \in [Readers -> Runs \cup {NoRun}]
      /\ inflight \in [Runs -> Readers \cup {Nobody}] /\ ReadsARun
      /\ OneEntryPerRun(verdicts)
    BY DEF BuyInv, PayInv, Shape
<1> DEFINE Unseen(p) ==
        /\ pc[p] \notin {"calling", "called"} /\ UNCHANGED <<inflight, paid>>
        /\ \A q \in Readers \ {p} : pc'[q] = pc[q] /\ target'[q] = target[q]
        /\ pc'[p] \notin {"calling", "called"}
        /\ verdicts' = verdicts \/ verdicts' = Touched(target[p])
<1>1. ASSUME NEW p \in Readers, Unseen(p) PROVE Quiet
    BY <1>1, UnseenIsQuiet
<1>2. ASSUME NEW p \in Readers, NEW k \in Runs, Read(p, k) PROVE Unseen(p)
    BY <1>2, <1>s DEF Read, Goto, memos, world
<1>3. ASSUME NEW p \in Readers, MissEvaluation(p) PROVE Unseen(p)
    BY <1>3, <1>s DEF MissEvaluation, Goto, memos, world
<1>4. ASSUME NEW p \in Readers, HitEvaluation(p) PROVE Unseen(p)
    BY <1>4, <1>s DEF HitEvaluation, Goto, world
<1>5. ASSUME NEW p \in Readers, TouchVerdict(p) PROVE Unseen(p)
    BY <1>5, <1>s DEF TouchVerdict, Return, Goto, world
<1>6. ASSUME NEW p \in Readers, pc[p] \in {"asking", "claiming"}, UseVerdict(p) PROVE Unseen(p)
    BY <1>6, <1>s DEF UseVerdict, Goto, world
<1>7. ASSUME NEW p \in Readers, Ask(p) PROVE Unseen(p)
    <2>1. CASE Holds(verdicts, target[p])
        BY <1>6, <1>7, <2>1 DEF Ask
    <2>2. CASE ~Holds(verdicts, target[p])
        <3>1. /\ pc[p] = "asking" /\ UNCHANGED <<verdicts, inflight, paid, target>>
              /\ Goto(p, IF inflight[target[p]] # Nobody THEN "claiming" ELSE "paying?")
            BY <1>7, <2>2 DEF Ask, memos, world
        <3> QED
            BY <3>1, <1>s DEF Goto
    <2> QED
        BY <2>1, <2>2
<1>8. ASSUME NEW p \in Readers, CheckRails(p) PROVE Unseen(p)
    BY <1>8, <1>s DEF CheckRails, Suppress, Goto, memos, world
<1>9. ASSUME NEW p \in Readers, Claim(p) PROVE Unseen(p) \/ Claims(p)
    <2>1. CASE Holds(verdicts, target[p])
        BY <1>6, <1>9, <2>1 DEF Claim
    <2>2. CASE ~Holds(verdicts, target[p]) /\ sharing[p] /\ inflight[target[p]] = Nobody
        BY <1>9, <2>2, <1>s DEF Claim, Suppress, Goto, memos, world
    <2>3. CASE ~Holds(verdicts, target[p]) /\ ~sharing[p] /\ inflight[target[p]] = Nobody
        BY <1>9, <2>3, <1>s DEF Claim, ClaimOrJoin, Claims, Goto, world, ReadsARun
    <2>4. CASE ~Holds(verdicts, target[p]) /\ inflight[target[p]] # Nobody
        BY <1>9, <2>4, <1>s DEF Claim, ClaimOrJoin, Goto, world
    <2> QED
        BY <2>1, <2>2, <2>3, <2>4
<1>10. ASSUME NEW p \in Readers, Publish(p) PROVE Quiet
    <2>1. /\ UNCHANGED <<verdicts, inflight, paid, target>>
          /\ \A q \in Readers : pc'[q] = pc[q] \/ (pc[q] \in {"waiting", "publishing"} /\ pc'[q] = "storing")
        BY <1>10, <1>s DEF Publish, memos, world
    <2> QED
        BY <2>1, <1>s DEF Quiet, Paying
<1>11. ASSUME NEW p \in Readers, WaitTimesOut(p) PROVE Unseen(p)
    BY <1>11, <1>s DEF WaitTimesOut, Suppress, Goto, memos, world
<1>12. ASSUME NEW p \in Readers, Store(p) \/ EvaluationRaises(p) PROVE Unseen(p)
    BY <1>12, <1>s DEF Store, EvaluationRaises, Return, Goto, memos, world
<1>13. CASE (\E k \in Runs : RunMoves(k)) \/ RailsMove \/ UNCHANGED vars
    <2>1. UNCHANGED <<verdicts, inflight, paid, pc, target>>
        BY <1>13 DEF RunMoves, RailsMove, vars, memos, world, locals
    <2> QED
        BY <2>1, <1>s DEF Quiet, Paying
<1> HIDE DEF Unseen
<1> QED
    BY <1>1, <1>2, <1>3, <1>4, <1>5, <1>7, <1>8, <1>9, <1>10, <1>11, <1>12, <1>13 DEF Next, Evaluate

LEMMA StageSays ==
    /\ \A k : Stage(k) = IF Holds(verdicts, k) THEN Says(verdicts, k)
                         ELSE IF inflight[k] = Nobody THEN "unknown"
                         ELSE IF pc[inflight[k]] = "calling" THEN "claimed" ELSE "called"
    /\ \A k : Stage(k)' = IF Holds(verdicts', k) THEN Says(verdicts', k)
                          ELSE IF inflight'[k] = Nobody THEN "unknown"
                          ELSE IF pc'[inflight'[k]] = "calling" THEN "claimed" ELSE "called"
BY Zenon DEF Stage, Says, Place, HeldVerdict, Holds

\* A reader that pays works on a run nobody else pays for, and whose verdict is
\* not held.
LEMMA PayerAlone ==
    ASSUME BuyInv, NEW p \in Readers, Paying(p)
    PROVE  /\ target[p] \in Runs /\ inflight[target[p]] = p /\ ~Holds(verdicts, target[p])
           /\ p # Nobody
           /\ \A k \in Runs : inflight[k] = p => k = target[p]
BY NamesAssumption DEF BuyInv, PayInv, Shape, ReadsARun, OnePayerPerRun, PayerMissed, Paying, ClaimHasItsCall

LEMMA QuietPreserves ==
    ASSUME BuyInv, Quiet
    PROVE  /\ OneEntryPerRun(verdicts') /\ ClaimHasItsCall'
           /\ \A k \in Runs : Stage(k)' = Stage(k)
<1>1. ASSUME NEW k \in Runs, inflight[k] # Nobody
      PROVE  /\ inflight[k] \in Readers /\ Paying(inflight[k]) /\ target[inflight[k]] = k
             /\ pc'[inflight[k]] = pc[inflight[k]] /\ target'[inflight[k]] = target[inflight[k]]
    BY <1>1 DEF BuyInv, PayInv, Shape, ClaimHasItsCall, Quiet
<1>2. ClaimHasItsCall'
    BY <1>1 DEF ClaimHasItsCall, Quiet, Paying
<1>3. \A k \in Runs : Stage(k)' = Stage(k)
    BY <1>1, StageSays DEF Quiet
<1> QED
    BY <1>2, <1>3 DEF Quiet

\* A payer's steps leave its target alone: under the primes below it is the same run.
LEMMA ClaimPreserves ==
    ASSUME BuyInv, NEW p \in Readers, Claims(p)
    PROVE  /\ OneEntryPerRun(verdicts') /\ ClaimHasItsCall'
           /\ Stage(target[p]) = "unknown" /\ Stage(target[p])' = "claimed"
           /\ \A k \in Runs \ {target[p]} : Stage(k)' = Stage(k)
<1>1. ASSUME NEW k \in Runs, inflight[k] # Nobody
      PROVE  /\ inflight[k] \in Readers \ {p} /\ Paying(inflight[k]) /\ target[inflight[k]] = k
             /\ pc'[inflight[k]] = pc[inflight[k]]
    BY <1>1 DEF BuyInv, PayInv, Shape, ClaimHasItsCall, Claims, Paying
<1>2. /\ inflight'[target[p]] = p /\ pc'[p] = "calling" /\ p # Nobody
      /\ \A k \in Runs \ {target[p]} : inflight'[k] = inflight[k]
    BY NamesAssumption DEF BuyInv, PayInv, Shape, Claims
<1>3. ClaimHasItsCall'
    <2> SUFFICES ASSUME NEW k \in Runs, inflight'[k] # Nobody
                 PROVE  pc'[inflight'[k]] \in {"calling", "called"} /\ target'[inflight'[k]] = k
        BY DEF ClaimHasItsCall, Paying
    <2>1. CASE k = target[p]
        BY <2>1, <1>2 DEF Claims
    <2>2. CASE k # target[p]
        BY <2>2, <1>1, <1>2 DEF Claims, Paying
    <2> QED
        BY <2>1, <2>2
<1>4. OneEntryPerRun(verdicts')
    BY DEF Claims, BuyInv
<1>5. Stage(target[p]) = "unknown" /\ Stage(target[p])' = "claimed"
    BY <1>2, StageSays DEF Claims
<1>6. \A k \in Runs \ {target[p]} : Stage(k)' = Stage(k)
    BY <1>1, <1>2, StageSays DEF Claims
<1> QED
    BY <1>3, <1>4, <1>5, <1>6

LEMMA CallPreserves ==
    ASSUME BuyInv, NEW p \in Readers, Dispatch(p)
    PROVE  /\ OneEntryPerRun(verdicts') /\ ClaimHasItsCall'
           /\ Stage(target[p]) = "claimed" /\ Stage(target[p])' = "called"
           /\ \A k \in Runs \ {target[p]} : Stage(k)' = Stage(k)
<1>1. /\ pc[p] = "calling" /\ pc' = [pc EXCEPT ![p] = "called"]
      /\ UNCHANGED <<verdicts, inflight, target>>
    BY DEF Dispatch, Goto, memos, locals
<1>2. /\ target[p] \in Runs /\ inflight[target[p]] = p /\ ~Holds(verdicts, target[p]) /\ p # Nobody
      /\ \A k \in Runs : inflight[k] = p => k = target[p]
    BY <1>1, PayerAlone DEF Paying
<1>3. ASSUME NEW k \in Runs, inflight[k] # Nobody
      PROVE  /\ inflight[k] \in Readers /\ Paying(inflight[k]) /\ target[inflight[k]] = k
    BY <1>3 DEF BuyInv, PayInv, Shape, ClaimHasItsCall
<1>4. pc'[p] = "called" /\ \A q \in Readers \ {p} : pc'[q] = pc[q]
    BY <1>1 DEF BuyInv, PayInv, Shape
<1>5. ClaimHasItsCall'
    BY <1>1, <1>3, <1>4 DEF ClaimHasItsCall, Paying
<1>6. OneEntryPerRun(verdicts')
    BY <1>1 DEF BuyInv
<1>7. Stage(target[p]) = "claimed" /\ Stage(target[p])' = "called"
    BY <1>1, <1>2, <1>4, StageSays
<1>8. \A k \in Runs \ {target[p]} : Stage(k)' = Stage(k)
    BY <1>1, <1>2, <1>3, <1>4, StageSays
<1> QED
    BY <1>5, <1>6, <1>7, <1>8

\* The verdict that arrives is kept; another one that is gone is as unknown as if
\* it had never been bought.
LEMMA SettlePreserves ==
    ASSUME BuyInv, NEW p \in Readers, Settle(p)
    PROVE  /\ OneEntryPerRun(verdicts') /\ ClaimHasItsCall'
           /\ Stage(target[p]) = "called" /\ Stage(target[p])' \in Verdict
           /\ \A k \in Runs \ {target[p]} :
                \/ Stage(k)' = Stage(k)
                \/ Stage(k) \in Verdict /\ Stage(k)' = "unknown"
<1>1. PICK v \in Verdict : verdicts' = StoredVerdict(target[p], v)
    BY DEF Settle
<1>2. /\ pc[p] = "called" /\ pc' = [pc EXCEPT ![p] = "publishing"] /\ target' = target
      /\ inflight' = [inflight EXCEPT ![target[p]] = Nobody]
    BY DEF Settle, Goto
<1>3. /\ target[p] \in Runs /\ inflight[target[p]] = p /\ ~Holds(verdicts, target[p]) /\ p # Nobody
      /\ \A k \in Runs : inflight[k] = p => k = target[p]
    BY <1>2, PayerAlone DEF Paying
<1>4. ASSUME NEW k \in Runs, inflight[k] # Nobody
      PROVE  /\ inflight[k] \in Readers /\ Paying(inflight[k]) /\ target[inflight[k]] = k
             /\ ~Holds(verdicts, k)
    BY <1>4 DEF BuyInv, PayInv, Shape, ClaimHasItsCall, PayerMissed
<1>5. /\ inflight'[target[p]] = Nobody
      /\ \A k \in Runs \ {target[p]} : inflight'[k] = inflight[k]
      /\ \A q \in Readers \ {p} : pc'[q] = pc[q]
    BY <1>2, <1>3 DEF BuyInv, PayInv, Shape
<1>6. ASSUME NEW k \in Runs \ {target[p]}, inflight[k] # Nobody
      PROVE  inflight[k] \in Readers \ {p}
    BY <1>3, <1>4, <1>6
<1>7. /\ OneEntryPerRun(verdicts')
      /\ Holds(verdicts', target[p]) /\ Says(verdicts', target[p]) = v
      /\ \A j : Holds(verdicts', j) /\ j # target[p] =>
            Holds(verdicts, j) /\ Says(verdicts', j) = Says(verdicts, j)
    <2>1. verdicts \in Memo /\ OneEntryPerRun(verdicts)
        BY DEF BuyInv, PayInv, Shape
    <2> DEFINE s == StoredVerdict(target[p], v)
    <2>2. target[p] \in Runs /\ ~Holds(verdicts, target[p])
        BY <1>3
    <2>3. /\ OneEntryPerRun(s) /\ Holds(s, target[p]) /\ Says(s, target[p]) = v
          /\ \A j : Holds(s, j) /\ j # target[p] => Holds(verdicts, j) /\ Says(s, j) = Says(verdicts, j)
        <3> HIDE DEF Verdict
        <3> QED
            BY <2>1, <2>2, StoredSays
    <2>4. verdicts' = s
        BY <1>1
    <2> HIDE DEF s
    <2> QED
        BY <2>3, <2>4
<1>8. ClaimHasItsCall'
    BY <1>2, <1>4, <1>5, <1>6 DEF ClaimHasItsCall, Paying
<1>9. Stage(target[p]) = "called" /\ Stage(target[p])' \in Verdict
    BY <1>2, <1>3, <1>7, StageSays
<1>10. ASSUME NEW k \in Runs \ {target[p]}
       PROVE  \/ Stage(k)' = Stage(k)
              \/ Stage(k) \in Verdict /\ Stage(k)' = "unknown"
    <2>1. CASE Holds(verdicts', k)
        BY <2>1, <1>7, StageSays
    <2>2. CASE ~Holds(verdicts', k) /\ Holds(verdicts, k)
        <3>1. inflight[k] = Nobody
            BY <2>2, <1>4
        <3>2. Says(verdicts, k) \in Verdict
            <4>1. PICK i \in DOMAIN verdicts : verdicts[i].run = k
                BY <2>2 DEF Holds
            <4>2. verdicts[i] \in Entry
                <5>1. verdicts \in Seq(Entry)
                    BY DEF BuyInv, PayInv, Shape, Memo
                <5> QED
                    BY <5>1, ElementOfSeq
            <4>3. Says(verdicts, k) = verdicts[i].verdict
                BY <4>1, PlaceOfEntry DEF BuyInv
            <4> QED
                BY <4>2, <4>3 DEF Entry
        <3> QED
            BY <2>2, <3>1, <3>2, <1>5, StageSays
    <2>3. CASE ~Holds(verdicts', k) /\ ~Holds(verdicts, k)
        BY <2>3, <1>5, <1>6, StageSays
    <2> QED
        BY <2>1, <2>2, <2>3
<1> QED
    BY <1>7, <1>8, <1>9, <1>10

\* BuyInv is inductive: beside who pays, that a run has one verdict in the memo and
\* that every claim has its call to come.
THEOREM BuyInvariant == Spec => []BuyInv
<1>1. Init => OneEntryPerRun(verdicts) /\ ClaimHasItsCall
    BY DEF Init, OneEntryPerRun, ClaimHasItsCall
<1>2. BuyInv /\ [Next]_vars => OneEntryPerRun(verdicts)' /\ ClaimHasItsCall'
    BY WhatReadersDo, QuietPreserves, ClaimPreserves, CallPreserves, SettlePreserves
<1>3. BuyInv <=> PayInv /\ OneEntryPerRun(verdicts) /\ ClaimHasItsCall
    BY DEF BuyInv
<1> QED
    BY <1>1, <1>2, <1>3, PayInvariant, PTL DEF Spec

\* A step of the readers is a step of JudgePurchase or changes nothing it knows of.
LEMMA StepsRefine ==
    ASSUME BuyInv, [Next]_vars
    PROVE  [Purchase!Next]_<<[k \in DOMAIN paid |-> Stage(k)], paid>>
<1> DEFINE stage == [k \in DOMAIN paid |-> Stage(k)]
           stage2 == [k \in DOMAIN paid' |-> Stage(k)']
<1>1. paid \in [Runs -> 0 .. 2] /\ DOMAIN paid = Runs
    BY DEF BuyInv, PayInv, Shape
<1>2. paid' \in [Runs -> 0 .. 2] /\ DOMAIN paid' = Runs
    BY <1>1, WhatReadersDo DEF Quiet, Claims, Dispatch, Settle, world
<1>f. /\ stage = [k \in Runs |-> stage[k]] /\ DOMAIN stage = Runs
      /\ stage2 = [k \in Runs |-> stage2[k]] /\ DOMAIN stage2 = Runs
    BY <1>1, <1>2
<1>3. \A k \in Runs : stage[k] = Stage(k)
    BY <1>1
<1>4. \A k \in Runs : stage2[k] = Stage(k)'
    BY <1>2
<1>5. stage' = stage2
    OBVIOUS
<1>6. CASE Quiet
    <2>1. paid' = paid /\ \A k \in Runs : stage2[k] = stage[k]
        BY <1>3, <1>4, <1>6, QuietPreserves DEF Quiet
    <2> HIDE DEF stage, stage2
    <2>2. stage2 = stage
        BY <2>1, <1>f
    <2> QED
        BY <2>1, <2>2, <1>5 DEF stage
<1>7. ASSUME NEW p \in Readers, Claims(p) PROVE Purchase!Claim(target[p]) /\ target[p] \in Runs
    <2>1. /\ paid' = paid /\ target[p] \in Runs
          /\ stage[target[p]] = "unknown" /\ stage2[target[p]] = "claimed"
          /\ \A k \in Runs \ {target[p]} : stage2[k] = stage[k]
        BY <1>3, <1>4, <1>7, ClaimPreserves DEF Claims
    <2> HIDE DEF stage, stage2
    <2>2. stage2 = [stage EXCEPT ![target[p]] = "claimed"]
        BY <2>1, <1>f
    <2> QED
        BY <2>1, <2>2, <1>5 DEF Purchase!Claim, stage
<1>8. ASSUME NEW p \in Readers, Dispatch(p) PROVE Purchase!Call(target[p]) /\ target[p] \in Runs
    <2>1. target[p] \in Runs /\ target' = target
        BY <1>8, PayerAlone DEF Dispatch, Paying, locals
    <2>2. paid' = [paid EXCEPT ![target[p]] = IF @ = 0 THEN 1 ELSE 2]
        BY <1>8 DEF Dispatch
    <2>3. /\ Stage(target[p]) = "claimed" /\ Stage(target[p])' = "called"
          /\ \A k \in Runs \ {target[p]} : Stage(k)' = Stage(k)
        BY <1>8, CallPreserves
    <2> HIDE DEF stage, stage2
    <2>4. /\ stage[target[p]] = "claimed" /\ stage2[target[p]] = "called"
          /\ \A k \in Runs \ {target[p]} : stage2[k] = stage[k]
        BY <2>1, <2>3, <1>3, <1>4
    <2>5. stage2 = [stage EXCEPT ![target[p]] = "called"]
        BY <2>1, <2>4, <1>f
    <2> QED
        BY <2>1, <2>2, <2>4, <2>5, <1>5 DEF Purchase!Call, stage
<1>9. ASSUME NEW p \in Readers, Settle(p) PROVE Purchase!Keep(target[p]) /\ target[p] \in Runs
    <2>0. paid' = paid /\ target[p] \in Runs /\ target' = target
        BY <1>9, PayerAlone DEF Settle, Paying, world
    <2> HIDE DEF stage, stage2
    <2>1. /\ paid' = paid /\ target[p] \in Runs
          /\ stage[target[p]] = "called" /\ stage2[target[p]] \in Verdict
          /\ \A k \in Runs \ {target[p]} :
                stage2[k] = stage[k] \/ (stage[k] \in Verdict /\ stage2[k] = "unknown")
        <3>1. /\ Stage(target[p]) = "called" /\ Stage(target[p])' \in Verdict
              /\ \A k \in Runs \ {target[p]} :
                    Stage(k)' = Stage(k) \/ (Stage(k) \in Verdict /\ Stage(k)' = "unknown")
            BY <1>9, SettlePreserves
        <3> QED
            BY <2>0, <3>1, <1>3, <1>4
    <2> DEFINE forgotten == { k \in Runs \ {target[p]} : stage2[k] # stage[k] }
    <2>2. stage2 = [j \in DOMAIN stage |-> IF j = target[p] THEN stage2[target[p]]
                                           ELSE IF j \in forgotten THEN "unknown" ELSE stage[j]]
        BY <2>1, <1>f
    <2>3. forgotten \in SUBSET { k \in DOMAIN stage : stage[k] \in Verdict }
        BY <2>1, <1>f
    <2> HIDE DEF forgotten
    <2>4. Purchase!Kept = { k \in DOMAIN stage : stage[k] \in Verdict }
        BY DEF Purchase!Kept, stage
    <2>5. \E v \in Verdict, f \in SUBSET Purchase!Kept :
              stage2 = [j \in DOMAIN stage |-> IF j = target[p] THEN v
                                               ELSE IF j \in f THEN "unknown" ELSE stage[j]]
        BY <2>1, <2>2, <2>3, <2>4
    <2> QED
        BY <2>1, <2>5, <1>5 DEF Purchase!Keep, stage
<1> QED
    BY <1>f, <1>6, <1>7, <1>8, <1>9, WhatReadersDo DEF Purchase!Next

\* VerdictIsBoughtOnce: for any number of readers, runs and memo entries JudgeMemo
\* implements JudgePurchase, in which a claim makes one call, the call's verdict is
\* kept as it came, and nothing kept is bought again or replaced.
THEOREM BoughtOnce == Spec => VerdictIsBoughtOnce
<1>1. Init => Purchase!Init
    <2> SUFFICES ASSUME Init PROVE Purchase!Init
        OBVIOUS
    <2>1. \A k \in Runs : Stage(k) = "unknown"
        BY StageSays DEF Init, Holds
    <2>2. paid = [k \in Runs |-> 0] /\ DOMAIN paid = Runs
        BY DEF Init
    <2> QED
        BY <2>1, <2>2 DEF Purchase!Init
<1>2. BuyInv /\ [Next]_vars => [Purchase!Next]_<<[k \in DOMAIN paid |-> Stage(k)], paid>>
    BY StepsRefine
<1> QED
    BY <1>1, <1>2, BuyInvariant, PTL DEF Spec, VerdictIsBoughtOnce, Purchase!Spec

-----------------------------------------------------------------------------
(* The pages the judge is told of (SourcePages).                             *)
CONSTANTS Citations, HostOf, FormOf, Budget, PerRecv, PdfWall, Cap, MaxPages, MaxPagesPerHost
VARIABLES sources, now, at, phase, askedFor, fired, waited, response, body, robots, rows, slot, wall

Pages == INSTANCE SourcePages WITH target <- askedFor

Sites == {HostOf[a] : a \in Pages!Addresses}
Outcomes == {"skipped", "skipped_cap", "refused_robots", "robots_unchecked", "refused_address",
             "refused_redirect", "refused_content_type", "timeout", "network_error", "http_error",
             "too_large", "unusable", "fetched"} \cup {FormOf[a] : a \in Pages!Addresses}
RowShape == [address : Pages!Addresses, outcome : Outcomes, truncated : BOOLEAN, whole : BOOLEAN]
Resting == {"next", "done"}
Phases == Resting \cup {"permit", "start", "resolve", "request", "head", "answered", "body", "pdf", "child"}

PagesShape ==
    /\ Len(sources) \in Nat /\ DOMAIN sources = 1 .. Len(sources)
    /\ \A i \in 1 .. Len(sources) : sources[i].address \in Pages!Addresses
    /\ now \in 0 .. Budget /\ phase \in Phases /\ askedFor \in {"page", "robots"} /\ fired \in BOOLEAN
    /\ body \in [chunks : Nat, more : BOOLEAN, ended : BOOLEAN]
    /\ rows \in Seq(RowShape) /\ DOMAIN robots = Sites
    /\ at \in 1 .. Len(Pages!Distinct) + 1 /\ Len(rows) = at - 1
    /\ phase \notin Resting => at <= Len(Pages!Distinct)
    /\ phase = "done" => at > Len(Pages!Distinct)

\* A site whose robots.txt allows it, or that has none.
Permits(reading) == reading.status = 4 \/ (reading.whole /\ reading.says = "allowed")

\* One row for each address that is behind, in their order.
RowsAreInOrder == \A k \in 1 .. Len(rows) : rows[k].address = Pages!Distinct[k]

FetchedAsAllowed ==
    \A k \in 1 .. Len(rows) : rows[k].outcome = "fetched" =>
        Permits(robots[HostOf[rows[k].address]]) /\ (rows[k].whole \/ rows[k].truncated)

TriedAt(h) == Pages!Tried({k \in DOMAIN rows : HostOf[rows[k].address] = h})

\* While an address is tried, its row still has a place.
WithinCaps ==
    /\ Pages!Tried(DOMAIN rows) <= MaxPages
    /\ \A h \in Sites : TriedAt(h) <= MaxPagesPerHost
    /\ phase \notin Resting => Pages!Tried(DOMAIN rows) < MaxPages /\ TriedAt(Pages!Host) < MaxPagesPerHost

\* A robots.txt that counts was read whole; it is read once, and a page only after it.
RobotsFirst ==
    /\ \A h \in Sites : robots[h].status = 2 => robots[h].whole
    /\ phase \notin Resting \cup {"permit"} =>
        IF askedFor = "page" THEN Pages!RobotsPermit(robots[Pages!Host]) = "allowed"
        ELSE robots[Pages!Host] = Pages!Unasked

\* A body that is not read on was ended by its site, cut at its cap, or its connection shut.
BodyIsAccountedFor ==
    /\ body.more \/ body.ended \/ fired \/ body.chunks > Cap
    /\ phase \in {"pdf", "child"} => body.ended

ChildIsTimely ==
    /\ phase = "child" => wall \in Nat /\ wall <= Budget
    /\ slot = "ours" => phase = "child"

PagesInv ==
    /\ PagesShape /\ RowsAreInOrder /\ FetchedAsAllowed /\ WithinCaps
    /\ RobotsFirst /\ BodyIsAccountedFor /\ ChildIsTimely

-----------------------------------------------------------------------------
(* The addresses in their order.                                             *)

\* Sets are counted alike in both modules.
LEMMA PagesCardinality == \A S : Pages!Cardinality(S) = Cardinality(S)
<1>1. ASSUME NEW S PROVE Pages!Cardinality(S) = Cardinality(S)
    BY DEF Pages!Cardinality, Cardinality
<1> QED BY <1>1

\* The n-th of a finite set of numbers is the one with n - 1 below it.
LEMMA EveryPlaceIsTaken ==
    ASSUME NEW S, S \subseteq Int, IsFiniteSet(S), NEW n \in 1 .. Cardinality(S)
    PROVE  \E i \in S : Cardinality({j \in S : j < i}) = n - 1
<1> DEFINE Below(i) == {j \in S : j < i}
           rank == [i \in S |-> Cardinality(Below(i))]
           c == Cardinality(S)
<1>1. c \in Nat
    BY FS_CardinalityType
<1>2. ASSUME NEW i \in S PROVE IsFiniteSet(Below(i)) /\ Cardinality(Below(i)) \in 0 .. c - 1
    <2>1. Below(i) \subseteq S \ {i}
        OBVIOUS
    <2>2. IsFiniteSet(S \ {i}) /\ Cardinality(S \ {i}) = c - 1
        BY FS_RemoveElement
    <2> HIDE DEF Below, c
    <2>3. IsFiniteSet(Below(i)) /\ Cardinality(Below(i)) <= c - 1
        BY <2>1, <2>2, FS_Subset
    <2> QED BY <2>3, FS_CardinalityType
<1>3. ASSUME NEW i \in S, NEW j \in S, i < j PROVE rank[i] < rank[j]
    <2>1. Below(i) \subseteq Below(j) /\ Below(i) # Below(j)
        <3>1. i \in Int /\ j \in Int /\ i \in Below(j) /\ i \notin Below(i)
            BY <1>3
        <3>2. \A k \in Below(i) : k \in S /\ k < j
            BY <1>3, <3>1
        <3> QED BY <3>1, <3>2
    <2>2. rank[i] = Cardinality(Below(i)) /\ rank[j] = Cardinality(Below(j))
        OBVIOUS
    <2> HIDE DEF Below, rank
    <2>3. /\ Cardinality(Below(i)) <= Cardinality(Below(j))
          /\ Cardinality(Below(i)) # Cardinality(Below(j))
        BY <1>2, <2>1, FS_Subset
    <2> QED BY <1>2, <2>2, <2>3
<1>4. rank \in [S -> 0 .. c - 1]
    BY <1>2
<1>5. rank \in Injection(S, 0 .. c - 1)
    <2>1. \A i, j \in S : rank[i] = rank[j] => i = j
        <3>1. \A i \in S : rank[i] \in Int
            BY <1>2
        <3> HIDE DEF rank
        <3> QED BY <1>3, <3>1
    <2> HIDE DEF rank, c
    <2> QED BY <1>4, <2>1 DEF Injection, IsInjective
<1>6. IsFiniteSet(0 .. c - 1) /\ Cardinality(0 .. c - 1) = c
    <2> HIDE DEF c
    <2> QED BY <1>1, FS_Interval
<1>7. rank \in Surjection(S, 0 .. c - 1)
    <2> HIDE DEF rank
    <2> QED BY <1>5, <1>6, FS_Injection
<1>8. PICK i \in S : rank[i] = n - 1
    <2>1. n - 1 \in 0 .. c - 1
        BY <1>1
    <2> HIDE DEF rank, c
    <2> QED BY <1>7, <2>1 DEF Surjection
<1> QED BY <1>8

\* Every address that is cited is listed once.
LEMMA DistinctIsDistinct ==
    ASSUME Len(sources) \in Nat, DOMAIN sources = 1 .. Len(sources),
           \A i \in 1 .. Len(sources) : sources[i].address \in Pages!Addresses
    PROVE  /\ Len(Pages!Distinct) \in Nat /\ DOMAIN Pages!Distinct = 1 .. Len(Pages!Distinct)
           /\ \A k \in 1 .. Len(Pages!Distinct) : Pages!Distinct[k] \in Pages!Addresses
           /\ \A j, k \in 1 .. Len(Pages!Distinct) : Pages!Distinct[j] = Pages!Distinct[k] => j = k
<1> DEFINE first == {i \in DOMAIN sources : \A j \in 1 .. (i - 1) : sources[j].address # sources[i].address}
           Below(i) == {j \in first : j < i}
           Nth(n) == CHOOSE i \in first : Pages!Cardinality(Below(i)) = n - 1
           c == Pages!Cardinality(first)
<1>1. first \subseteq 1 .. Len(sources) /\ IsFiniteSet(first) /\ c \in Nat
    <2>1. first \subseteq 1 .. Len(sources) /\ IsFiniteSet(1 .. Len(sources))
        BY FS_Interval
    <2> HIDE DEF first
    <2> QED BY <2>1, FS_Subset, FS_CardinalityType, PagesCardinality
<1>2. Pages!Distinct = [n \in 1 .. c |-> sources[Nth(n)].address]
    BY Zenon DEF Pages!Distinct
<1>3. ASSUME NEW n \in 1 .. c PROVE Nth(n) \in first /\ Pages!Cardinality(Below(Nth(n))) = n - 1
    <2>1. \E i \in first : Pages!Cardinality(Below(i)) = n - 1
        <3>1. first \subseteq Int
            BY <1>1
        <3> HIDE DEF first
        <3> QED BY <1>1, <3>1, EveryPlaceIsTaken, PagesCardinality
    <2> HIDE DEF first, Below
    <2> QED BY <2>1
<1>4. ASSUME NEW i \in first, NEW j \in first, sources[i].address = sources[j].address PROVE i = j
    <2>1. i \in 1 .. Len(sources) /\ j \in 1 .. Len(sources)
        BY <1>1
    <2>2. \A k \in 1 .. (i - 1) : sources[k].address # sources[i].address
        OBVIOUS
    <2>3. \A k \in 1 .. (j - 1) : sources[k].address # sources[j].address
        OBVIOUS
    <2> HIDE DEF first
    <2> QED BY <1>4, <2>1, <2>2, <2>3
<1> HIDE DEF first, Below, Nth, c
<1>5. Len(Pages!Distinct) = c /\ DOMAIN Pages!Distinct = 1 .. c
    BY <1>1, <1>2
<1>6. \A k \in 1 .. c : Pages!Distinct[k] \in Pages!Addresses
    BY <1>1, <1>2, <1>3
<1>7. ASSUME NEW j \in 1 .. c, NEW k \in 1 .. c, Pages!Distinct[j] = Pages!Distinct[k] PROVE j = k
    <2>1. Nth(j) = Nth(k)
        BY <1>2, <1>3, <1>4, <1>7
    <2> QED BY <1>1, <1>3, <2>1
<1> QED BY <1>1, <1>5, <1>6, <1>7

-----------------------------------------------------------------------------
(* A row more.                                                               *)

\* How many of some rows were tried.
CountOf(list, set) == Cardinality({k \in set : list[k].outcome # "skipped"})

\* Trying one address more counts one more, skipping it counts none.
LEMMA OneMoreTried ==
    ASSUME NEW list \in Seq(RowShape), NEW row \in RowShape, NEW longer, longer = Append(list, row),
           NEW T, T \subseteq DOMAIN list, NEW U, U \subseteq T \cup {Len(list) + 1}
    PROVE  /\ CountOf(list, T) \in Nat /\ CountOf(longer, U) \in Nat
           /\ CountOf(longer, U) <= CountOf(list, T) + 1
           /\ row.outcome = "skipped" \/ Len(list) + 1 \notin U => CountOf(longer, U) <= CountOf(list, T)
<1> DEFINE A == {k \in T : list[k].outcome # "skipped"}
           B == {k \in U : longer[k].outcome # "skipped"}
           n == Len(list) + 1
<1>1. DOMAIN list = 1 .. Len(list) /\ n \in Nat
    OBVIOUS
<1>2. \A k \in DOMAIN list : longer[k] = list[k]
    BY <1>1
<1>3. longer[n] = row /\ n \notin DOMAIN list
    BY <1>1
<1>4. CountOf(list, T) = Cardinality(A) /\ CountOf(longer, U) = Cardinality(B)
    BY DEF CountOf
<1>5. IsFiniteSet(A) /\ Cardinality(A) \in Nat
    <2>1. IsFiniteSet(1 .. Len(list))
        BY FS_Interval
    <2>2. A \subseteq 1 .. Len(list)
        BY <1>1
    <2> HIDE DEF A
    <2> QED BY <2>1, <2>2, FS_Subset, FS_CardinalityType
<1>6. B \subseteq A \cup {n}
    BY <1>2
<1>7. row.outcome = "skipped" \/ n \notin U => B \subseteq A
    BY <1>2, <1>3
<1> HIDE DEF A, B, n
<1>8. IsFiniteSet(A \cup {n}) /\ Cardinality(A \cup {n}) <= Cardinality(A) + 1
    <2>1. /\ IsFiniteSet(A \cup {n})
          /\ Cardinality(A \cup {n}) = IF n \in A THEN Cardinality(A) ELSE Cardinality(A) + 1
        BY <1>5, FS_AddElement
    <2> QED BY <1>5, <2>1
<1>9. IsFiniteSet(B) /\ Cardinality(B) \in Nat /\ Cardinality(B) <= Cardinality(A) + 1
    BY <1>5, <1>6, <1>8, FS_Subset, FS_CardinalityType
<1>10. B \subseteq A => Cardinality(B) <= Cardinality(A)
    BY <1>5, FS_Subset
<1> QED BY <1>4, <1>5, <1>7, <1>9, <1>10 DEF n

\* The row of the address at hand takes its place.
LEMMA RowIsAdded ==
    ASSUME Pages!FetchAssumption, PagesShape, RowsAreInOrder, FetchedAsAllowed, WithinCaps,
           NEW row \in RowShape, row.address = Pages!Url, at <= Len(Pages!Distinct),
           rows' = Append(rows, row), at' = at + 1, UNCHANGED <<sources, robots>>,
           row.outcome = "fetched" => Permits(robots[Pages!Host]) /\ (row.whole \/ row.truncated),
           row.outcome # "skipped" =>
               Pages!Tried(DOMAIN rows) < MaxPages /\ TriedAt(Pages!Host) < MaxPagesPerHost
    PROVE  /\ rows' \in Seq(RowShape) /\ Len(rows') = at' - 1 /\ RowsAreInOrder' /\ FetchedAsAllowed'
           /\ Pages!Tried(DOMAIN rows)' <= MaxPages /\ \A h \in Sites : TriedAt(h)' <= MaxPagesPerHost
           /\ at' \in 1 .. Len(Pages!Distinct)' + 1
<1>1. Pages!Distinct' = Pages!Distinct
    BY DEF Pages!Distinct
<1>2. /\ Len(Pages!Distinct) \in Nat /\ at \in 1 .. Len(Pages!Distinct) /\ Len(rows) = at - 1
      /\ rows \in Seq(RowShape)
    BY DistinctIsDistinct DEF PagesShape
<1>3. /\ rows' \in Seq(RowShape) /\ Len(rows') = at /\ DOMAIN rows' = 1 .. at
      /\ DOMAIN rows = 1 .. at - 1 /\ rows'[at] = row /\ \A k \in 1 .. at - 1 : rows'[k] = rows[k]
    BY <1>2
<1>4. at' - 1 = at /\ at' \in 1 .. Len(Pages!Distinct)' + 1
    BY <1>1, <1>2
<1>5. RowsAreInOrder'
    BY <1>1, <1>2, <1>3 DEF RowsAreInOrder, Pages!Url
<1>6. FetchedAsAllowed'
    BY <1>2, <1>3 DEF FetchedAsAllowed, Permits, Pages!Host
<1>7. Pages!Tried(DOMAIN rows)' <= MaxPages
    <2> DEFINE T == DOMAIN rows
               U == DOMAIN rows'
    <2>1. T \subseteq DOMAIN rows /\ U \subseteq T \cup {Len(rows) + 1}
        BY <1>2, <1>3
    <2>2. /\ CountOf(rows, T) \in Nat /\ CountOf(rows', U) \in Nat
          /\ CountOf(rows', U) <= CountOf(rows, T) + 1
          /\ row.outcome = "skipped" => CountOf(rows', U) <= CountOf(rows, T)
        <3> HIDE DEF T, U
        <3> QED BY <1>2, <2>1, OneMoreTried
    <2>3. Pages!Tried(DOMAIN rows) = CountOf(rows, T) /\ Pages!Tried(DOMAIN rows)' = CountOf(rows', U)
        BY PagesCardinality DEF Pages!Tried, CountOf
    <2> HIDE DEF T, U
    <2> QED BY <2>2, <2>3 DEF WithinCaps, Pages!FetchAssumption
<1>8. ASSUME NEW h \in Sites PROVE TriedAt(h)' <= MaxPagesPerHost
    <2> DEFINE T == {k \in DOMAIN rows : HostOf[rows[k].address] = h}
               U == {k \in DOMAIN rows' : HostOf[rows'[k].address] = h}
    <2>1. T \subseteq DOMAIN rows /\ U \subseteq T \cup {Len(rows) + 1} /\ (at \in U => h = Pages!Host)
        BY <1>2, <1>3 DEF Pages!Host
    <2>2. /\ CountOf(rows, T) \in Nat /\ CountOf(rows', U) \in Nat
          /\ CountOf(rows', U) <= CountOf(rows, T) + 1
          /\ row.outcome = "skipped" \/ Len(rows) + 1 \notin U => CountOf(rows', U) <= CountOf(rows, T)
        <3> HIDE DEF T, U
        <3> QED BY <1>2, <2>1, OneMoreTried
    <2>3. TriedAt(h) = CountOf(rows, T) /\ TriedAt(h)' = CountOf(rows', U)
        BY PagesCardinality DEF TriedAt, Pages!Tried, CountOf
    <2>4. TriedAt(h) <= MaxPagesPerHost
        BY DEF WithinCaps
    <2>5. Len(rows) + 1 = at
        BY <1>2
    <2> HIDE DEF T, U
    <2> QED BY <2>1, <2>2, <2>3, <2>4, <2>5 DEF Pages!FetchAssumption
<1> QED BY <1>3, <1>4, <1>5, <1>6, <1>7, <1>8

-----------------------------------------------------------------------------
(* The steps.                                                                *)

\* The address that is tried is of a site.
LEMMA HostIsASite ==
    ASSUME PagesShape, at <= Len(Pages!Distinct)
    PROVE  Pages!Url \in Pages!Addresses /\ Pages!Host \in Sites
<1>1. at \in 1 .. Len(Pages!Distinct)
    BY DistinctIsDistinct DEF PagesShape
<1> QED BY <1>1, DistinctIsDistinct DEF PagesShape, Pages!Url, Pages!Host, Sites

\* A row is one of the address at hand.
LEMMA RowFits ==
    ASSUME PagesShape, at <= Len(Pages!Distinct), NEW outcome \in Outcomes, NEW truncated \in BOOLEAN
    PROVE  /\ Pages!Row(outcome, truncated) \in RowShape
           /\ Pages!Row(outcome, truncated).address = Pages!Url
           /\ Pages!Row(outcome, truncated).outcome = outcome
           /\ Pages!Row(outcome, truncated).truncated = truncated
           /\ Pages!Row(outcome, truncated).whole = body.ended
    BY HostIsASite DEF PagesShape, Pages!Row, RowShape

\* A row that ends an address nobody is asked for any more.
LEMMA AddressIsOver ==
    ASSUME Pages!FetchAssumption, PagesInv, NEW row \in RowShape, row.address = Pages!Url,
           rows' = Append(rows, row), at' = at + 1,
           at <= Len(Pages!Distinct), UNCHANGED <<sources, robots, now>>,
           phase' = "next", askedFor' \in {"page", "robots"}, fired' \in BOOLEAN,
           body' \in [chunks : Nat, more : BOOLEAN, ended : BOOLEAN],
           body'.more \/ body'.ended \/ fired' \/ body'.chunks > Cap, slot' # "ours",
           row.outcome = "fetched" => Permits(robots[Pages!Host]) /\ (row.whole \/ row.truncated),
           row.outcome # "skipped" =>
               Pages!Tried(DOMAIN rows) < MaxPages /\ TriedAt(Pages!Host) < MaxPagesPerHost
    PROVE  PagesInv'
<1>1. /\ rows' \in Seq(RowShape) /\ Len(rows') = at' - 1 /\ RowsAreInOrder' /\ FetchedAsAllowed'
      /\ Pages!Tried(DOMAIN rows)' <= MaxPages /\ \A h \in Sites : TriedAt(h)' <= MaxPagesPerHost
      /\ at' \in 1 .. Len(Pages!Distinct)' + 1
    BY RowIsAdded DEF PagesInv
<1>2. PagesShape'
    BY <1>1 DEF PagesInv, PagesShape, Phases, Resting
<1>3. WithinCaps'
    BY <1>1 DEF WithinCaps, Resting
<1>4. RobotsFirst' /\ BodyIsAccountedFor' /\ ChildIsTimely'
    BY DEF PagesInv, RobotsFirst, BodyIsAccountedFor, ChildIsTimely, Resting
<1> QED BY <1>1, <1>2, <1>3, <1>4 DEF PagesInv

\* An address that ends unread, the thread's fetch left as it is.
LEMMA PageIsNotRead ==
    ASSUME Pages!FetchAssumption, PagesInv, phase \in {"next", "permit"},
           NEW outcome \in Outcomes \ {"fetched"},
           rows' = Append(rows, Pages!Row(outcome, FALSE)), at' = at + 1, at <= Len(Pages!Distinct),
           UNCHANGED <<sources, now, fired, body, robots, slot>>,
           phase' = "next", askedFor' \in {"page", "robots"},
           outcome # "skipped" =>
               Pages!Tried(DOMAIN rows) < MaxPages /\ TriedAt(Pages!Host) < MaxPagesPerHost
    PROVE  PagesInv'
<1> DEFINE row == Pages!Row(outcome, FALSE)
<1>1. row \in RowShape /\ row.address = Pages!Url /\ row.outcome = outcome
    BY RowFits DEF PagesInv
<1>2. rows' = Append(rows, row)
    OBVIOUS
<1> HIDE DEF row
<1>3. /\ fired' \in BOOLEAN /\ slot' # "ours"
      /\ body' \in [chunks : Nat, more : BOOLEAN, ended : BOOLEAN]
      /\ body'.more \/ body'.ended \/ fired' \/ body'.chunks > Cap
    BY DEF PagesInv, PagesShape, BodyIsAccountedFor, ChildIsTimely
<1> QED BY <1>1, <1>2, <1>3, AddressIsOver

\* A fetch ends, of a page or of a robots.txt.
LEMMA FetchEnds ==
    ASSUME Pages!FetchAssumption, PagesInv, phase \notin Resting \cup {"permit"},
           NEW outcome \in Outcomes, NEW truncated \in BOOLEAN, Pages!Ends(outcome, truncated),
           slot' # "ours", outcome = "fetched" => body.ended \/ truncated,
           outcome \in {"http_error", "refused_redirect"} => response.status # 2
    PROVE  PagesInv'
<1>1. /\ at <= Len(Pages!Distinct) /\ Pages!Host \in Sites
      /\ Pages!Tried(DOMAIN rows) < MaxPages /\ TriedAt(Pages!Host) < MaxPagesPerHost
    BY HostIsASite DEF PagesInv, PagesShape, WithinCaps
<1>2. /\ fired' = FALSE /\ body' = Pages!NoBody /\ UNCHANGED <<sources, now, askedFor>>
    BY DEF Pages!Ends
<1>3. /\ body' \in [chunks : Nat, more : BOOLEAN, ended : BOOLEAN] /\ body'.more
    BY <1>2 DEF Pages!NoBody
<1>4. CASE askedFor = "page"
    <2>1. /\ rows' = Append(rows, Pages!Row(outcome, truncated)) /\ at' = at + 1
          /\ phase' = "next" /\ UNCHANGED robots
        BY <1>4 DEF Pages!Ends
    <2>2. Permits(robots[Pages!Host])
        BY <1>1, <1>4 DEF PagesInv, RobotsFirst, Pages!RobotsPermit, Permits
    <2> DEFINE row == Pages!Row(outcome, truncated)
    <2>3. /\ row \in RowShape /\ row.address = Pages!Url /\ row.outcome = outcome
          /\ row.truncated = truncated /\ row.whole = body.ended
        BY <1>1, RowFits DEF PagesInv
    <2>4. rows' = Append(rows, row)
        BY <2>1
    <2> HIDE DEF row
    <2> QED BY <1>1, <1>2, <1>3, <1>4, <2>1, <2>2, <2>3, <2>4, AddressIsOver
<1>5. CASE askedFor = "robots"
    <2>1. \E reading : /\ robots' = [robots EXCEPT ![Pages!Host] = reading]
                       /\ reading.status = 2 => reading.whole
        <3>1. ASSUME NEW says
              PROVE  LET reading == Pages!RobotsReading(outcome, says, truncated)
                     IN  reading.status = 2 => reading.whole
            BY DEF Pages!RobotsReading
        <3>2. \E says \in {"allowed", "refused", "too large"} :
                  robots' = [robots EXCEPT ![Pages!Host] = Pages!RobotsReading(outcome, says, truncated)]
            BY <1>5 DEF Pages!Ends
        <3> QED BY <3>1, <3>2
    <2>2. phase' = "permit" /\ UNCHANGED <<rows, at>>
        BY <1>5 DEF Pages!Ends
    <2>3. Pages!Distinct' = Pages!Distinct /\ Pages!Host' = Pages!Host
        <3>1. Pages!Distinct' = Pages!Distinct
            BY <1>2 DEF Pages!Distinct
        <3> QED BY <2>2, <3>1 DEF Pages!Host, Pages!Url
    <2>4. DOMAIN robots' = Sites /\ \A h \in Sites : h # Pages!Host => robots'[h] = robots[h]
        BY <2>1 DEF PagesInv, PagesShape
    <2>6. robots'[Pages!Host].status = 2 => robots'[Pages!Host].whole
        BY <1>1, <2>1 DEF PagesInv, PagesShape
    <2>7. robots[Pages!Host] = Pages!Unasked
        BY <1>5 DEF PagesInv, RobotsFirst
    <2>8. ~Permits(robots[Pages!Host])
        <3>1. robots[Pages!Host].status = -1 /\ robots[Pages!Host].says = "nothing"
            BY <2>7 DEF Pages!Unasked
        <3> QED BY <3>1 DEF Permits
    <2>9. PagesShape'
        BY <1>2, <1>3, <2>2, <2>3, <2>4, <1>1 DEF PagesInv, PagesShape, Phases, Resting
    <2>10. RowsAreInOrder' /\ WithinCaps'
        <3>1. \A h : TriedAt(h)' = TriedAt(h)
            BY <2>2 DEF TriedAt, Pages!Tried
        <3>2. Pages!Tried(DOMAIN rows)' = Pages!Tried(DOMAIN rows)
            BY <2>2 DEF Pages!Tried
        <3> QED BY <1>1, <2>2, <2>3, <3>1, <3>2 DEF PagesInv, RowsAreInOrder, WithinCaps
    <2>11. FetchedAsAllowed'
        <3>1. ASSUME NEW k \in 1 .. Len(rows), rows[k].outcome = "fetched"
              PROVE  robots'[HostOf[rows[k].address]] = robots[HostOf[rows[k].address]]
            <4>1. HostOf[rows[k].address] \in Sites
                <5>1. rows[k] \in RowShape
                    BY DEF PagesInv, PagesShape
                <5> QED BY <5>1 DEF RowShape, Sites
            <4>2. HostOf[rows[k].address] # Pages!Host
                BY <2>8, <3>1 DEF PagesInv, FetchedAsAllowed
            <4> QED BY <2>4, <4>1, <4>2
        <3> QED BY <2>2, <3>1 DEF PagesInv, FetchedAsAllowed
    <2>12. RobotsFirst'
        BY <2>2, <2>4, <2>6 DEF PagesInv, RobotsFirst, Resting
    <2>13. BodyIsAccountedFor' /\ ChildIsTimely'
        BY <1>3, <2>2 DEF BodyIsAccountedFor, ChildIsTimely
    <2> QED BY <2>9, <2>10, <2>11, <2>12, <2>13 DEF PagesInv
<1> QED BY <1>4, <1>5 DEF PagesInv, PagesShape

\* A fetch that fails ends without a page.
LEMMA FetchFails ==
    ASSUME Pages!FetchAssumption, PagesInv, phase \notin Resting \cup {"permit", "child"},
           NEW outcome \in Outcomes \ {"fetched"}, Pages!Fails(outcome),
           outcome \in {"http_error", "refused_redirect"} => response.status # 2
    PROVE  PagesInv'
<1>1. Pages!Ends(outcome, FALSE) /\ slot' # "ours"
    BY DEF Pages!Fails, Pages!child, PagesInv, ChildIsTimely
<1> QED BY <1>1, FetchEnds

\* How many rows were tried is a number.
LEMMA TriedIsANumber ==
    ASSUME rows \in Seq(RowShape), NEW set, set \subseteq DOMAIN rows
    PROVE  Pages!Tried(set) \in Nat
<1> DEFINE tried == {k \in set : rows[k].outcome # "skipped"}
<1>1. IsFiniteSet(1 .. Len(rows)) /\ DOMAIN rows = 1 .. Len(rows)
    BY FS_Interval
<1>2. tried \subseteq 1 .. Len(rows)
    BY <1>1
<1>3. Pages!Tried(set) = Cardinality(tried)
    BY PagesCardinality DEF Pages!Tried
<1> HIDE DEF tried
<1> QED BY <1>1, <1>2, <1>3, FS_Subset, FS_CardinalityType

\* A step that adds no row and reads no robots.txt.
LEMMA NothingEnds ==
    ASSUME PagesInv, UNCHANGED <<sources, at, robots, rows>>,
           phase' \notin Resting => \/ phase \notin Resting
                                    \/ /\ at <= Len(Pages!Distinct)
                                       /\ Pages!Tried(DOMAIN rows) < MaxPages
                                       /\ TriedAt(Pages!Host) < MaxPagesPerHost,
           phase' = "done" => at > Len(Pages!Distinct),
           phase' \in Phases, askedFor' \in {"page", "robots"}, fired' \in BOOLEAN, now' \in 0 .. Budget,
           body' \in [chunks : Nat, more : BOOLEAN, ended : BOOLEAN],
           phase' \notin Resting \cup {"permit"} =>
               IF askedFor' = "page" THEN Pages!RobotsPermit(robots[Pages!Host]) = "allowed"
               ELSE robots[Pages!Host] = Pages!Unasked,
           BodyIsAccountedFor', ChildIsTimely'
    PROVE  PagesInv'
<1>1. Pages!Distinct' = Pages!Distinct /\ Pages!Host' = Pages!Host
    <2>1. Pages!Distinct' = Pages!Distinct
        BY DEF Pages!Distinct
    <2> QED BY <2>1 DEF Pages!Host, Pages!Url
<1>2. (\A h : TriedAt(h)' = TriedAt(h)) /\ Pages!Tried(DOMAIN rows)' = Pages!Tried(DOMAIN rows)
    BY DEF TriedAt, Pages!Tried
<1>3. PagesShape'
    BY <1>1 DEF PagesInv, PagesShape
<1>4. RowsAreInOrder' /\ FetchedAsAllowed' /\ WithinCaps'
    BY <1>1, <1>2 DEF PagesInv, RowsAreInOrder, FetchedAsAllowed, WithinCaps
<1>5. RobotsFirst'
    <2>1. Pages!RobotsPermit(robots[Pages!Host])' = Pages!RobotsPermit(robots[Pages!Host])
          /\ Pages!Unasked' = Pages!Unasked
        BY <1>1 DEF Pages!RobotsPermit, Pages!Unasked
    <2> QED BY <1>1, <2>1 DEF PagesInv, RobotsFirst
<1> QED BY <1>3, <1>4, <1>5 DEF PagesInv

\* What a fetch at work has read.
LEMMA BodySoFar ==
    ASSUME PagesInv
    PROVE  /\ fired \in BOOLEAN /\ body \in [chunks : Nat, more : BOOLEAN, ended : BOOLEAN]
           /\ body.more \/ body.ended \/ fired \/ body.chunks > Cap
    BY DEF PagesInv, PagesShape, BodyIsAccountedFor

\* A step of a fetch that goes on.
LEMMA FetchGoesOn ==
    ASSUME PagesInv, UNCHANGED <<sources, at, robots, rows, askedFor>>,
           phase \notin Resting \cup {"permit"}, phase' \in Phases \ (Resting \cup {"permit"}),
           fired' \in BOOLEAN, now' \in 0 .. Budget,
           body' \in [chunks : Nat, more : BOOLEAN, ended : BOOLEAN],
           BodyIsAccountedFor', ChildIsTimely'
    PROVE  PagesInv'
<1>1. IF askedFor' = "page" THEN Pages!RobotsPermit(robots[Pages!Host]) = "allowed"
      ELSE robots[Pages!Host] = Pages!Unasked
    BY DEF PagesInv, RobotsFirst
<1>2. askedFor' \in {"page", "robots"}
    BY DEF PagesInv, PagesShape
<1>3. /\ phase' \in Phases /\ phase \notin Resting /\ phase' # "done"
      /\ UNCHANGED <<sources, at, robots, rows>>
    BY DEF Resting
<1>4. phase' \notin Resting \cup {"permit"} =>
          IF askedFor' = "page" THEN Pages!RobotsPermit(robots[Pages!Host]) = "allowed"
          ELSE robots[Pages!Host] = Pages!Unasked
    BY <1>1
<1> QED BY ONLY PagesInv, fired' \in BOOLEAN, now' \in 0 .. Budget,
           body' \in [chunks : Nat, more : BOOLEAN, ended : BOOLEAN],
           BodyIsAccountedFor', ChildIsTimely', <1>2, <1>3, <1>4, NothingEnds

-----------------------------------------------------------------------------
(* One lemma for each step of fetch_cited_pages.                             *)

\* A skipped address is not counted as tried.
LEMMA SkipKeeps == ASSUME Pages!FetchAssumption, PagesInv, Pages!Skip PROVE PagesInv'
<1>1. /\ phase = "next" /\ at <= Len(Pages!Distinct) /\ at' = at + 1
      /\ rows' = Append(rows, Pages!Row("skipped", FALSE))
      /\ UNCHANGED <<sources, now, phase, askedFor, fired, waited, response, body, robots, slot, wall>>
    BY DEF Pages!Skip, Pages!connection, Pages!child
<1>2. /\ askedFor \in {"page", "robots"} /\ fired \in BOOLEAN /\ slot # "ours"
      /\ body \in [chunks : Nat, more : BOOLEAN, ended : BOOLEAN]
    BY <1>1 DEF PagesInv, PagesShape, ChildIsTimely
<1> DEFINE outcome == "skipped"
<1>3. rows' = Append(rows, Pages!Row(outcome, FALSE))
    BY <1>1
<1>4. outcome \in Outcomes \ {"fetched"} /\ outcome = "skipped"
    BY DEF Outcomes
<1> HIDE DEF outcome
<1> QED BY <1>1, <1>2, <1>3, <1>4, PageIsNotRead

\* An address is tried only while its row, and its host's, still has a place.
LEMMA TryKeeps == ASSUME Pages!FetchAssumption, PagesInv, Pages!Try PROVE PagesInv'
<1>1. /\ phase = "next" /\ at <= Len(Pages!Distinct) /\ ~Pages!OverCaps
      /\ UNCHANGED <<sources, now, fired, waited, response, body, robots, slot, wall>>
    BY DEF Pages!Try, Pages!connection, Pages!child
<1>2. /\ askedFor \in {"page", "robots"} /\ fired \in BOOLEAN /\ now \in 0 .. Budget /\ slot # "ours"
      /\ body \in [chunks : Nat, more : BOOLEAN, ended : BOOLEAN]
      /\ body.more \/ body.ended \/ fired \/ body.chunks > Cap
    BY <1>1 DEF PagesInv, PagesShape, BodyIsAccountedFor, ChildIsTimely
<1>3. Pages!Url \in Pages!Addresses /\ Pages!Host \in Sites
    BY <1>1, HostIsASite DEF PagesInv
<1>4. Pages!Tried(DOMAIN rows) < MaxPages /\ TriedAt(Pages!Host) < MaxPagesPerHost
    <2>1. Pages!Tried(DOMAIN rows) \in Nat /\ TriedAt(Pages!Host) \in Nat
        BY TriedIsANumber DEF PagesInv, PagesShape, TriedAt
    <2>2. ~(Pages!Tried(DOMAIN rows) >= MaxPages) /\ ~(TriedAt(Pages!Host) >= MaxPagesPerHost)
        BY <1>1 DEF Pages!OverCaps, TriedAt
    <2> QED BY <2>1, <2>2 DEF Pages!FetchAssumption
<1>5. CASE FormOf[Pages!Url] # "good"
    <2>1. /\ rows' = Append(rows, Pages!Row(FormOf[Pages!Url], FALSE)) /\ at' = at + 1
          /\ UNCHANGED <<phase, askedFor>>
        BY <1>5 DEF Pages!Try
    <2>2. FormOf[Pages!Url] \in Outcomes /\ FormOf[Pages!Url] # "fetched"
        BY <1>3 DEF Pages!FetchAssumption, Pages!Addresses, Outcomes
    <2> QED BY <1>1, <1>2, <1>4, <2>1, <2>2, PageIsNotRead
<1>6. CASE FormOf[Pages!Url] = "good"
    <2>1. /\ phase' = IF robots[Pages!Host] = Pages!Unasked THEN "start" ELSE "permit"
          /\ askedFor' = IF robots[Pages!Host] = Pages!Unasked THEN "robots" ELSE "page"
          /\ UNCHANGED <<rows, at>>
        BY <1>6 DEF Pages!Try
    <2>2. /\ phase' \in Phases /\ askedFor' \in {"page", "robots"} /\ phase' \notin {"pdf", "child"}
          /\ phase' \notin Resting \cup {"permit"} =>
                 askedFor' = "robots" /\ robots[Pages!Host] = Pages!Unasked
        BY <2>1 DEF Phases, Resting
    <2>3. BodyIsAccountedFor' /\ ChildIsTimely'
        BY <1>1, <1>2, <2>2 DEF BodyIsAccountedFor, ChildIsTimely
    <2> QED BY <1>1, <1>2, <1>4, <2>1, <2>2, <2>3, NothingEnds
<1> QED BY <1>5, <1>6

\* A page is fetched only if its site's robots.txt allows it.
LEMMA PermitKeeps == ASSUME Pages!FetchAssumption, PagesInv, Pages!Permit PROVE PagesInv'
<1> DEFINE verdict == Pages!RobotsPermit(robots[Pages!Host])
<1>1. /\ phase = "permit" /\ askedFor' = "page"
      /\ UNCHANGED <<sources, now, fired, waited, response, body, robots, slot, wall>>
    BY DEF Pages!Permit, Pages!connection, Pages!child
<1>2. /\ fired \in BOOLEAN /\ now \in 0 .. Budget /\ slot # "ours" /\ at <= Len(Pages!Distinct)
      /\ body \in [chunks : Nat, more : BOOLEAN, ended : BOOLEAN]
      /\ body.more \/ body.ended \/ fired \/ body.chunks > Cap
      /\ Pages!Tried(DOMAIN rows) < MaxPages /\ TriedAt(Pages!Host) < MaxPagesPerHost
    BY <1>1 DEF PagesInv, PagesShape, BodyIsAccountedFor, ChildIsTimely, WithinCaps, Resting
<1>3. CASE verdict = "allowed"
    <2>1. phase' = "start" /\ UNCHANGED <<rows, at>>
        BY <1>3 DEF Pages!Permit
    <2>2. BodyIsAccountedFor' /\ ChildIsTimely'
        BY <1>1, <1>2, <2>1 DEF BodyIsAccountedFor, ChildIsTimely
    <2>3. phase' \in Phases
        BY <2>1 DEF Phases
    <2>4. phase \notin Resting
        BY <1>1 DEF Resting
    <2> QED BY <1>1, <1>2, <1>3, <2>1, <2>2, <2>3, <2>4, NothingEnds
<1>4. CASE verdict # "allowed"
    <2>1. /\ rows' = Append(rows, Pages!Row(IF verdict = "refused" THEN "refused_robots"
                                             ELSE "robots_unchecked", FALSE))
          /\ at' = at + 1 /\ phase' = "next"
        BY <1>4, Zenon DEF Pages!Permit
    <2> DEFINE outcome == IF verdict = "refused" THEN "refused_robots" ELSE "robots_unchecked"
    <2>2. rows' = Append(rows, Pages!Row(outcome, FALSE))
        BY <2>1, Zenon
    <2>3. outcome \in Outcomes \ {"fetched"}
        BY DEF Outcomes
    <2> HIDE DEF outcome, verdict
    <2> QED BY <1>1, <1>2, <2>1, <2>2, <2>3, PageIsNotRead
<1> QED BY <1>3, <1>4

\* The end leaves the rows as they are.
LEMMA FinishKeeps == ASSUME PagesInv, Pages!Finish PROVE PagesInv'
<1>1. /\ phase = "next" /\ phase' = "done" /\ at > Len(Pages!Distinct)
      /\ UNCHANGED <<sources, now, at, askedFor, fired, waited, response, body, robots, rows, slot, wall>>
    BY DEF Pages!Finish, Pages!connection, Pages!child
<1>2. BodyIsAccountedFor' /\ ChildIsTimely'
    BY <1>1 DEF PagesInv, BodyIsAccountedFor, ChildIsTimely
<1>3. phase' \in Resting /\ phase' \in Phases
    BY <1>1 DEF Phases, Resting
<1>4. phase' \notin Resting \cup {"permit"} =>
          IF askedFor' = "page" THEN Pages!RobotsPermit(robots[Pages!Host]) = "allowed"
          ELSE robots[Pages!Host] = Pages!Unasked
    BY <1>3
<1>5. askedFor \in {"page", "robots"} /\ now \in 0 .. Budget
    BY DEF PagesInv, PagesShape
<1> QED BY <1>1, <1>2, <1>3, <1>4, <1>5, BodySoFar, NothingEnds

-----------------------------------------------------------------------------
(* One for each step of _fetch_one.                                          *)

\* At what a fetch may be.
AtWork == {"start", "resolve", "request", "head", "answered", "body", "pdf"}

\* A fetch at work has an address, and no child.
LEMMA AtWorkIsAtWork ==
    ASSUME phase \in AtWork
    PROVE  /\ phase \notin Resting \cup {"permit", "child"} /\ phase \in Phases
           /\ PagesInv => slot # "ours" /\ at <= Len(Pages!Distinct)
    BY DEF AtWork, Resting, Phases, PagesInv, PagesShape, ChildIsTimely

\* The ways a fetch can fail without an answer.
LEMMA FailsUnanswered ==
    ASSUME Pages!FetchAssumption, PagesInv, phase \in AtWork,
           \/ Pages!Fails("timeout") \/ Pages!Fails("network_error") \/ Pages!Fails("skipped_cap")
           \/ Pages!Fails("refused_address") \/ Pages!Fails("refused_content_type")
           \/ Pages!Fails("too_large") \/ Pages!Fails("unusable")
    PROVE  PagesInv'
<1>1. PICK outcome \in Outcomes \ {"fetched", "http_error", "refused_redirect"} : Pages!Fails(outcome)
    BY Zenon DEF Outcomes
<1> QED BY <1>1, AtWorkIsAtWork, FetchFails

\* A step of a fetch before its page is there.
LEMMA FetchMoves ==
    ASSUME PagesInv, phase \in AtWork, phase' \in AtWork, phase' = "pdf" => body'.ended,
           UNCHANGED <<sources, now, at, robots, rows, askedFor, slot>>, fired' \in BOOLEAN,
           body' \in [chunks : Nat, more : BOOLEAN, ended : BOOLEAN],
           body'.more \/ body'.ended \/ fired' \/ body'.chunks > Cap
    PROVE  PagesInv'
<1>1. phase \notin Resting \cup {"permit"} /\ phase' \in Phases \ (Resting \cup {"permit"})
    BY DEF AtWork, Resting, Phases
<1>2. BodyIsAccountedFor' /\ ChildIsTimely'
    BY AtWorkIsAtWork DEF BodyIsAccountedFor, ChildIsTimely, AtWork
<1>3. now' \in 0 .. Budget /\ UNCHANGED <<sources, at, robots, rows, askedFor>>
    BY DEF PagesInv, PagesShape
<1> QED BY <1>1, <1>2, <1>3, FetchGoesOn

\* _fetch_one: a fetch that starts late ends at once.
LEMMA StartKeeps == ASSUME Pages!FetchAssumption, PagesInv, Pages!Start PROVE PagesInv'
<1>1. phase \in AtWork
    BY DEF Pages!Start, AtWork
<1>2. CASE Pages!Fails("skipped_cap")
    BY <1>1, <1>2, FailsUnanswered
<1>3. CASE ~Pages!Fails("skipped_cap")
    <2>1. /\ phase' = "resolve"
          /\ UNCHANGED <<sources, now, at, askedFor, fired, waited, response, body, robots, rows, slot, wall>>
        BY <1>3 DEF Pages!Start, Pages!connection, Pages!child
    <2>2. phase' \in AtWork
        BY <2>1 DEF AtWork
    <2> QED BY <1>1, <2>1, <2>2, BodySoFar, FetchMoves
<1> QED BY <1>2, <1>3

\* The name is resolved, refused or given up.
LEMMA ResolveKeeps == ASSUME Pages!FetchAssumption, PagesInv, Pages!Resolve PROVE PagesInv'
<1>1. phase \in AtWork
    BY DEF Pages!Resolve, AtWork
<1>2. CASE Pages!Fails("timeout") \/ Pages!Fails("refused_address")
    BY <1>1, <1>2, FailsUnanswered
<1>3. CASE ~(Pages!Fails("timeout") \/ Pages!Fails("refused_address"))
    <2>1. /\ phase' = "request"
          /\ UNCHANGED <<sources, now, at, askedFor, fired, waited, response, body, robots, rows, slot, wall>>
        BY <1>3 DEF Pages!Resolve, Pages!connection, Pages!child
    <2>2. phase' \in AtWork
        BY <2>1 DEF AtWork
    <2> QED BY <1>1, <2>1, <2>2, BodySoFar, FetchMoves
<1> QED BY <1>2, <1>3

\* The watchdog accounts for a body that is cut by it.
LEMMA WatchdogKeeps == ASSUME Pages!FetchAssumption, PagesInv, Pages!WatchdogFires PROVE PagesInv'
<1>1. phase \in AtWork /\ phase # "pdf"
    BY DEF Pages!WatchdogFires, Pages!WatchdogDue, Pages!Waiting, AtWork
<1>2. /\ fired' = TRUE
      /\ UNCHANGED <<sources, now, at, phase, askedFor, waited, response, body, robots, rows, slot, wall>>
    BY DEF Pages!WatchdogFires, Pages!child
<1> QED BY <1>1, <1>2, BodySoFar, FetchMoves

\* A socket that breaks or stays silent ends the fetch without a page.
LEMMA SocketKeeps ==
    ASSUME Pages!FetchAssumption, PagesInv, Pages!SocketTimesOut \/ Pages!SocketBreaks
    PROVE  PagesInv'
<1>1. phase \in AtWork
    BY DEF Pages!SocketTimesOut, Pages!SocketBreaks, Pages!Waiting, AtWork
<1>2. Pages!Fails("timeout") \/ Pages!Fails("network_error")
    <2>1. CASE Pages!SocketTimesOut
        BY <2>1 DEF Pages!SocketTimesOut
    <2>2. CASE Pages!SocketBreaks /\ (fired \/ Pages!Late)
        BY <2>2, Zenon DEF Pages!SocketBreaks
    <2>3. CASE Pages!SocketBreaks /\ ~(fired \/ Pages!Late)
        BY <2>3, Zenon DEF Pages!SocketBreaks
    <2> QED BY <2>1, <2>2, <2>3
<1> QED BY <1>1, <1>2, FailsUnanswered

\* A connection that was shut while it was made ends the fetch.
LEMMA ConnectedKeeps == ASSUME Pages!FetchAssumption, PagesInv, Pages!Connected PROVE PagesInv'
<1>1. phase \in AtWork
    BY DEF Pages!Connected, AtWork
<1>2. CASE Pages!Fails("timeout")
    BY <1>1, <1>2, FailsUnanswered
<1>3. CASE ~Pages!Fails("timeout")
    <2>1. /\ phase' = "head"
          /\ UNCHANGED <<sources, now, at, askedFor, fired, response, body, robots, rows, slot, wall>>
        BY <1>3 DEF Pages!Connected, Pages!child
    <2>2. phase' \in AtWork
        BY <2>1 DEF AtWork
    <2> QED BY <1>1, <2>1, <2>2, BodySoFar, FetchMoves
<1> QED BY <1>2, <1>3

\* A head arrives, or a line of it.
LEMMA HeadKeeps ==
    ASSUME Pages!FetchAssumption, PagesInv, (\E h \in Pages!Heads : Pages!HeadArrives(h)) \/ Pages!HeadDrips
    PROVE  PagesInv'
<1>1. phase \in AtWork /\ phase = "head"
    BY DEF Pages!HeadArrives, Pages!HeadDrips, AtWork
<1>2. CASE Pages!Fails("timeout")
    BY <1>1, <1>2, FailsUnanswered
<1>3. CASE ~Pages!Fails("timeout")
    <2>1. /\ phase' \in {"head", "answered"}
          /\ UNCHANGED <<sources, now, at, askedFor, fired, body, robots, rows, slot, wall>>
        BY <1>1, <1>3 DEF Pages!HeadArrives, Pages!HeadDrips, Pages!child
    <2>2. phase' \in AtWork /\ phase' # "pdf"
        BY <2>1 DEF AtWork
    <2> QED BY <1>1, <2>1, <2>2, BodySoFar, FetchMoves
<1> QED BY <1>2, <1>3

\* Only a good answer is read; a refusal of robots.txt keeps its status.
LEMMA JudgedKeeps == ASSUME Pages!FetchAssumption, PagesInv, Pages!Judged PROVE PagesInv'
<1>1. phase \in AtWork
    BY DEF Pages!Judged, AtWork
<1>2. CASE response.status # 2
    <2>1. Pages!Fails("refused_redirect") \/ Pages!Fails("http_error")
        BY <1>2 DEF Pages!Judged
    <2>2. PICK outcome \in Outcomes \ {"fetched"} : Pages!Fails(outcome)
        BY <2>1, Zenon DEF Outcomes
    <2> QED BY <1>1, <1>2, <2>2, AtWorkIsAtWork, FetchFails
<1>3. CASE Pages!Fails("refused_content_type") \/ Pages!Fails("too_large")
    BY <1>1, <1>3, FailsUnanswered
<1>4. CASE response.status = 2 /\ ~(Pages!Fails("refused_content_type") \/ Pages!Fails("too_large"))
    <2>1. /\ phase' = "body"
          /\ UNCHANGED <<sources, now, at, askedFor, fired, waited, response, body, robots, rows, slot, wall>>
        BY <1>4 DEF Pages!Judged, Pages!connection, Pages!child
    <2>2. phase' \in AtWork
        BY <2>1 DEF AtWork
    <2> QED BY <1>1, <2>1, <2>2, BodySoFar, FetchMoves
<1> QED BY <1>2, <1>3, <1>4

\* A body that is late is given up.
LEMMA BodyIsLateKeeps == ASSUME Pages!FetchAssumption, PagesInv, Pages!BodyIsLate PROVE PagesInv'
<1>1. phase \in AtWork /\ Pages!Fails("timeout")
    BY DEF Pages!BodyIsLate, AtWork
<1> QED BY <1>1, FailsUnanswered

\* A chunk beyond the cap ends the reading, and marks the page as cut.
LEMMA ChunkKeeps ==
    ASSUME Pages!FetchAssumption, PagesInv, NEW magic, Pages!ChunkArrives(magic)
    PROVE  PagesInv'
<1>1. phase \in AtWork /\ phase # "pdf" /\ body.more
    BY DEF Pages!ChunkArrives, AtWork
<1>2. CASE Pages!Fails("refused_content_type")
    BY <1>1, <1>2, FailsUnanswered
<1>3. CASE ~Pages!Fails("refused_content_type")
    <2>1. /\ body' = [body EXCEPT !.chunks = @ + 1, !.more = @ /\ body.chunks < Cap]
          /\ UNCHANGED <<sources, now, at, phase, askedFor, fired, response, robots, rows, slot, wall>>
        BY <1>3 DEF Pages!ChunkArrives, Pages!child
    <2> DEFINE n == body.chunks + 1
               m == body.chunks < Cap
    <2>2. n \in Nat /\ m \in BOOLEAN /\ (m \/ n > Cap)
        BY BodySoFar DEF Pages!FetchAssumption
    <2>3. body' = [body EXCEPT !.chunks = n, !.more = m]
        BY <1>1, <2>1, BodySoFar
    <2> HIDE DEF n, m
    <2>4. /\ body' \in [chunks : Nat, more : BOOLEAN, ended : BOOLEAN]
          /\ body'.chunks = n /\ body'.more = m
        BY <2>2, <2>3, BodySoFar
    <2>5. body'.more \/ body'.chunks > Cap
        BY <2>2, <2>4
    <2> QED BY <1>1, <2>1, <2>4, <2>5, BodySoFar, FetchMoves
<1> QED BY <1>2, <1>3

\* An empty read is the site's only if the watchdog has not fired.
LEMMA BodyEndsKeeps == ASSUME Pages!FetchAssumption, PagesInv, Pages!BodyEnds PROVE PagesInv'
<1>1. phase \in AtWork /\ phase # "pdf"
    BY DEF Pages!BodyEnds, AtWork
<1>2. /\ body' = [body EXCEPT !.more = FALSE, !.ended = ~fired]
      /\ UNCHANGED <<sources, now, at, phase, askedFor, fired, waited, response, robots, rows, slot, wall>>
    BY DEF Pages!BodyEnds, Pages!child
<1>3. body' \in [chunks : Nat, more : BOOLEAN, ended : BOOLEAN] /\ body'.ended = ~fired
    BY <1>2, BodySoFar
<1> QED BY <1>1, <1>2, <1>3, BodySoFar, FetchMoves

\* What was read is a page only if its site ended it or it is marked as cut.
LEMMA BodyReadKeeps == ASSUME Pages!FetchAssumption, PagesInv, Pages!BodyRead PROVE PagesInv'
<1>1. phase \in AtWork /\ phase = "body" /\ ~body.more
    BY DEF Pages!BodyRead, AtWork
<1>2. CASE \/ Pages!Fails("timeout") \/ Pages!Fails("refused_content_type")
           \/ Pages!Fails("too_large") \/ Pages!Fails("unusable")
    BY <1>1, <1>2, FailsUnanswered
<1> DEFINE failed == \/ Pages!Fails("timeout") \/ Pages!Fails("refused_content_type")
                     \/ Pages!Fails("too_large") \/ Pages!Fails("unusable")
<1>3. ASSUME ~failed
      PROVE  /\ ~fired
             /\ \/ /\ ~Pages!Truncated /\ phase' = "pdf"
                   /\ UNCHANGED <<sources, now, at, askedFor, fired, waited, response, body, robots,
                                  rows, slot, wall>>
                \/ \E outcome \in {"fetched", "unusable"} :
                       Pages!Ends(outcome, Pages!Truncated) /\ UNCHANGED slot
    <2>1. ~fired
        BY <1>3 DEF Pages!BodyRead
    <2>2. CASE Pages!IsPdf(response)
        BY <1>3, <2>1, <2>2 DEF Pages!BodyRead, Pages!connection, Pages!child
    <2>3. CASE ~Pages!IsPdf(response)
        <3>1. \E outcome \in IF askedFor = "robots" THEN {"fetched"} ELSE {"fetched", "unusable"} :
                  Pages!Ends(outcome, Pages!Truncated) /\ UNCHANGED Pages!child
            BY <1>3, <2>1, <2>3 DEF Pages!BodyRead
        <3>2. UNCHANGED Pages!child => UNCHANGED slot
            BY DEF Pages!child
        <3> QED BY <2>1, <3>1, <3>2
    <2> QED BY <2>2, <2>3
<1>4. Pages!Truncated \in BOOLEAN /\ (Pages!Truncated <=> body.chunks > Cap)
    BY BodySoFar DEF Pages!Truncated, Pages!FetchAssumption
<1>5. CASE /\ ~failed /\ phase' = "pdf" /\ ~Pages!Truncated
           /\ UNCHANGED <<sources, now, at, askedFor, fired, waited, response, body, robots, rows,
                          slot, wall>>
    <2>1. body.ended /\ phase' \in AtWork
        BY <1>1, <1>3, <1>4, <1>5, BodySoFar DEF AtWork
    <2> QED BY <1>1, <1>5, <2>1, BodySoFar, FetchMoves
<1>6. CASE /\ ~failed
           /\ \E outcome \in {"fetched", "unusable"} :
                  Pages!Ends(outcome, Pages!Truncated) /\ UNCHANGED slot
    <2>1. PICK outcome \in {"fetched", "unusable"} :
              Pages!Ends(outcome, Pages!Truncated) /\ UNCHANGED slot
        BY <1>6
    <2>2. outcome \in Outcomes /\ outcome \notin {"http_error", "refused_redirect"}
        BY DEF Outcomes
    <2>3. body.ended \/ Pages!Truncated
        BY <1>1, <1>3, <1>4, <1>6, BodySoFar
    <2>4. slot' # "ours" /\ phase \notin Resting \cup {"permit"}
        BY <1>1, <2>1, AtWorkIsAtWork
    <2> DEFINE truncated == Pages!Truncated
    <2>5. Pages!Ends(outcome, truncated) /\ truncated \in BOOLEAN /\ (body.ended \/ truncated)
        BY <1>4, <2>1, <2>3
    <2> HIDE DEF truncated
    <2> QED BY <2>2, <2>4, <2>5, FetchEnds
<1> QED BY <1>2, <1>3, <1>5, <1>6

\* The child takes the slot, and its wall is not beyond the deadline.
LEMMA StartChildKeeps == ASSUME Pages!FetchAssumption, PagesInv, Pages!StartChild PROVE PagesInv'
<1>1. phase \in AtWork /\ phase = "pdf"
    BY DEF Pages!StartChild, AtWork
<1>2. CASE Pages!Fails("timeout") \/ Pages!Fails("unusable")
    BY <1>1, <1>2, FailsUnanswered
<1>3. CASE ~(Pages!Fails("timeout") \/ Pages!Fails("unusable"))
    <2>1. /\ slot' = "ours" /\ wall' = IF now + PdfWall < Budget THEN now + PdfWall ELSE Budget
          /\ phase' = "child"
          /\ UNCHANGED <<sources, now, at, askedFor, fired, waited, response, body, robots, rows>>
        BY <1>3 DEF Pages!StartChild, Pages!connection
    <2>2. wall' \in Nat /\ wall' <= Budget
        BY <2>1 DEF PagesInv, PagesShape, Pages!FetchAssumption
    <2>3. body.ended /\ now \in 0 .. Budget
        BY <1>1 DEF PagesInv, BodyIsAccountedFor, PagesShape
    <2>4. BodyIsAccountedFor' /\ ChildIsTimely'
        BY <2>1, <2>2, <2>3, BodySoFar DEF BodyIsAccountedFor, ChildIsTimely
    <2>5. phase \notin Resting \cup {"permit"} /\ phase' \in Phases \ (Resting \cup {"permit"})
        BY <1>1, <2>1 DEF Resting, Phases
    <2>6. UNCHANGED <<sources, at, robots, rows, askedFor>>
        BY <2>1
    <2> QED BY <2>1, <2>3, <2>4, <2>5, <2>6, BodySoFar, FetchGoesOn
<1> QED BY <1>2, <1>3

\* The child's end gives the slot back.
LEMMA ChildEndsKeeps ==
    ASSUME Pages!FetchAssumption, PagesInv, NEW outcome \in {"fetched", "unusable", "timeout"},
           Pages!ChildEnds(outcome)
    PROVE  PagesInv'
<1>1. phase = "child" /\ slot' = "free" /\ Pages!Ends(outcome, FALSE)
    BY DEF Pages!ChildEnds
<1>2. body.ended /\ phase \notin Resting \cup {"permit"}
    BY <1>1 DEF PagesInv, BodyIsAccountedFor, Resting
<1>3. outcome \in Outcomes /\ outcome \notin {"http_error", "refused_redirect"}
    BY DEF Outcomes
<1> DEFINE truncated == FALSE
<1>4. Pages!Ends(outcome, truncated) /\ truncated \in BOOLEAN
    BY <1>1
<1> HIDE DEF truncated
<1>5. slot' # "ours"
    BY <1>1
<1> QED BY <1>2, <1>3, <1>4, <1>5, FetchEnds

\* Another evaluation's child touches no row.
LEMMA OthersChildKeeps == ASSUME PagesInv, Pages!OthersChild PROVE PagesInv'
<1>1. /\ phase \notin {"child", "done"} /\ slot' \in {"other", "free", slot}
      /\ UNCHANGED <<sources, now, at, phase, askedFor, fired, waited, response, body, robots, rows, wall>>
    BY DEF Pages!OthersChild, Pages!connection
<1>2. BodyIsAccountedFor' /\ ChildIsTimely'
    BY <1>1 DEF PagesInv, BodyIsAccountedFor, ChildIsTimely
<1>3. phase' \in Phases /\ askedFor' \in {"page", "robots"} /\ now' \in 0 .. Budget
    BY <1>1 DEF PagesInv, PagesShape
<1>4. phase' \notin Resting \cup {"permit"} =>
          IF askedFor' = "page" THEN Pages!RobotsPermit(robots[Pages!Host]) = "allowed"
          ELSE robots[Pages!Host] = Pages!Unasked
    BY <1>1 DEF PagesInv, RobotsFirst
<1> QED BY <1>1, <1>2, <1>3, <1>4, BodySoFar, NothingEnds

\* Time passes only up to the deadline, and up to the child's wall.
LEMMA TickKeeps == ASSUME Pages!FetchAssumption, PagesInv, Pages!Tick PROVE PagesInv'
<1>1. /\ now' = now + 1 /\ now <= Budget
      /\ phase \in {"request", "head", "body", "resolve", "child"} /\ ~Pages!TimerDue
      /\ UNCHANGED <<sources, at, phase, askedFor, fired, response, body, robots, rows, slot, wall>>
    BY DEF Pages!Tick, Pages!Waiting, Pages!child
<1>2. now < Budget
    <2>1. now \in 0 .. Budget /\ Budget \in Nat
        BY DEF PagesInv, PagesShape, Pages!FetchAssumption
    <2>2. CASE phase = "child"
        BY <1>1, <2>1, <2>2 DEF Pages!TimerDue, PagesInv, ChildIsTimely
    <2>3. CASE phase # "child"
        <3>1. ~Pages!Late
            BY <1>1, <2>3 DEF Pages!TimerDue, Pages!WatchdogDue, Pages!Waiting
        <3> QED BY <2>1, <3>1 DEF Pages!Late
    <2> QED BY <2>2, <2>3
<1>3. now' \in 0 .. Budget
    BY <1>1, <1>2 DEF PagesInv, PagesShape, Pages!FetchAssumption
<1>4. BodyIsAccountedFor' /\ ChildIsTimely'
    BY <1>1 DEF PagesInv, BodyIsAccountedFor, ChildIsTimely
<1>5. phase \notin Resting \cup {"permit"} /\ phase' \in Phases \ (Resting \cup {"permit"})
    BY <1>1 DEF Resting, Phases
<1>6. UNCHANGED <<sources, at, robots, rows, askedFor>>
    BY <1>1
<1> QED BY <1>1, <1>3, <1>4, <1>5, <1>6, BodySoFar, FetchGoesOn

-----------------------------------------------------------------------------
(* The theorems.                                                             *)

\* The invariant holds when no address has been tried.
LEMMA PagesStart == ASSUME Pages!FetchAssumption, Pages!FetchInit PROVE PagesInv
<1>1. /\ sources \in Citations /\ now = 0 /\ at = 1 /\ phase = "next" /\ askedFor = "page"
      /\ fired = FALSE /\ body = Pages!NoBody /\ rows = <<>> /\ slot = "free"
      /\ robots = [h \in Sites |-> Pages!Unasked]
    BY DEF Pages!FetchInit, Sites
<1>2. /\ Len(sources) \in Nat /\ DOMAIN sources = 1 .. Len(sources)
      /\ \A i \in 1 .. Len(sources) : sources[i].address \in Pages!Addresses
    BY <1>1 DEF Pages!FetchAssumption, Pages!Addresses
<1>3. Len(Pages!Distinct) \in Nat
    BY <1>2, DistinctIsDistinct
<1>4. PagesShape
    <2>1. body \in [chunks : Nat, more : BOOLEAN, ended : BOOLEAN]
        BY <1>1 DEF Pages!NoBody
    <2>2. rows \in Seq(RowShape) /\ Len(rows) = 0 /\ DOMAIN robots = Sites
        BY <1>1
    <2>3. now \in 0 .. Budget /\ at \in 1 .. Len(Pages!Distinct) + 1 /\ Len(rows) = at - 1
        BY <1>1, <1>3, <2>2 DEF Pages!FetchAssumption
    <2>4. phase \in Phases /\ phase \in Resting /\ phase # "done" /\ askedFor \in {"page", "robots"} /\ fired \in BOOLEAN
        BY <1>1 DEF Phases, Resting
    <2> QED BY <1>2, <2>1, <2>2, <2>3, <2>4 DEF PagesShape
<1>5. DOMAIN rows = {} /\ Len(rows) = 0
    BY <1>1
<1>6. Pages!Tried(DOMAIN rows) = 0 /\ \A h \in Sites : TriedAt(h) = 0
    <2>1. ASSUME NEW S, S = {} PROVE Pages!Tried(S) = 0
        <3>1. {k \in S : rows[k].outcome # "skipped"} = {}
            BY <2>1
        <3> QED BY <3>1, FS_EmptySet, PagesCardinality DEF Pages!Tried
    <2>2. ASSUME NEW h PROVE {k \in DOMAIN rows : HostOf[rows[k].address] = h} = {}
        BY <1>5
    <2> QED BY <1>5, <2>1, <2>2 DEF TriedAt
<1>7. RowsAreInOrder /\ FetchedAsAllowed
    BY <1>5 DEF RowsAreInOrder, FetchedAsAllowed
<1>8. WithinCaps
    BY <1>1, <1>6 DEF WithinCaps, Resting, Pages!FetchAssumption
<1>9. RobotsFirst
    BY <1>1 DEF RobotsFirst, Pages!Unasked, Resting
<1>10. BodyIsAccountedFor /\ ChildIsTimely
    BY <1>1 DEF BodyIsAccountedFor, ChildIsTimely, Pages!NoBody
<1> QED BY <1>4, <1>7, <1>8, <1>9, <1>10 DEF PagesInv

\* Every step keeps it.
LEMMA PagesStep ==
    ASSUME Pages!FetchAssumption, PagesInv, [Pages!FetchNext]_Pages!fetchVars
    PROVE  PagesInv'
<1>1. CASE Pages!Skip \/ Pages!Try \/ Pages!Permit \/ Pages!Finish
    BY <1>1, SkipKeeps, TryKeeps, PermitKeeps, FinishKeeps
<1>2. CASE Pages!Start \/ Pages!Resolve \/ Pages!WatchdogFires \/ Pages!SocketTimesOut \/ Pages!SocketBreaks
    BY <1>2, StartKeeps, ResolveKeeps, WatchdogKeeps, SocketKeeps
<1>3. CASE Pages!Connected \/ Pages!HeadDrips \/ Pages!Judged
    BY <1>3, ConnectedKeeps, HeadKeeps, JudgedKeeps
<1>4. CASE Pages!BodyIsLate \/ Pages!BodyEnds \/ Pages!BodyRead
    BY <1>4, BodyIsLateKeeps, BodyEndsKeeps, BodyReadKeeps
<1>5. ASSUME NEW h \in {h \in Pages!Heads : Pages!OneOdd(h)}, Pages!HeadArrives(h) PROVE PagesInv'
    BY <1>5, HeadKeeps
<1>6. ASSUME NEW magic \in BOOLEAN, Pages!ChunkArrives(magic) PROVE PagesInv'
    BY <1>6, ChunkKeeps
<1>7. CASE Pages!StartChild \/ Pages!OthersChild \/ Pages!Tick
    BY <1>7, StartChildKeeps, OthersChildKeeps, TickKeeps
<1>8. ASSUME NEW outcome \in {"fetched", "unusable", "timeout"}, Pages!ChildEnds(outcome) PROVE PagesInv'
    BY <1>8, ChildEndsKeeps
<1>9. CASE UNCHANGED Pages!fetchVars
    <2>1. UNCHANGED <<sources, now, at, phase, askedFor, fired, waited, response, body, robots, rows, slot, wall>>
        BY <1>9 DEF Pages!fetchVars
    <2>2. BodyIsAccountedFor' /\ ChildIsTimely'
        BY <2>1 DEF PagesInv, BodyIsAccountedFor, ChildIsTimely
    <2>3. phase' \in Phases /\ askedFor' \in {"page", "robots"} /\ now' \in 0 .. Budget
        BY <2>1 DEF PagesInv, PagesShape
    <2>4. phase' \notin Resting \cup {"permit"} =>
              IF askedFor' = "page" THEN Pages!RobotsPermit(robots[Pages!Host]) = "allowed"
              ELSE robots[Pages!Host] = Pages!Unasked
        BY <2>1 DEF PagesInv, RobotsFirst
    <2>5. phase' = "done" => at > Len(Pages!Distinct)
        BY <2>1 DEF PagesInv, PagesShape
    <2> QED BY <2>1, <2>2, <2>3, <2>4, <2>5, BodySoFar, NothingEnds
<1> QED BY <1>1, <1>2, <1>3, <1>4, <1>5, <1>6, <1>7, <1>8, <1>9 DEF Pages!FetchNext

\* The inductive invariant of fetch_cited_pages: one row for each address behind, in their
\* order; what a row says agrees with its site's robots.txt, which is read once; while an
\* address is tried, the caps have room for it; and a body that ends is accounted for.
THEOREM PagesInvariant == ASSUME Pages!FetchAssumption PROVE Pages!FetchSpec => []PagesInv
<1>1. Pages!FetchInit => PagesInv
    BY PagesStart
<1>2. PagesInv /\ [Pages!FetchNext]_Pages!fetchVars => PagesInv'
    BY PagesStep
<1> QED BY <1>1, <1>2, PTL DEF Pages!FetchSpec

-----------------------------------------------------------------------------
(* What the judge is listed, once all addresses are behind.                  *)

\* Of a set of numbers one is the least.
LEMMA OneIsLeast ==
    ASSUME NEW S, S \subseteq Int, IsFiniteSet(S), S # {}
    PROVE  \E i \in S : \A j \in S : i <= j
<1>1. Cardinality(S) \in Nat /\ Cardinality(S) # 0
    BY FS_CardinalityType, FS_EmptySet
<1>2. PICK i \in S : Cardinality({j \in S : j < i}) = 0
    <2>1. 1 \in 1 .. Cardinality(S)
        BY <1>1
    <2>2. \E i \in S : Cardinality({j \in S : j < i}) = 1 - 1
        BY <2>1, EveryPlaceIsTaken
    <2> QED BY <2>2
<1> DEFINE below == {j \in S : j < i}
<1>3. below = {}
    <2>1. below \subseteq S
        OBVIOUS
    <2>2. Cardinality(below) = 0
        BY <1>2
    <2> HIDE DEF below
    <2> QED BY <2>1, <2>2, FS_Subset, FS_EmptySet
<1>4. \A j \in S : ~(j < i)
    BY <1>3
<1>5. \A j \in S : j \in Int
    OBVIOUS
<1> QED BY <1>4, <1>5

\* A line whose address no earlier line cites.
First(f) == f \in 1 .. Len(sources) /\ \A j \in 1 .. (f - 1) : sources[j].address # sources[f].address

\* Of the lines that cite an address one is the first.
LEMMA OneLineIsFirst ==
    ASSUME Len(sources) \in Nat, NEW i \in 1 .. Len(sources)
    PROVE  /\ \E f \in 1 .. i : First(f) /\ sources[f].address = sources[i].address
           /\ \A f, g : First(f) /\ First(g) /\ sources[f].address = sources[g].address => f = g
<1> DEFINE lines == {j \in 1 .. Len(sources) : sources[j].address = sources[i].address}
<1>1. IsFiniteSet(lines) /\ lines \subseteq 1 .. Len(sources) /\ i \in lines
    <2>1. lines \subseteq 1 .. Len(sources) /\ IsFiniteSet(1 .. Len(sources)) /\ i \in lines
        BY FS_Interval
    <2> HIDE DEF lines
    <2> QED BY <2>1, FS_Subset
<1>2. PICK f \in lines : \A j \in lines : f <= j
    <2>1. lines \subseteq Int /\ lines # {}
        BY <1>1
    <2> HIDE DEF lines
    <2> QED BY <1>1, <2>1, OneIsLeast
<1>3. f \in 1 .. i /\ First(f) /\ sources[f].address = sources[i].address
    <2>1. f \in 1 .. Len(sources) /\ f <= i /\ sources[f].address = sources[i].address
        BY <1>1, <1>2
    <2>2. ASSUME NEW j \in 1 .. (f - 1) PROVE sources[j].address # sources[f].address
        <3>1. j \in 1 .. Len(sources) /\ ~(f <= j)
            BY <2>1
        <3> QED BY <1>2, <2>1, <3>1
    <2> QED BY <2>1, <2>2 DEF First
<1>4. ASSUME NEW g, NEW h, First(g), First(h), sources[g].address = sources[h].address PROVE g = h
    BY <1>4 DEF First
<1> QED BY <1>3, <1>4

\* Every line's address is among the distinct ones, and each of those is a first line's.
LEMMA DistinctIsWhole ==
    ASSUME Len(sources) \in Nat, DOMAIN sources = 1 .. Len(sources),
           \A i \in 1 .. Len(sources) : sources[i].address \in Pages!Addresses
    PROVE  /\ \A k \in 1 .. Len(Pages!Distinct) : \E f : First(f) /\ Pages!Distinct[k] = sources[f].address
           /\ \A f : First(f) => \E k \in 1 .. Len(Pages!Distinct) : Pages!Distinct[k] = sources[f].address
<1> DEFINE first == {i \in DOMAIN sources : \A j \in 1 .. (i - 1) : sources[j].address # sources[i].address}
           Below(i) == {j \in first : j < i}
           Nth(n) == CHOOSE i \in first : Pages!Cardinality(Below(i)) = n - 1
           c == Pages!Cardinality(first)
           place == [n \in 1 .. c |-> Nth(n)]
<1>1. first \subseteq 1 .. Len(sources) /\ IsFiniteSet(first) /\ c \in Nat /\ c = Cardinality(first)
    <2>1. first \subseteq 1 .. Len(sources) /\ IsFiniteSet(1 .. Len(sources))
        BY FS_Interval
    <2> HIDE DEF first
    <2> QED BY <2>1, FS_Subset, FS_CardinalityType, PagesCardinality
<1>2. Pages!Distinct = [n \in 1 .. c |-> sources[Nth(n)].address]
    BY Zenon DEF Pages!Distinct
<1>3. ASSUME NEW n \in 1 .. c PROVE Nth(n) \in first /\ Pages!Cardinality(Below(Nth(n))) = n - 1
    <2>1. \E i \in first : Pages!Cardinality(Below(i)) = n - 1
        <3>1. first \subseteq Int
            BY <1>1
        <3> HIDE DEF first
        <3> QED BY <1>1, <3>1, EveryPlaceIsTaken, PagesCardinality
    <2> HIDE DEF first, Below
    <2> QED BY <2>1
<1>4. \A f : First(f) <=> f \in first
    BY DEF First
<1>5. place \in Surjection(1 .. c, first)
    <2> HIDE DEF first, Below, Nth, c
    <2>1. place \in [1 .. c -> first] /\ \A n \in 1 .. c : place[n] = Nth(n)
        BY <1>3
    <2>2. ASSUME NEW m \in 1 .. c, NEW n \in 1 .. c, place[m] = place[n] PROVE m = n
        <3>1. Nth(m) = Nth(n)
            BY <2>1, <2>2
        <3>2. m - 1 = n - 1
            BY <1>3, <3>1
        <3> QED BY <1>1, <3>2
    <2>3. IsFiniteSet(1 .. c) /\ Cardinality(1 .. c) = c
        BY <1>1, FS_Interval
    <2> HIDE DEF place
    <2>4. place \in Injection(1 .. c, first)
        BY <2>1, <2>2 DEF Injection, IsInjective
    <2> QED BY <1>1, <2>3, <2>4, FS_Injection
<1> HIDE DEF first, Below, Nth, c
<1>6. Len(Pages!Distinct) = c /\ \A k \in 1 .. c : Pages!Distinct[k] = sources[place[k]].address
    BY <1>1, <1>2
<1> HIDE DEF place
<1> QED BY <1>4, <1>5, <1>6 DEF Surjection

\* No more are shown than may be: they are the first in their order.
LEMMA FewAreAhead ==
    ASSUME MaxPages \in Nat, NEW U, U \subseteq Int, IsFiniteSet(U)
    PROVE  LET shown == {k \in U : Cardinality({j \in U : Pages!ListedBefore(j, k)}) < MaxPages}
           IN  IsFiniteSet(shown) /\ Cardinality(shown) <= MaxPages
<1> DEFINE Ahead(k) == {j \in U : Pages!ListedBefore(j, k)}
           shown == {k \in U : Cardinality(Ahead(k)) < MaxPages}
           rank == [k \in shown |-> Cardinality(Ahead(k))]
<1>1. ASSUME NEW k PROVE IsFiniteSet(Ahead(k)) /\ Cardinality(Ahead(k)) \in Nat
    <2>1. Ahead(k) \subseteq U
        OBVIOUS
    <2> HIDE DEF Ahead
    <2> QED BY <2>1, FS_Subset, FS_CardinalityType
<1>2. ASSUME NEW j \in U, NEW k \in U, Pages!ListedBefore(j, k)
      PROVE  Cardinality(Ahead(j)) < Cardinality(Ahead(k))
    <2>1. Ahead(j) \subseteq Ahead(k)
        <3>1. ASSUME NEW i \in U, Pages!ListedBefore(i, j) PROVE Pages!ListedBefore(i, k)
            <4>1. i \in Int /\ j \in Int /\ k \in Int
                OBVIOUS
            <4>2. CASE Pages!Untried(j) <=> Pages!Untried(k)
                BY <1>2, <3>1, <4>1, <4>2 DEF Pages!ListedBefore
            <4>3. CASE ~Pages!Untried(j) /\ Pages!Untried(k)
                BY <3>1, <4>1, <4>3 DEF Pages!ListedBefore
            <4>4. CASE Pages!Untried(j) /\ ~Pages!Untried(k)
                BY <1>2, <4>4 DEF Pages!ListedBefore
            <4> QED BY <4>2, <4>3, <4>4
        <3> QED BY <3>1
    <2>2. j \in Ahead(k) /\ j \notin Ahead(j)
        BY <1>2 DEF Pages!ListedBefore
    <2> HIDE DEF Ahead
    <2>3. /\ Cardinality(Ahead(j)) <= Cardinality(Ahead(k))
          /\ Cardinality(Ahead(j)) # Cardinality(Ahead(k))
        BY <1>1, <2>1, <2>2, FS_Subset
    <2> QED BY <1>1, <2>3
<1>3. \A j, k \in U : j = k \/ Pages!ListedBefore(j, k) \/ Pages!ListedBefore(k, j)
    <2>1. \A j \in U : j \in Int
        OBVIOUS
    <2> QED BY <2>1 DEF Pages!ListedBefore
<1>4. rank \in Injection(shown, 0 .. MaxPages - 1)
    <2> HIDE DEF Ahead
    <2>1. rank \in [shown -> 0 .. MaxPages - 1]
        BY <1>1
    <2>2. ASSUME NEW j \in shown, NEW k \in shown, rank[j] = rank[k] PROVE j = k
        <3>1. j \in U /\ k \in U /\ Cardinality(Ahead(j)) = Cardinality(Ahead(k))
            BY <2>2
        <3>2. ~(Cardinality(Ahead(j)) < Cardinality(Ahead(k))) /\ ~(Cardinality(Ahead(k)) < Cardinality(Ahead(j)))
            BY <1>1, <3>1
        <3> QED BY <1>2, <1>3, <3>1, <3>2
    <2> HIDE DEF rank, shown
    <2> QED BY <2>1, <2>2 DEF Injection, IsInjective
<1>5. IsFiniteSet(0 .. MaxPages - 1) /\ Cardinality(0 .. MaxPages - 1) = MaxPages
    BY FS_Interval
<1>6. IsFiniteSet(shown) /\ Cardinality(shown) <= MaxPages
    <2> HIDE DEF rank, shown
    <2> QED BY <1>4, <1>5, FS_Injection
<1> QED BY <1>6

\* When all is done each line has its first line and its row, and each row its line.
LEMMA LinesHaveRows ==
    ASSUME PagesInv, phase = "done"
    PROVE  /\ \A i \in DOMAIN sources :
                /\ Pages!FirstLine(i) \in DOMAIN sources /\ Pages!FirstLine(i) <= i
                /\ sources[Pages!FirstLine(i)].address = sources[i].address
                /\ Pages!RowOf(i) \in DOMAIN rows /\ rows[Pages!RowOf(i)].address = sources[i].address
           /\ \A i, j \in DOMAIN sources : sources[i].address = sources[j].address =>
                Pages!FirstLine(i) = Pages!FirstLine(j) /\ Pages!RowOf(i) = Pages!RowOf(j)
           /\ \A k \in DOMAIN rows : \E i \in DOMAIN sources : Pages!FirstLine(i) = i /\ Pages!RowOf(i) = k
<1>1. /\ Len(sources) \in Nat /\ DOMAIN sources = 1 .. Len(sources)
      /\ \A i \in 1 .. Len(sources) : sources[i].address \in Pages!Addresses
      /\ rows \in Seq(RowShape) /\ DOMAIN rows = 1 .. Len(rows) /\ Len(rows) = at - 1
      /\ at \in 1 .. Len(Pages!Distinct) + 1 /\ at > Len(Pages!Distinct)
    BY DEF PagesInv, PagesShape
<1>2. /\ Len(Pages!Distinct) \in Nat /\ DOMAIN rows = 1 .. Len(Pages!Distinct)
      /\ \A k \in DOMAIN rows : rows[k].address = Pages!Distinct[k]
      /\ \A j, k \in DOMAIN rows : rows[j].address = rows[k].address => j = k
    <2>1. Len(Pages!Distinct) \in Nat /\ Len(rows) = Len(Pages!Distinct)
        BY <1>1, DistinctIsDistinct
    <2>2. \A k \in DOMAIN rows : rows[k].address = Pages!Distinct[k]
        BY <1>1 DEF PagesInv, RowsAreInOrder
    <2> QED BY <1>1, <2>1, <2>2, DistinctIsDistinct
<1>3. ASSUME NEW i \in DOMAIN sources
      PROVE  /\ First(Pages!FirstLine(i)) /\ Pages!FirstLine(i) <= i
             /\ sources[Pages!FirstLine(i)].address = sources[i].address
    <2>1. i \in 1 .. Len(sources)
        BY <1>1
    <2>2. PICK f \in 1 .. i : First(f) /\ sources[f].address = sources[i].address
        BY <1>1, <2>1, OneLineIsFirst
    <2>3. /\ First(Pages!FirstLine(i)) /\ sources[Pages!FirstLine(i)].address = sources[i].address
        <3> DEFINE Is(g) == /\ g \in DOMAIN sources /\ sources[g].address = sources[i].address
                            /\ \A j \in 1 .. (g - 1) : sources[j].address # sources[i].address
        <3>1. \A g : Is(g) <=> First(g) /\ sources[g].address = sources[i].address
            BY <1>1 DEF First
        <3>2. Pages!FirstLine(i) = CHOOSE g \in DOMAIN sources :
                  /\ sources[g].address = sources[i].address
                  /\ \A j \in 1 .. (g - 1) : sources[j].address # sources[g].address
            BY DEF Pages!FirstLine
        <3>3. \E g \in DOMAIN sources :
                  /\ sources[g].address = sources[i].address
                  /\ \A j \in 1 .. (g - 1) : sources[j].address # sources[g].address
            BY <1>1, <2>2 DEF First
        <3> QED BY <1>1, <3>2, <3>3 DEF First
    <2>4. Pages!FirstLine(i) = f
        BY <1>1, <2>1, <2>2, <2>3, OneLineIsFirst
    <2> QED BY <2>2, <2>3, <2>4
<1>4. ASSUME NEW i \in DOMAIN sources
      PROVE  Pages!RowOf(i) \in DOMAIN rows /\ rows[Pages!RowOf(i)].address = sources[i].address
    <2>1. PICK f : First(f) /\ sources[f].address = sources[i].address
        BY <1>3
    <2>2. PICK k \in 1 .. Len(Pages!Distinct) : Pages!Distinct[k] = sources[f].address
        BY <1>1, <2>1, DistinctIsWhole
    <2>3. k \in DOMAIN rows /\ rows[k].address = sources[i].address
        BY <1>2, <2>1, <2>2
    <2> QED BY <2>3 DEF Pages!RowOf
<1>5. ASSUME NEW i \in DOMAIN sources, NEW j \in DOMAIN sources, sources[i].address = sources[j].address
      PROVE  Pages!FirstLine(i) = Pages!FirstLine(j) /\ Pages!RowOf(i) = Pages!RowOf(j)
    <2>1. Pages!FirstLine(i) = Pages!FirstLine(j)
        <3>1. i \in 1 .. Len(sources)
            BY <1>1
        <3>2. /\ First(Pages!FirstLine(i)) /\ First(Pages!FirstLine(j))
              /\ sources[Pages!FirstLine(i)].address = sources[Pages!FirstLine(j)].address
            BY <1>3, <1>5
        <3> QED BY <1>1, <3>1, <3>2, OneLineIsFirst
    <2>2. Pages!RowOf(i) = Pages!RowOf(j)
        BY <1>2, <1>4, <1>5
    <2> QED BY <2>1, <2>2
<1>6. ASSUME NEW k \in DOMAIN rows
      PROVE  \E i \in DOMAIN sources : Pages!FirstLine(i) = i /\ Pages!RowOf(i) = k
    <2>1. PICK f : First(f) /\ rows[k].address = sources[f].address
        BY <1>1, <1>2, DistinctIsWhole
    <2>2. f \in DOMAIN sources /\ f \in 1 .. Len(sources)
        BY <1>1, <2>1 DEF First
    <2>3. Pages!FirstLine(f) = f
        <3>1. First(Pages!FirstLine(f)) /\ sources[Pages!FirstLine(f)].address = sources[f].address
            BY <1>3, <2>2
        <3> QED BY <1>1, <2>1, <2>2, <3>1, OneLineIsFirst
    <2>4. Pages!RowOf(f) = k
        BY <1>2, <1>4, <2>1, <2>2
    <2> QED BY <2>2, <2>3, <2>4
<1>7. \A i \in DOMAIN sources : Pages!FirstLine(i) \in DOMAIN sources
    BY <1>1, <1>3 DEF First
<1> QED BY <1>3, <1>4, <1>5, <1>6, <1>7

\* The rows that are shown have a text, and are no more than may be.
LEMMA ShownAreFew ==
    ASSUME Pages!FetchAssumption, rows \in Seq(RowShape)
    PROVE  /\ Pages!ShownRows \subseteq {k \in DOMAIN rows : Pages!Texts[k] # ""}
           /\ IsFiniteSet(Pages!ShownRows) /\ Cardinality(Pages!ShownRows) <= MaxPages
<1> DEFINE U == {k \in DOMAIN rows : Pages!Texts[k] # ""}
<1>1. U \subseteq Int /\ IsFiniteSet(U)
    <2>1. DOMAIN rows = 1 .. Len(rows) /\ Len(rows) \in Nat
        OBVIOUS
    <2>2. U \subseteq DOMAIN rows
        BY Zenon
    <2> HIDE DEF U
    <2>3. IsFiniteSet(1 .. Len(rows)) /\ 1 .. Len(rows) \subseteq Int
        BY <2>1, FS_Interval
    <2> QED BY <2>1, <2>2, <2>3, FS_Subset
<1>2. Pages!ShownRows = {k \in U : Cardinality({j \in U : Pages!ListedBefore(j, k)}) < MaxPages}
    BY PagesCardinality DEF Pages!ShownRows
<1>3. MaxPages \in Nat
    BY DEF Pages!FetchAssumption
<1> HIDE DEF U
<1>4. Pages!ShownRows \subseteq U /\ IsFiniteSet(Pages!ShownRows) /\ Cardinality(Pages!ShownRows) <= MaxPages
    BY <1>1, <1>2, <1>3, FewAreAhead
<1> QED BY <1>4 DEF U

\* A page that was read is shown: only tried ones come before it, and those have room.
LEMMA ReadPagesAreShown ==
    ASSUME Pages!FetchAssumption, PagesInv, NEW k \in DOMAIN rows, rows[k].outcome = "fetched"
    PROVE  k \in Pages!ShownRows /\ Pages!Texts[k] = "page"
<1> DEFINE U == {j \in DOMAIN rows : Pages!Texts[j] # ""}
           ahead == {j \in U : Pages!ListedBefore(j, k)}
           tried == {j \in DOMAIN rows : rows[j].outcome # "skipped"}
<1>1. Pages!Texts[k] = "page" /\ k \in U /\ ~Pages!Untried(k)
    BY DEF Pages!Texts, Pages!Untried
<1>2. DOMAIN rows = 1 .. Len(rows)
    BY DEF PagesInv, PagesShape
<1>3. ahead \subseteq tried \ {k} /\ k \in tried
    <2>1. k \in tried /\ k \in Int
        BY <1>2
    <2>2. ASSUME NEW j \in ahead PROVE j \in tried /\ j # k
        <3>1. j \in DOMAIN rows /\ Pages!ListedBefore(j, k)
            BY Zenon
        <3> HIDE DEF ahead
        <3>2. ~Pages!Untried(j) /\ j < k
            BY <1>1, <3>1, Zenon DEF Pages!ListedBefore
        <3>3. rows[j].outcome # "skipped"
            BY <3>2 DEF Pages!Untried
        <3>4. j \in Int
            BY <1>2, <3>1
        <3> QED BY <2>1, <3>1, <3>2, <3>3, <3>4
    <2> HIDE DEF ahead, tried
    <2> QED BY <2>1, <2>2
<1>4. IsFiniteSet(tried) /\ Cardinality(tried) <= MaxPages
    <2>1. tried \subseteq 1 .. Len(rows) /\ IsFiniteSet(1 .. Len(rows))
        BY <1>2, FS_Interval
    <2>2. Cardinality(tried) = Pages!Tried(DOMAIN rows)
        BY PagesCardinality DEF Pages!Tried
    <2> HIDE DEF tried
    <2> QED BY <2>1, <2>2, FS_Subset DEF PagesInv, WithinCaps
<1> HIDE DEF ahead, tried
<1>5. Cardinality(ahead) < MaxPages
    <2>1. IsFiniteSet(tried \ {k}) /\ Cardinality(tried \ {k}) = Cardinality(tried) - 1
        BY <1>3, <1>4, FS_RemoveElement
    <2>2. IsFiniteSet(ahead) /\ Cardinality(ahead) <= Cardinality(tried \ {k})
        BY <1>3, <2>1, FS_Subset
    <2>3. Cardinality(ahead) \in Nat /\ Cardinality(tried) \in Nat /\ MaxPages \in Nat
        BY <1>4, <2>2, FS_CardinalityType DEF Pages!FetchAssumption
    <2> QED BY <1>4, <2>1, <2>2, <2>3
<1>6. Pages!ShownRows = {i \in U : Cardinality({j \in U : Pages!ListedBefore(j, i)}) < MaxPages}
    BY PagesCardinality DEF Pages!ShownRows
<1> QED BY <1>1, <1>5, <1>6 DEF ahead

\* The lines under which a page or its preview stands.
Standing == {i \in DOMAIN sources : Pages!FirstLine(i) = i /\ Pages!RowOf(i) \in Pages!ShownRows}

\* There are as many of them as there are rows shown.
LEMMA OneLineEach ==
    ASSUME Pages!FetchAssumption, PagesInv, phase = "done"
    PROVE  Cardinality(Standing) = Cardinality(Pages!ShownRows)
<1> DEFINE row == [i \in Standing |-> Pages!RowOf(i)]
<1>1. rows \in Seq(RowShape)
    BY DEF PagesInv, PagesShape
<1>2. Pages!ShownRows \subseteq DOMAIN rows /\ IsFiniteSet(Pages!ShownRows)
    BY <1>1, ShownAreFew
<1>3. row \in [Standing -> Pages!ShownRows] /\ \A i \in Standing : row[i] = Pages!RowOf(i)
    BY DEF Standing
<1>4. ASSUME NEW i \in Standing, NEW j \in Standing, row[i] = row[j] PROVE i = j
    <2>1. /\ i \in DOMAIN sources /\ j \in DOMAIN sources
          /\ Pages!FirstLine(i) = i /\ Pages!FirstLine(j) = j
        BY DEF Standing
    <2>2. Pages!RowOf(i) = Pages!RowOf(j)
        BY <1>3, <1>4
    <2>3. sources[i].address = sources[j].address
        BY <2>1, <2>2, LinesHaveRows
    <2> QED BY <2>1, <2>3, LinesHaveRows
<1>5. ASSUME NEW k \in Pages!ShownRows PROVE \E i \in Standing : row[i] = k
    <2>1. PICK i \in DOMAIN sources : Pages!FirstLine(i) = i /\ Pages!RowOf(i) = k
        BY <1>2, LinesHaveRows
    <2>2. i \in Standing
        BY <2>1 DEF Standing
    <2> QED BY <1>3, <2>1, <2>2
<1> HIDE DEF row
<1>6. row \in Injection(Standing, Pages!ShownRows)
    BY <1>3, <1>4 DEF Injection, IsInjective
<1>7. row \in Surjection(Standing, Pages!ShownRows)
    BY <1>3, <1>5 DEF Surjection
<1> QED BY <1>2, <1>6, <1>7, FS_Injection

\* A row shown is counted under one heading.
LEMMA EachIsCountedOnce ==
    ASSUME NEW S, IsFiniteSet(S), NEW kind
    PROVE  /\ Cardinality({k \in S : kind[k] = "fetched"}) \in Nat
           /\ Cardinality(S) = Cardinality({k \in S : kind[k] = "fetched"})
                               + Cardinality({k \in S : kind[k] = "refused_robots"})
                               + Cardinality({k \in S : kind[k] \notin {"fetched", "refused_robots"}})
<1> DEFINE A == {k \in S : kind[k] = "fetched"}
           B == {k \in S : kind[k] = "refused_robots"}
           C == {k \in S : kind[k] \notin {"fetched", "refused_robots"}}
<1>1. A \subseteq S /\ B \subseteq S \ A /\ C = (S \ A) \ B
    OBVIOUS
<1> HIDE DEF A, B, C
<1>2. /\ IsFiniteSet(S \ A) /\ Cardinality(S \ A) = Cardinality(S) - Cardinality(A)
      /\ IsFiniteSet(A) /\ Cardinality(A) \in Nat /\ Cardinality(S) \in Nat
    <2>1. S \cap A = A
        BY <1>1
    <2>2. IsFiniteSet(S \ A) /\ Cardinality(S \ A) = Cardinality(S) - Cardinality(S \cap A)
        BY FS_Difference
    <2> QED BY <1>1, <2>1, <2>2, FS_Subset, FS_CardinalityType
<1>3. /\ Cardinality(C) = Cardinality(S \ A) - Cardinality(B) /\ Cardinality(B) \in Nat
    <2>1. (S \ A) \cap B = B
        BY <1>1
    <2>2. Cardinality((S \ A) \ B) = Cardinality(S \ A) - Cardinality((S \ A) \cap B)
        BY <1>2, FS_Difference
    <2> QED BY <1>1, <1>2, <2>1, <2>2, FS_Subset, FS_CardinalityType
<1> QED BY <1>2, <1>3 DEF A, B, C

\* What is listed adds up, and every line of a page points at the one it stands under.
LEMMA ListingAddsUp ==
    ASSUME Pages!FetchAssumption, PagesInv
    PROVE  Pages!ListingIsConsistent
<1> SUFFICES ASSUME phase = "done" PROVE Pages!ListingIsConsistent
    BY DEF Pages!ListingIsConsistent
<1> DEFINE l == Pages!Listing
           there == {i \in DOMAIN sources : l.pages[i] # ""}
<1>1. rows \in Seq(RowShape) /\ DOMAIN sources = 1 .. Len(sources) /\ Len(sources) \in Nat
    BY DEF PagesInv, PagesShape
<1>2. /\ Pages!ShownRows \subseteq DOMAIN rows /\ \A k \in Pages!ShownRows : Pages!Texts[k] # ""
      /\ IsFiniteSet(Pages!ShownRows) /\ Cardinality(Pages!ShownRows) <= MaxPages
    BY <1>1, ShownAreFew
<1>3. ASSUME NEW i \in DOMAIN sources
      PROVE  /\ l.pages[i] = IF Pages!FirstLine(i) = i /\ Pages!RowOf(i) \in Pages!ShownRows
                             THEN Pages!Texts[Pages!RowOf(i)] ELSE ""
             /\ l.sameAs[i] = IF Pages!FirstLine(i) # i /\ Pages!RowOf(i) \in Pages!ShownRows
                              THEN Pages!FirstLine(i) ELSE 0
    BY DEF Pages!Listing
<1>4. there = Standing
    <2> HIDE DEF l
    <2> QED BY <1>2, <1>3 DEF Standing
<1>5. Cardinality(there) = l.read + l.preview + l.previewOther /\ Cardinality(there) <= MaxPages
    <2> DEFINE kind == [k \in DOMAIN rows |-> rows[k].outcome]
    <2>1. /\ l.read = Cardinality({k \in Pages!ShownRows : kind[k] = "fetched"})
          /\ l.preview = Cardinality({k \in Pages!ShownRows : kind[k] = "refused_robots"})
          /\ l.previewOther = Cardinality({k \in Pages!ShownRows :
                                               kind[k] \notin {"fetched", "refused_robots"}})
        <3>1. /\ l.read = Cardinality({k \in Pages!ShownRows : rows[k].outcome = "fetched"})
              /\ l.preview = Cardinality({k \in Pages!ShownRows : rows[k].outcome = "refused_robots"})
              /\ l.previewOther = Cardinality({k \in Pages!ShownRows :
                                                   rows[k].outcome \notin {"fetched", "refused_robots"}})
            BY PagesCardinality DEF Pages!Listing
        <3>2. \A k \in Pages!ShownRows : kind[k] = rows[k].outcome
            BY <1>2
        <3> HIDE DEF kind, l
        <3>3. /\ {k \in Pages!ShownRows : rows[k].outcome = "fetched"}
                   = {k \in Pages!ShownRows : kind[k] = "fetched"}
              /\ {k \in Pages!ShownRows : rows[k].outcome = "refused_robots"}
                   = {k \in Pages!ShownRows : kind[k] = "refused_robots"}
              /\ {k \in Pages!ShownRows : rows[k].outcome \notin {"fetched", "refused_robots"}}
                   = {k \in Pages!ShownRows : kind[k] \notin {"fetched", "refused_robots"}}
            BY <3>2
        <3> QED BY <3>1, <3>3
    <2> HIDE DEF kind, l, there
    <2>2. Cardinality(Pages!ShownRows)
            = Cardinality({k \in Pages!ShownRows : kind[k] = "fetched"})
              + Cardinality({k \in Pages!ShownRows : kind[k] = "refused_robots"})
              + Cardinality({k \in Pages!ShownRows : kind[k] \notin {"fetched", "refused_robots"}})
        BY <1>2, EachIsCountedOnce
    <2>3. Cardinality(there) = Cardinality(Pages!ShownRows)
        BY <1>4, OneLineEach
    <2>4. Cardinality(Pages!ShownRows) = l.read + l.preview + l.previewOther
        BY <2>1, <2>2
    <2> QED BY <1>2, <2>3, <2>4
<1> HIDE DEF l, there
<1>6. ASSUME NEW i \in DOMAIN sources, l.sameAs[i] # 0
      PROVE  /\ l.sameAs[i] < i /\ l.sameAs[i] \in there
             /\ sources[l.sameAs[i]].address = sources[i].address
    <2>1. /\ l.sameAs[i] = Pages!FirstLine(i) /\ Pages!FirstLine(i) # i
          /\ Pages!RowOf(i) \in Pages!ShownRows
        BY <1>3, <1>6
    <2>2. /\ Pages!FirstLine(i) \in DOMAIN sources /\ Pages!FirstLine(i) <= i
          /\ sources[Pages!FirstLine(i)].address = sources[i].address
        BY LinesHaveRows
    <2>3. /\ Pages!FirstLine(Pages!FirstLine(i)) = Pages!FirstLine(i)
          /\ Pages!RowOf(Pages!FirstLine(i)) = Pages!RowOf(i)
        BY <2>2, LinesHaveRows
    <2> QED BY <1>1, <1>4, <2>1, <2>2, <2>3 DEF Standing
<1>7. ASSUME NEW i \in DOMAIN sources, NEW j \in there, sources[j].address = sources[i].address, j # i
      PROVE  l.sameAs[i] = j
    <2>1. j \in DOMAIN sources /\ Pages!FirstLine(j) = j /\ Pages!RowOf(j) \in Pages!ShownRows
        BY <1>4 DEF Standing
    <2>2. Pages!FirstLine(i) = j /\ Pages!RowOf(i) = Pages!RowOf(j)
        BY <1>7, <2>1, LinesHaveRows
    <2> QED BY <1>3, <1>7, <2>1, <2>2
<1>8. ASSUME NEW k \in DOMAIN rows, rows[k].outcome = "fetched"
      PROVE  \E i \in there : sources[i].address = rows[k].address /\ l.pages[i] = "page"
    <2>1. k \in Pages!ShownRows /\ Pages!Texts[k] = "page"
        BY <1>8, ReadPagesAreShown
    <2>2. PICK i \in DOMAIN sources : Pages!FirstLine(i) = i /\ Pages!RowOf(i) = k
        BY LinesHaveRows
    <2>3. i \in there /\ l.pages[i] = "page"
        BY <1>3, <1>4, <2>1, <2>2 DEF Standing
    <2>4. sources[i].address = rows[k].address
        BY <2>2, LinesHaveRows
    <2> QED BY <2>3, <2>4
<1>9. Pages!Cardinality(there) = Cardinality(there)
    BY PagesCardinality
<1> QED BY <1>5, <1>6, <1>7, <1>8, <1>9 DEF Pages!ListingIsConsistent, l, there

\* The invariant implies all three properties.
LEMMA PagesInvSuffices ==
    ASSUME Pages!FetchAssumption, PagesInv
    PROVE  Pages!PagesAreReadAsAllowed /\ Pages!FetchIsOverInTime /\ Pages!ListingIsConsistent
<1>1. /\ rows \in Seq(RowShape) /\ DOMAIN rows = 1 .. Len(rows) /\ Len(rows) = at - 1
      /\ at \in 1 .. Len(Pages!Distinct) + 1 /\ now \in 0 .. Budget /\ Len(Pages!Distinct) \in Nat
    BY DistinctIsDistinct DEF PagesInv, PagesShape
<1>2. ASSUME NEW k \in DOMAIN rows, rows[k].outcome = "fetched"
      PROVE  LET r == robots[HostOf[rows[k].address]]
             IN  /\ r.status = 4 \/ (r.whole /\ r.says = "allowed")
                 /\ rows[k].whole \/ rows[k].truncated
    BY <1>1, <1>2 DEF PagesInv, FetchedAsAllowed, Permits
<1>3. ASSUME NEW j \in DOMAIN rows, NEW k \in DOMAIN rows, rows[j].address = rows[k].address PROVE j = k
    <2>1. j \in 1 .. Len(Pages!Distinct) /\ k \in 1 .. Len(Pages!Distinct)
        BY <1>1
    <2>2. Pages!Distinct[j] = Pages!Distinct[k]
        BY <1>1, <1>3 DEF PagesInv, RowsAreInOrder
    <2> QED BY <2>1, <2>2, DistinctIsDistinct DEF PagesInv, PagesShape
<1>4. /\ Pages!Tried(DOMAIN rows) <= MaxPages
      /\ \A h \in Sites : TriedAt(h) <= MaxPagesPerHost
    BY DEF PagesInv, WithinCaps
<1>5. Pages!PagesAreReadAsAllowed
    BY <1>2, <1>3, <1>4 DEF Pages!PagesAreReadAsAllowed, TriedAt, Sites
<1>6. Pages!FetchIsOverInTime
    BY <1>1 DEF Pages!FetchIsOverInTime, PagesInv, ChildIsTimely
<1> QED BY <1>5, <1>6, ListingAddsUp

\* SourcePages.PagesAreReadAsAllowed, FetchIsOverInTime and ListingIsConsistent: whatever the
\* sites do and however long they take, no page counts as read but as its site allows and
\* whole or marked as cut, no address is tried twice, no host beyond its share, all is over at
\* the deadline, and the judge is told of each page once, with counts that add up.
THEOREM PagesReadAsAllowed ==
    ASSUME Pages!FetchAssumption
    PROVE  Pages!FetchSpec =>
             [](Pages!PagesAreReadAsAllowed /\ Pages!FetchIsOverInTime /\ Pages!ListingIsConsistent)
<1>1. PagesInv => /\ Pages!PagesAreReadAsAllowed /\ Pages!FetchIsOverInTime
                  /\ Pages!ListingIsConsistent
    BY PagesInvSuffices
<1> QED BY <1>1, PagesInvariant, PTL
=============================================================================
