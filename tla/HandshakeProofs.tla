--------------------------- MODULE HandshakeProofs ---------------------------
(* What PendingSignIns promises of a started sign-in, for every number of   *)
(* browsers, threads, sessions and starts and every size of the table.      *)
EXTENDS PendingSignIns, FiniteSetTheorems, TLAPS

Names == {Nobody} \cup People
States == {"live", "aged", "ended", "revoked"}
Pcs == {"idle", "begin", "look_up", "exchange", "issue", "revoke", "discard"}
Purposes == {"sign_in", "delete_account"}

SessionShape == [state : States, who : Names]
StartShape == [by : Nat, purpose : Purposes, at : Nat, expected : Names]
RequestShape == [pc : Pcs, browser : Browsers \cup {Nobody}, by : Nat, url : Nat, who : Names,
                 purpose : Purposes, recovered : BOOLEAN, at : Nat]
CompletedShape == [url : Nat, by : Nat, who : Names, at : Nat,
                   page : {"/ui", "delete", "switched"}, was : States]

Known == 1 .. Len(sessions)
Made == 1 .. Len(starts)

Shape ==
    /\ clock \in Nat
    /\ sessions \in Seq(SessionShape) /\ cookie \in [Browsers -> Known]
    /\ starts \in Seq(StartShape) /\ \A n \in Made : starts[n].by \in Known
    /\ entries \subseteq Made /\ spent \subseteq Made
    /\ request \in [Slots -> RequestShape]
    /\ \A t \in Slots : request[t].pc # "idle" => request[t].by \in Known
    /\ completed \in Seq(CompletedShape)

-----------------------------------------------------------------------------
(* The parts of the invariant.                                               *)

\* The table has a start of each session at most, and none that was used.
TableIsOwn ==
    /\ \A m, n \in entries : By(m) = By(n) => m = n
    /\ entries \cap spent = {}
    /\ Cardinality(entries) <= MaxPending

\* A deletion was asked for by the account the session has.
AsksForItsOwn ==
    /\ \A n \in Made : starts[n].purpose = "delete_account" =>
                           starts[n].expected = sessions[By(n)].who
    /\ \A t \in Slots : request[t].pc = "begin" /\ request[t].purpose = "delete_account" =>
                           request[t].who = sessions[request[t].by].who

\* A callback under way has a start of its session that it took in time, and nobody
\* else has or had it.
ReturnPcs == {"look_up", "exchange", "issue"}
Returns(t) == request[t].pc \in ReturnPcs

TookItsStart(t) ==
    Returns(t) =>
        /\ request[t].url \in spent
        /\ By(request[t].url) = request[t].by
        /\ ~TooOld(request[t].url, request[t].at)
        /\ \A i \in DOMAIN completed : completed[i].url # request[t].url

NoTwoReturn ==
    \A t, u \in Slots : Returns(t) /\ Returns(u) /\ request[t].url = request[u].url => t = u

\* What a sign-in that went through came from is used up.
UsedUp ==
    \A i \in DOMAIN completed :
        /\ completed[i].url \in spent
        /\ completed[i].by \in Known /\ sessions[completed[i].by].state = "revoked"

HandshakeInv ==
    /\ Shape /\ TableIsOwn /\ AsksForItsOwn
    /\ \A t \in Slots : TookItsStart(t)
    /\ NoTwoReturn /\ UsedUp /\ SignInIsItsOwn /\ StartIsKept

-----------------------------------------------------------------------------
(* Sequences.                                                                *)

\* Appending keeps what a sequence has and puts the new one last.
LEMMA AppendsOne ==
    ASSUME NEW S, NEW s \in Seq(S), NEW e \in S
    PROVE  /\ Append(s, e) \in Seq(S) /\ Len(Append(s, e)) = Len(s) + 1
           /\ \A i \in 1 .. Len(s) : Append(s, e)[i] = s[i]
           /\ Append(s, e)[Len(s) + 1] = e
    OBVIOUS

\* A session's end changes its state and nothing else.
LEMMA EndsOne ==
    ASSUME NEW q \in Seq(SessionShape), NEW k \in 1 .. Len(q), NEW e \in States,
           NEW r, r = [q EXCEPT ![k].state = e]
    PROVE  /\ r \in Seq(SessionShape) /\ Len(r) = Len(q) /\ r[k].state = e
           /\ \A j \in 1 .. Len(q) : r[j].who = q[j].who /\ (j # k => r[j] = q[j])
<1> DEFINE x == [q[k] EXCEPT !.state = e]
<1>0. q[k] \in SessionShape
    OBVIOUS
<1>1. x \in SessionShape /\ x.state = e /\ x.who = q[k].who
    BY <1>0 DEF SessionShape
<1>2. r = [q EXCEPT ![k] = x]
    OBVIOUS
<1> HIDE DEF x
<1>3. r \in Seq(SessionShape) /\ Len(r) = Len(q) /\ r[k] = x
      /\ \A j \in 1 .. Len(q) : j # k => r[j] = q[j]
    BY <1>1, <1>2
<1> QED
    BY <1>1, <1>3
-----------------------------------------------------------------------------
(* What grows, for every step.                                               *)

\* Sessions are added and end; a session's account never changes, and what was
\* signed out stays so.
SessionsGrow ==
    /\ sessions' \in Seq(SessionShape) /\ Len(sessions) <= Len(sessions')
    /\ \A s \in Known : /\ sessions'[s].who = sessions[s].who
                        /\ sessions[s].state = "revoked" => sessions'[s].state = "revoked"

StartsGrow ==
    /\ starts' \in Seq(StartShape) /\ Len(starts) <= Len(starts')
    /\ \A n \in Made : starts'[n] = starts[n]

Grows ==
    /\ SessionsGrow /\ StartsGrow
    /\ spent \subseteq spent' /\ clock' \in Nat /\ clock <= clock'

\* What Shape says of the parts a step may leave alone.
LEMMA StaysTheSame ==
    /\ Shape /\ UNCHANGED sessions => SessionsGrow
    /\ Shape /\ UNCHANGED starts => StartsGrow
    /\ Shape /\ UNCHANGED clock => clock' \in Nat /\ clock <= clock'
BY DEF Shape, SessionsGrow, StartsGrow

\* Each step that touches the sessions lets them grow; a start lets the starts grow.
LEMMA IssueGrows == Shape /\ (\E t \in Slots : Issue(t)) => SessionsGrow
<1> SUFFICES ASSUME Shape, NEW t \in Slots, Issue(t) PROVE SessionsGrow
    OBVIOUS
<1> DEFINE by == request[t].by
           ended == [sessions EXCEPT ![by].state = "revoked"]
           new == [state |-> "live", who |-> request[t].who]
<1>1. by \in Known /\ request[t].who \in Names /\ request[t].pc = "issue"
    BY DEF Shape, Issue, RequestShape
<1>2. CASE Refused(by)
    BY <1>2, StaysTheSame DEF Issue
<1>3. CASE ~Refused(by)
    <2>1. sessions' = Append(ended, new)
        BY <1>3 DEF Issue
    <2>2. sessions \in Seq(SessionShape)
        BY DEF Shape
    <2>6. \A r : r = ended => r = [sessions EXCEPT ![by].state = "revoked"]
        OBVIOUS
    <2>7. by \in 1 .. Len(sessions) /\ "revoked" \in States
        BY <1>1 DEF Known, States
    <2> HIDE DEF ended
    <2>3. ended \in Seq(SessionShape) /\ Len(ended) = Len(sessions) /\ ended[by].state = "revoked"
          /\ \A j \in Known : ended[j].who = sessions[j].who /\ (j # by => ended[j] = sessions[j])
        BY <2>2, <2>6, <2>7, EndsOne DEF Known
    <2>4. new \in SessionShape
        BY <1>1 DEF SessionShape, States
    <2> HIDE DEF new
    <2>5. sessions' \in Seq(SessionShape) /\ Len(sessions') = Len(sessions) + 1
          /\ \A j \in Known : sessions'[j] = ended[j]
        BY <2>1, <2>3, <2>4, AppendsOne DEF Known
    <2> QED
        BY <2>2, <2>3, <2>5 DEF SessionsGrow, Known
<1> QED
    BY <1>2, <1>3

LEMMA RevokeGrows == Shape /\ (\E t \in Slots : Revoke(t)) => SessionsGrow
<1> SUFFICES ASSUME Shape, NEW t \in Slots, Revoke(t) PROVE SessionsGrow
    OBVIOUS
<1>1. request[t].by \in Known
    BY DEF Shape, Revoke
<1>2. sessions' = [sessions EXCEPT ![request[t].by].state = "revoked"] /\ sessions \in Seq(SessionShape)
    BY DEF Shape, Revoke
<1>3. sessions' \in Seq(SessionShape) /\ Len(sessions') = Len(sessions)
      /\ sessions'[request[t].by].state = "revoked"
      /\ \A j \in Known : sessions'[j].who = sessions[j].who
                          /\ (j # request[t].by => sessions'[j] = sessions[j])
    BY <1>1, <1>2, EndsOne DEF Known, States
<1> QED
    BY <1>2, <1>3 DEF SessionsGrow, Known

LEMMA EverywhereGrows ==
    Shape /\ (\E t \in Slots, b \in Browsers : SignOutEverywhere(t, b)) => SessionsGrow
<1> SUFFICES ASSUME Shape, NEW t \in Slots, NEW b \in Browsers, SignOutEverywhere(t, b)
             PROVE SessionsGrow
    OBVIOUS
<1> DEFINE who == sessions[cookie[b]].who
           next(k) == IF sessions[k].who = who /\ sessions[k].state = "live"
                      THEN [sessions[k] EXCEPT !.state = "ended"] ELSE sessions[k]
<1>1. sessions' = [k \in DOMAIN sessions |-> next(k)] /\ sessions \in Seq(SessionShape)
    BY DEF Shape, SignOutEverywhere
<1>2. ASSUME NEW k \in Known
      PROVE  next(k) \in SessionShape /\ next(k).who = sessions[k].who
             /\ (sessions[k].state = "revoked" => next(k).state = "revoked")
    <2>1. sessions[k] \in SessionShape
        BY <1>1 DEF Known
    <2>2. next(k) = sessions[k] \/ (next(k) = [sessions[k] EXCEPT !.state = "ended"]
                                    /\ sessions[k].state = "live")
        OBVIOUS
    <2> HIDE DEF next
    <2> QED
        BY <2>1, <2>2 DEF SessionShape, States
<1> HIDE DEF next
<1>3. sessions' \in Seq(SessionShape) /\ Len(sessions') = Len(sessions)
      /\ \A k \in Known : sessions'[k] = next(k)
    BY <1>1, <1>2 DEF Known
<1> QED
    BY <1>1, <1>2, <1>3 DEF SessionsGrow, Known

LEMMA NewGrows == Shape /\ (\E b \in Browsers : NewSession(b)) => SessionsGrow
<1> SUFFICES ASSUME Shape, NEW b \in Browsers, NewSession(b) PROVE SessionsGrow
    OBVIOUS
<1> DEFINE new == [state |-> "live", who |-> Nobody]
<1>1. sessions' = Append(sessions, new) /\ sessions \in Seq(SessionShape)
    BY DEF Shape, NewSession
<1>2. new \in SessionShape
    BY DEF SessionShape, States, Names
<1> HIDE DEF new
<1>3. sessions' \in Seq(SessionShape) /\ Len(sessions') = Len(sessions) + 1
      /\ \A j \in Known : sessions'[j] = sessions[j]
    BY <1>1, <1>2, AppendsOne DEF Known
<1> QED
    BY <1>1, <1>3 DEF SessionsGrow, Known

LEMMA LapseGrows == Shape /\ Lapse => SessionsGrow
<1> SUFFICES ASSUME Shape, Lapse PROVE SessionsGrow
    OBVIOUS
<1>1. PICK s \in DOMAIN sessions, end \in {"aged", "ended"} :
          sessions[s].state = "live" /\ sessions' = [sessions EXCEPT ![s].state = end]
    BY DEF Lapse
<1>2. sessions \in Seq(SessionShape) /\ s \in Known /\ end \in States
    BY DEF Shape, Known, States
<1>3. sessions' \in Seq(SessionShape) /\ Len(sessions') = Len(sessions)
      /\ \A j \in Known : sessions'[j].who = sessions[j].who
                          /\ (j # s => sessions'[j] = sessions[j])
    BY <1>1, <1>2, EndsOne DEF Known
<1> QED
    BY <1>1, <1>2, <1>3 DEF SessionsGrow, Known

LEMMA BeginGrows ==
    Shape /\ (\E t \in Slots : Begin(t)) =>
        /\ StartsGrow /\ Len(starts') = Len(starts) + 1
        /\ \E t \in Slots : /\ request[t].pc = "begin"
                            /\ starts'[Len(starts) + 1] =
                                [by |-> request[t].by, purpose |-> request[t].purpose,
                                 at |-> clock, expected |-> request[t].who]
<1> SUFFICES ASSUME Shape, NEW t \in Slots, Begin(t)
             PROVE /\ StartsGrow /\ Len(starts') = Len(starts) + 1
                   /\ starts'[Len(starts) + 1] =
                        [by |-> request[t].by, purpose |-> request[t].purpose,
                         at |-> clock, expected |-> request[t].who]
    BY DEF Begin
<1> DEFINE new == [by |-> request[t].by, purpose |-> request[t].purpose, at |-> clock,
                   expected |-> request[t].who]
<1>1. starts' = Append(starts, new) /\ starts \in Seq(StartShape)
    BY DEF Shape, Begin
<1>2. new \in StartShape
    BY DEF Shape, StartShape, RequestShape
<1>4. new = [by |-> request[t].by, purpose |-> request[t].purpose,
                         at |-> clock, expected |-> request[t].who]
    OBVIOUS
<1> HIDE DEF new
<1>3. starts' \in Seq(StartShape) /\ Len(starts') = Len(starts) + 1
      /\ (\A j \in Made : starts'[j] = starts[j]) /\ starts'[Len(starts) + 1] = new
    BY <1>1, <1>2, AppendsOne DEF Made
<1> QED
    BY <1>1, <1>3, <1>4 DEF StartsGrow, Made

-----------------------------------------------------------------------------
(* The table.                                                                *)

\* What a step does to the table: nothing, a start (BeginGrows), or the started
\* sign-in of a session goes, with those whose time is over.
TableStays == UNCHANGED <<starts, entries, spent>>

Drops(s) ==
    /\ UNCHANGED <<starts, clock>>
    /\ spent' = spent \cup Own(entries, s)
    /\ entries' \subseteq Without(entries, s)
    /\ \A n \in entries : n \in entries' \/ n \in Own(entries, s) \/ TooOld(n, clock)

\* Every step does one of these.
LEMMA TableSteps ==
    ASSUME PendingNext
    PROVE  TableStays \/ (\E s : Drops(s)) \/ (\E t \in Slots : Begin(t))
<1>1. ASSUME NEW t \in Slots, NEW b \in Browsers, NEW url, NEW cancelled, CallBack(t, b, url, cancelled)
      PROVE  Drops(cookie[b])
    BY <1>1 DEF CallBack, Drops, Purged, Without, Own
<1>2. ASSUME NEW t \in Slots, NEW b \in Browsers, SignOut(t, b) PROVE Drops(cookie[b])
    BY <1>2 DEF SignOut, Drops, Without, Own
<1>3. ASSUME NEW t \in Slots, Discard(t) PROVE Drops(request[t].by)
    BY <1>3 DEF Discard, Drops, Without, Own
<1>4. ASSUME \/ \E t \in Slots, b \in Browsers :
                  (\E purpose \in Purposes : Start(t, b, purpose)) \/ SignOutEverywhere(t, b)
             \/ \E t \in Slots : LookUp(t) \/ Issue(t) \/ Revoke(t)
                                 \/ \E who \in Names : Exchange(t, who)
             \/ \E b \in Browsers : NewSession(b)
             \/ Lapse \/ Tick
      PROVE  TableStays
    BY <1>4 DEF TableStays, Start, SignOutEverywhere, LookUp, Issue, Revoke, Exchange, NewSession,
                Lapse, Tick
<1> QED
    BY <1>1, <1>2, <1>3, <1>4 DEF PendingNext, Purposes, Names

\* So does every step.
LEMMA StepGrows == ASSUME Shape, PendingNext PROVE Grows
<1>1. SessionsGrow
    <2>1. \/ \E t \in Slots : Issue(t) \/ Revoke(t)
          \/ \E t \in Slots, b \in Browsers : SignOutEverywhere(t, b)
          \/ \E b \in Browsers : NewSession(b)
          \/ Lapse
          \/ UNCHANGED sessions
        BY DEF PendingNext, Start, CallBack, SignOut, Begin, LookUp, Discard, Exchange, Tick
    <2> QED
        BY <2>1, IssueGrows, RevokeGrows, EverywhereGrows, NewGrows, LapseGrows, StaysTheSame
<1>2. StartsGrow
    BY TableSteps, BeginGrows, StaysTheSame DEF TableStays, Drops
<1>3. spent \subseteq spent'
    BY TableSteps DEF TableStays, Drops, Begin
<1>4. clock' \in Nat /\ clock <= clock'
    <2>1. UNCHANGED clock \/ clock' = clock + 1
        BY DEF PendingNext, Start, CallBack, SignOut, SignOutEverywhere, Begin, LookUp, Issue, Revoke,
               Discard, Exchange, NewSession, Lapse, Tick
    <2> QED
        BY <2>1 DEF Shape
<1> QED
    BY <1>1, <1>2, <1>3, <1>4 DEF Grows

\* What is said of a start stays true of it.
LEMMA StartsAreKept ==
    ASSUME Shape, Grows, NEW n \in Made
    PROVE  /\ n \in Made' /\ By(n)' = By(n)
           /\ \A now : TooOld(n, now) => n \in Made /\ now - starts'[n].at > TTL
           /\ HandshakeAssumption /\ TooOld(n, clock) => TooOld(n, clock)'
<1>2. n \in 1 .. Len(starts) /\ starts \in Seq(StartShape) /\ Len(starts) <= Len(starts')
      /\ starts' \in Seq(StartShape) /\ starts'[n] = starts[n]
    BY DEF Shape, Grows, StartsGrow, Made
<1>3. starts[n] \in StartShape /\ n \in 1 .. Len(starts')
    BY <1>2
<1>1. n \in Made' /\ starts'[n] = starts[n] /\ starts[n].at \in Nat
    BY <1>2, <1>3 DEF Made, StartShape
<1> QED
    BY <1>1 DEF By, TooOld, Grows, Shape, HandshakeAssumption

-----------------------------------------------------------------------------
(* A full table.                                                             *)

\* A set of numbers that is not empty has a least one.
LEMMA LeastOne ==
    ASSUME NEW S, S \subseteq Nat, S # {}
    PROVE  Oldest(S) \in S /\ \A m \in S : Oldest(S) <= m
<1>1. \E n \in S : \A k \in S : ~ (<<k, n>> \in OpToRel(<, Nat))
    BY NatLessThanWellFounded, WFMin
<1>2. PICK n \in S : \A k \in S : ~ (k < n)
    BY <1>1 DEF OpToRel
<1>3. \A k \in S : n <= k
    BY <1>2
<1> QED
    BY <1>3 DEF Oldest

\* A set that a function tells apart is no larger than where the function goes.
LEMMA TellsApart ==
    ASSUME NEW S, NEW T, IsFiniteSet(S), IsFiniteSet(T), NEW f \in [S -> T],
           \A x, y \in S : f[x] = f[y] => x = y
    PROVE  Cardinality(S) <= Cardinality(T)
<1>1. ~ (Cardinality(T) < Cardinality(S))
    BY FS_PigeonHole
<1> QED
    BY <1>1, FS_CardinalityType

\* There are finitely many starts, and finitely many sessions had them.
LEMMA PartsAreFinite ==
    ASSUME Shape, NEW T, T \subseteq Made
    PROVE  IsFiniteSet(T) /\ Cardinality(T) \in Nat
<1>1. Len(starts) \in Nat
    BY DEF Shape
<1>2. IsFiniteSet(Made)
    BY <1>1, FS_Interval DEF Made
<1> QED
    BY <1>2, FS_Subset, FS_CardinalityType

\* Whose starts came after one.
Later(n) == {By(m) : m \in (n + 1) .. Len(starts)}

LEMMA LaterIsFinite ==
    ASSUME Shape, NEW n \in Made
    PROVE  IsFiniteSet(Later(n)) /\ Cardinality(Later(n)) \in Nat
<1>1. Len(sessions) \in Nat /\ Len(starts) \in Nat /\ \A m \in Made : By(m) \in Known
    BY DEF Shape, By
<1>2. IsFiniteSet(Known)
    BY <1>1, FS_Interval DEF Known
<1>3. Later(n) \subseteq Known
    BY <1>1 DEF Later, Made
<1> QED
    BY <1>2, <1>3, FS_Subset, FS_CardinalityType

\* More of them, with every step.
LEMMA LaterGrows ==
    ASSUME Shape, Shape', Grows, NEW n \in Made
    PROVE  Cardinality(Later(n)) <= Cardinality(Later(n)')
<1>1. Len(starts) \in Nat /\ Len(starts') \in Nat /\ Len(starts) <= Len(starts')
    BY DEF Shape, Grows, StartsGrow
<1>2. \A m \in Made : By(m)' = By(m)
    BY StartsAreKept
<1>3. Later(n) \subseteq Later(n)'
    BY <1>1, <1>2 DEF Later, Made
<1>4. Len(sessions') \in Nat /\ \A m \in Made' : By(m)' \in Known'
    BY DEF Shape, By
<1>5. IsFiniteSet(Known')
    BY <1>4, FS_Interval DEF Known
<1>6. Later(n)' \subseteq Known'
    BY <1>1, <1>4 DEF Later, Made
<1>7. IsFiniteSet(Later(n)')
    BY <1>5, <1>6, FS_Subset
<1> QED
    BY <1>3, <1>7, FS_Subset
-----------------------------------------------------------------------------
(* Requests.                                                                 *)

\* An idle thread has a request of the right shape.
LEMMA IdleShape == Idle \in RequestShape /\ Idle.pc = "idle"
BY DEF Idle, RequestShape, Pcs, Purposes, Names, None

\* A thread takes a request of a browser's session.
Opened(pc, b, s) == [Idle EXCEPT !.pc = pc, !.browser = b, !.by = s]

LEMMA OpensShape ==
    ASSUME NEW pc \in Pcs, NEW b \in Browsers, NEW s \in Nat
    PROVE  /\ Opened(pc, b, s) \in RequestShape
           /\ Opened(pc, b, s).pc = pc /\ Opened(pc, b, s).by = s
<1>1. Idle \in RequestShape
    BY IdleShape
<1> QED
    BY <1>1 DEF RequestShape, Opened

\* A request that starts a deletion has the account of its session; one that comes back
\* has the start it took, in time, from the table; no other comes to hold a start.
HoldsWhatItTook(t, r) ==
    \/ r.pc \in {"idle", "revoke", "discard"}
    \/ r.pc = "begin" /\ (r.purpose = "delete_account" => r.who = sessions[r.by].who)
    \/ /\ r.pc \in ReturnPcs /\ Returns(t)
       /\ r.url = request[t].url /\ r.by = request[t].by /\ r.at = request[t].at
    \/ /\ r.pc \in ReturnPcs /\ r.url \in Own(entries, r.by) /\ ~TooOld(r.url, r.at)
       /\ r.url \in spent'

Moves(t, r) ==
    /\ request' = [request EXCEPT ![t] = r]
    /\ r \in RequestShape /\ (r.pc # "idle" => r.by \in Known)
    /\ HoldsWhatItTook(t, r)

\* A thread is done.
LEMMA FinishMoves ==
    ASSUME NEW t \in Slots, Finish(t) PROVE Moves(t, Idle)
BY IdleShape DEF Finish, Moves, HoldsWhatItTook

\* What each step does to the requests.
LEMMA StartMoves ==
    ASSUME Shape, NEW t \in Slots, NEW b \in Browsers, NEW purpose \in Purposes,
           Start(t, b, purpose)
    PROVE  \E r : Moves(t, r)
<1> DEFINE s == cookie[b]
           who == IF purpose = "sign_in" THEN Nobody ELSE sessions[s].who
           r == [Idle EXCEPT !.pc = "begin", !.browser = b, !.by = s, !.purpose = purpose, !.who = who]
<1>1. request' = [request EXCEPT ![t] = r]
    BY DEF Start
<1>2. s \in Known /\ s \in Nat
    BY DEF Shape, Known
<1>3. sessions[s] \in SessionShape
    BY <1>2 DEF Shape, Known
<1>4. who \in Names
    BY <1>3 DEF SessionShape, Names
<1>5. purpose = "delete_account" => who = sessions[s].who
    OBVIOUS
<1> HIDE DEF who, s
<1> DEFINE q == Opened("begin", b, s)
<1>9. r = [q EXCEPT !.purpose = purpose, !.who = who]
    BY DEF Opened
<1>6. q \in RequestShape /\ q.pc = "begin" /\ q.by = s
    BY <1>2, OpensShape DEF Pcs
<1> HIDE DEF q, r
<1>7. r \in RequestShape /\ r.pc = "begin" /\ r.by = s /\ r.who = who /\ r.purpose = purpose
    BY <1>4, <1>6, <1>9 DEF RequestShape
<1> QED
    BY <1>1, <1>2, <1>5, <1>7 DEF Moves, HoldsWhatItTook

LEMMA CallBackMoves ==
    ASSUME Shape, NEW t \in Slots, NEW b \in Browsers, NEW url \in DOMAIN starts,
           NEW cancelled \in BOOLEAN, CallBack(t, b, url, cancelled)
    PROVE  UNCHANGED request \/ \E r : Moves(t, r)
<1> DEFINE s == cookie[b]
           r == [Idle EXCEPT !.pc = "look_up", !.browser = b, !.by = s, !.url = url, !.at = clock]
<1>1. CASE Taken(s) # {url} \/ cancelled
    BY <1>1 DEF CallBack
<1>2. CASE Taken(s) = {url} /\ ~cancelled
    <2>1. request' = [request EXCEPT ![t] = r] /\ spent' = spent \cup Own(entries, s)
        BY <1>2 DEF CallBack
    <2>2. s \in Known /\ s \in Nat /\ clock \in Nat
        BY DEF Shape, Known
    <2>3. url \in Own(entries, s) /\ ~TooOld(url, clock)
        BY <1>2 DEF Taken
    <2>4. url \in Nat
        BY DEF Shape
    <2> HIDE DEF s
    <2> DEFINE q == Opened("look_up", b, s)
    <2>9. r = [q EXCEPT !.url = url, !.at = clock]
        BY DEF Opened
    <2>5. q \in RequestShape /\ q.pc = "look_up" /\ q.by = s
        BY <2>2, OpensShape DEF Pcs
    <2> HIDE DEF q, r
    <2>6. r \in RequestShape /\ r.pc = "look_up" /\ r.by = s /\ r.url = url /\ r.at = clock
        BY <2>2, <2>4, <2>5, <2>9 DEF RequestShape
    <2> QED
        BY <2>1, <2>2, <2>3, <2>6 DEF Moves, HoldsWhatItTook, ReturnPcs
<1> QED
    BY <1>1, <1>2

LEMMA LookUpMoves ==
    ASSUME Shape, NEW t \in Slots, LookUp(t) PROVE \E r : Moves(t, r)
<1> DEFINE aged == sessions[request[t].by].state = "aged"
           r == [request[t] EXCEPT !.pc = "exchange", !.recovered = aged]
<1>0. aged \in BOOLEAN
    OBVIOUS
<1>1. Finish(t) \/ request' = [request EXCEPT ![t] = r]
    BY DEF LookUp, Shape
<1>2. request[t] \in RequestShape /\ request[t].pc = "look_up" /\ request[t].by \in Known
    BY DEF LookUp, Shape
<1> HIDE DEF aged
<1>3. r \in RequestShape /\ r.pc = "exchange" /\ r.by = request[t].by /\ r.url = request[t].url
      /\ r.at = request[t].at
    BY <1>0, <1>2 DEF RequestShape, Pcs
<1> HIDE DEF r
<1> QED
    BY <1>1, <1>2, <1>3, FinishMoves DEF Moves, HoldsWhatItTook, Returns, ReturnPcs

LEMMA ExchangeMoves ==
    ASSUME Shape, NEW t \in Slots, NEW who \in Names, Exchange(t, who) PROVE \E r : Moves(t, r)
<1> DEFINE r == [request[t] EXCEPT !.pc = "issue", !.who = who]
<1>1. Finish(t) \/ request' = [request EXCEPT ![t] = r]
    BY DEF Exchange, Shape
<1>2. request[t] \in RequestShape /\ request[t].pc = "exchange" /\ request[t].by \in Known
    BY DEF Exchange, Shape
<1>3. r \in RequestShape /\ r.pc = "issue" /\ r.by = request[t].by /\ r.url = request[t].url
      /\ r.at = request[t].at
    BY <1>2 DEF RequestShape, Pcs
<1> HIDE DEF r
<1> QED
    BY <1>1, <1>2, <1>3, FinishMoves DEF Moves, HoldsWhatItTook, Returns, ReturnPcs

\* Signing out, of this device or of every one: the thread has the rest to do.
LEMMA LeavingMoves ==
    ASSUME Shape, NEW t \in Slots, NEW b \in Browsers, SignOut(t, b) \/ SignOutEverywhere(t, b)
    PROVE  \E r : Moves(t, r)
<1> DEFINE s == cookie[b]
           r(pc) == Opened(pc, b, s)
<1>1. \E pc \in {"revoke", "discard"} : request' = [request EXCEPT ![t] = r(pc)]
    BY DEF SignOut, SignOutEverywhere, Opened
<1>2. s \in Known /\ s \in Nat
    BY DEF Shape, Known
<1> HIDE DEF s
<1>3. ASSUME NEW pc \in {"revoke", "discard"}
      PROVE  r(pc) \in RequestShape /\ r(pc).pc = pc /\ r(pc).by = s
    BY <1>2, OpensShape DEF Pcs
<1> HIDE DEF r
<1> QED
    BY <1>1, <1>2, <1>3 DEF Moves, HoldsWhatItTook

\* Every step moves one thread at most.
LEMMA RequestSteps ==
    ASSUME Shape, PendingNext
    PROVE  UNCHANGED request \/ \E t \in Slots : \E r : Moves(t, r)
<1>1. ASSUME NEW t \in Slots, Begin(t) \/ Issue(t) \/ Revoke(t) \/ Discard(t)
      PROVE  \E r : Moves(t, r)
    BY <1>1, FinishMoves DEF Begin, Issue, Revoke, Discard
<1>2. ASSUME (\E b \in Browsers : NewSession(b)) \/ Lapse \/ Tick PROVE UNCHANGED request
    BY <1>2 DEF NewSession, Lapse, Tick
<1> QED
    BY <1>1, <1>2, StartMoves, CallBackMoves, LookUpMoves, ExchangeMoves, LeavingMoves
       DEF PendingNext, Purposes, Names
-----------------------------------------------------------------------------
(* Sign-ins that go through.                                                 *)

\* issue_signed_in_session went through: what is added to `completed`, and the session.
Completes(t) ==
    /\ UNCHANGED <<starts, spent>>
    /\ request[t].pc = "issue" /\ request' = [request EXCEPT ![t] = Idle]
    /\ sessions'[request[t].by].state = "revoked"
    /\ \E c \in CompletedShape :
        /\ completed' = Append(completed, c)
        /\ c.url = request[t].url /\ c.by = request[t].by /\ c.at = request[t].at
        /\ c.was = sessions[request[t].by].state /\ c.was # "revoked"
        /\ c.page = "delete" =>
            starts[c.url].purpose = "delete_account" /\ c.who = starts[c.url].expected

LEMMA IssueCompletes ==
    ASSUME Shape, NEW t \in Slots, Issue(t), ~Refused(request[t].by), request[t].url \in Made
    PROVE  Completes(t)
<1> DEFINE q == request[t]
           same == q.who = starts[q.url].expected
           page == IF starts[q.url].purpose = "sign_in" THEN "/ui"
                   ELSE IF same THEN "delete" ELSE "switched"
           was == sessions[q.by].state
           c == [url |-> q.url, by |-> q.by, who |-> q.who, at |-> q.at, page |-> page, was |-> was]
           ended == [sessions EXCEPT ![q.by].state = "revoked"]
           new == [state |-> "live", who |-> q.who]
<1>1. q \in RequestShape /\ q.by \in Known /\ sessions \in Seq(SessionShape) /\ q.pc = "issue"
    BY DEF Shape, Issue
<1>2. completed' = Append(completed, c) /\ sessions' = Append(ended, new)
      /\ request' = [request EXCEPT ![t] = Idle] /\ UNCHANGED <<starts, spent>>
    BY DEF Issue, Finish
<1>3. sessions[q.by] \in SessionShape
    BY <1>1 DEF Known
<1>4. was \in States /\ was # "revoked"
    BY <1>3 DEF SessionShape, Refused
<1>5. page \in {"/ui", "delete", "switched"}
      /\ (page = "delete" => starts[q.url].purpose # "sign_in" /\ q.who = starts[q.url].expected)
    OBVIOUS
<1>6. sessions'[q.by].state = "revoked"
    <2>1. q.by \in 1 .. Len(sessions) /\ "revoked" \in States
        BY <1>1 DEF Known, States
    <2>2. \A r : r = ended => r = [sessions EXCEPT ![q.by].state = "revoked"]
        OBVIOUS
    <2> HIDE DEF ended
    <2>3. ended \in Seq(SessionShape) /\ Len(ended) = Len(sessions) /\ ended[q.by].state = "revoked"
        BY <1>1, <2>1, <2>2, EndsOne
    <2>4. new \in SessionShape
        BY <1>1 DEF SessionShape, States, RequestShape
    <2> HIDE DEF new
    <2>5. sessions'[q.by] = ended[q.by]
        BY <1>2, <2>1, <2>3, <2>4, AppendsOne
    <2> QED
        BY <2>3, <2>5
<1> HIDE DEF page, was
<1>7. c \in CompletedShape /\ c.url = q.url /\ c.by = q.by /\ c.who = q.who /\ c.at = q.at
      /\ c.page = page /\ c.was = was
    BY <1>1, <1>4, <1>5 DEF CompletedShape, RequestShape
<1> HIDE DEF c, q
<1>8. starts[q.url].purpose # "sign_in" /\ page = "delete" => starts[q.url].purpose = "delete_account"
    <2>1. starts[q.url] \in StartShape
        BY DEF Shape, Made, q
    <2> QED
        BY <2>1 DEF StartShape, Purposes
<1> QED
    BY <1>1, <1>2, <1>4, <1>5, <1>6, <1>7, <1>8 DEF Completes, q, was

\* No other step completes a sign-in.
LEMMA CompletedSteps ==
    ASSUME Shape, \A t \in Slots : TookItsStart(t), PendingNext
    PROVE  UNCHANGED completed \/ \E t \in Slots : Completes(t)
<1>1. ASSUME NEW t \in Slots, Issue(t) PROVE UNCHANGED completed \/ Completes(t)
    <2>1. request[t].url \in Made
        BY <1>1 DEF Issue, TookItsStart, Returns, ReturnPcs, Shape
    <2> QED
        BY <1>1, <2>1, IssueCompletes DEF Issue
<1> QED
    BY <1>1 DEF PendingNext, Start, CallBack, SignOut, SignOutEverywhere, Begin, LookUp, Revoke,
                Discard, Exchange, NewSession, Lapse, Tick
-----------------------------------------------------------------------------
(* Shape is kept.                                                            *)

\* Cookies, requests and the table keep their shape.
LEMMA CookiesStep == ASSUME Shape, PendingNext PROVE cookie' \in [Browsers -> Known']
<1>1. cookie \in [Browsers -> Known] /\ Len(sessions) \in Nat
    BY DEF Shape
<1>2. Len(sessions') \in Nat /\ Len(sessions) <= Len(sessions')
    BY StepGrows DEF Grows, SessionsGrow
<1>3. ASSUME UNCHANGED cookie PROVE cookie' \in [Browsers -> Known']
    BY <1>1, <1>2, <1>3 DEF Known
<1>4. ASSUME NEW b, cookie' = [cookie EXCEPT ![b] = Len(sessions')], Len(sessions') > 0
      PROVE  cookie' \in [Browsers -> Known']
    <2>1. Known \subseteq Known' /\ Len(sessions') \in Known'
        BY <1>1, <1>2, <1>4 DEF Known
    <2>2. cookie \in [Browsers -> Known']
        BY <1>1, <2>1
    <2> QED
        BY <1>4, <2>1, <2>2
<1>5. ASSUME NEW t \in Slots, Issue(t), ~UNCHANGED cookie PROVE Len(sessions') > 0
    <2>1. request[t].by \in Known
        BY <1>5 DEF Shape, Issue
    <2> QED
        BY <1>1, <1>2, <2>1 DEF Known
<1>6. ASSUME NEW b \in Browsers, NewSession(b) PROVE Len(sessions') > 0
    BY <1>1, <1>2 DEF Known
<1>7. \/ UNCHANGED cookie
      \/ \E t \in Slots : Issue(t) /\ cookie' = [cookie EXCEPT ![request[t].browser] = Len(sessions')]
      \/ \E b \in Browsers : NewSession(b) /\ cookie' = [cookie EXCEPT ![b] = Len(sessions')]
    BY DEF PendingNext, Start, CallBack, SignOut, SignOutEverywhere, Begin, LookUp, Issue, Revoke,
           Discard, Exchange, NewSession, Lapse, Tick
<1> QED
    BY <1>3, <1>4, <1>5, <1>6, <1>7

LEMMA RequestsKeepShape ==
    ASSUME Shape, PendingNext
    PROVE  /\ request' \in [Slots -> RequestShape]
           /\ \A t \in Slots : request'[t].pc # "idle" => request'[t].by \in Known'
<1>1. /\ request \in [Slots -> RequestShape]
      /\ \A t \in Slots : request[t].pc # "idle" => request[t].by \in Known
      /\ Len(sessions) \in Nat
    BY DEF Shape
<1>2. Known \subseteq Known'
    BY <1>1, StepGrows DEF Grows, SessionsGrow, Known
<1>3. CASE UNCHANGED request
    BY <1>1, <1>2, <1>3
<1>4. ASSUME NEW t \in Slots, NEW r, Moves(t, r)
      PROVE  /\ request' \in [Slots -> RequestShape]
             /\ \A u \in Slots : request'[u].pc # "idle" => request'[u].by \in Known'
    BY <1>1, <1>2, <1>4 DEF Moves
<1> QED
    BY <1>3, <1>4, RequestSteps

LEMMA TableKeepsShape ==
    ASSUME Shape, PendingNext
    PROVE  /\ starts' \in Seq(StartShape) /\ \A n \in Made' : starts'[n].by \in Known'
           /\ entries' \subseteq Made' /\ spent' \subseteq Made'
<1>1. /\ starts \in Seq(StartShape) /\ Len(starts) \in Nat /\ Len(sessions) \in Nat
      /\ \A n \in Made : starts[n].by \in Known
      /\ entries \subseteq Made /\ spent \subseteq Made
    BY DEF Shape
<1>2. Known \subseteq Known' /\ StartsGrow
    BY <1>1, StepGrows DEF Grows, SessionsGrow, Known
<1>3. ASSUME TableStays \/ \E s : Drops(s)
      PROVE  UNCHANGED starts /\ entries' \subseteq Made /\ spent' \subseteq Made
    BY <1>1, <1>3 DEF TableStays, Drops, Without, Own
<1>4. CASE TableStays \/ \E s : Drops(s)
    BY <1>1, <1>2, <1>3, <1>4 DEF Made
<1>5. CASE \E t \in Slots : Begin(t)
    <2>1. PICK t \in Slots : Begin(t)
        BY <1>5
    <2>2. PICK u \in Slots : request[u].pc = "begin" /\ starts'[Len(starts) + 1].by = request[u].by
                             /\ Len(starts') = Len(starts) + 1
        <3>1. PICK u \in Slots : request[u].pc = "begin"
                /\ starts'[Len(starts) + 1] =
                        [by |-> request[u].by, purpose |-> request[u].purpose,
                         at |-> clock, expected |-> request[u].who]
            BY <1>5, BeginGrows
        <3> QED
            BY <1>5, <3>1, BeginGrows
    <2>3. request[u].by \in Known'
        BY <1>2, <2>2 DEF Shape
    <2>4. Made' = Made \cup {Len(starts) + 1}
        BY <1>1, <2>2 DEF Made
    <2>5. entries' \subseteq Made' /\ spent' \subseteq Made'
        BY <1>1, <2>1, <2>4 DEF Begin, Placed, Purged, Without, Own
    <2> QED
        BY <1>1, <1>2, <2>2, <2>3, <2>4, <2>5 DEF StartsGrow
<1> QED
    BY <1>4, <1>5, TableSteps

LEMMA ShapeStep ==
    ASSUME Shape, \A t \in Slots : TookItsStart(t), PendingNext PROVE Shape'
<1>1. clock' \in Nat /\ sessions' \in Seq(SessionShape)
    BY StepGrows DEF Grows, SessionsGrow
<1>2. completed \in Seq(CompletedShape)
    BY DEF Shape
<1>3. completed' \in Seq(CompletedShape)
    BY <1>2, CompletedSteps, AppendsOne DEF Completes
<1> QED
    BY <1>1, <1>3, CookiesStep, RequestsKeepShape, TableKeepsShape DEF Shape
-----------------------------------------------------------------------------
(* The table is kept as it should be.                                        *)

\* What a start leaves in the table.
LEMMA PlacedAsItShould ==
    ASSUME HandshakeAssumption, Shape, TableIsOwn, NEW s
    PROVE  LET n == Len(starts) + 1
               kept == Without(Purged(entries, clock), s)
           IN  /\ kept \subseteq entries /\ n \notin kept
               /\ Placed(entries, s, n) \subseteq kept \cup {n} /\ n \in Placed(entries, s, n)
               /\ Cardinality(Placed(entries, s, n)) <= MaxPending
               /\ \A m \in kept \ Placed(entries, s, n) :
                    /\ Cardinality(kept) >= MaxPending
                    /\ \A k \in kept : m <= k
<1> DEFINE n == Len(starts) + 1
           kept == Without(Purged(entries, clock), s)
           placed == Placed(entries, s, n)
<1>1. kept \subseteq entries /\ entries \subseteq Made /\ Len(starts) \in Nat
      /\ MaxPending \in Nat \ {0} /\ Cardinality(entries) <= MaxPending
    BY DEF Without, Purged, Shape, HandshakeAssumption, TableIsOwn
<1>2. n \notin kept /\ kept \subseteq Nat /\ kept \subseteq Made
    <2>1. kept \subseteq Made
        BY <1>1
    <2> HIDE DEF kept
    <2> QED
        BY <1>1, <2>1 DEF Made
<1>3. IsFiniteSet(entries) /\ Cardinality(entries) \in Nat
    BY <1>1, PartsAreFinite
<1>4. IsFiniteSet(kept) /\ Cardinality(kept) \in Nat /\ Cardinality(kept) <= MaxPending
    BY <1>1, <1>2, <1>3, PartsAreFinite, FS_Subset
<1>5. /\ Cardinality(kept) >= MaxPending => placed = {n} \cup (kept \ {Oldest(kept)})
      /\ ~(Cardinality(kept) >= MaxPending) => placed = {n} \cup kept
    BY DEF Placed
<1> HIDE DEF n, kept, placed
<1>6. CASE Cardinality(kept) >= MaxPending
    <2>1. kept # {}
        BY <1>1, <1>6, FS_EmptySet
    <2>2. Oldest(kept) \in kept /\ \A m \in kept : Oldest(kept) <= m
        BY <1>2, <2>1, LeastOne
    <2> DEFINE rest == kept \ {Oldest(kept)}
    <2>3. IsFiniteSet(rest) /\ Cardinality(rest) = Cardinality(kept) - 1
        BY <1>4, <2>2, FS_RemoveElement
    <2>4. n \notin rest /\ placed = rest \cup {n}
        BY <1>2, <1>5, <1>6
    <2> HIDE DEF rest
    <2>5. Cardinality(placed) = Cardinality(rest) + 1
        BY <2>3, <2>4, FS_AddElement
    <2>6. Cardinality(placed) <= MaxPending
        BY <1>1, <1>4, <2>3, <2>5
    <2> QED
        BY <1>1, <1>2, <1>6, <2>2, <2>4, <2>6 DEF rest, n, kept, placed
<1>7. CASE ~(Cardinality(kept) >= MaxPending)
    <2>1. placed = kept \cup {n}
        BY <1>5, <1>7
    <2>2. Cardinality(placed) = Cardinality(kept) + 1
        BY <1>2, <1>4, <2>1, FS_AddElement
    <2>3. Cardinality(placed) <= MaxPending
        BY <1>1, <1>4, <1>7, <2>2
    <2> QED
        BY <1>1, <1>2, <2>1, <2>3 DEF n, kept, placed
<1> QED
    BY <1>6, <1>7

\* The table has one start of a session, none that is used, and no more than fit.
LEMMA TableStep ==
    ASSUME HandshakeAssumption, Shape, TableIsOwn, PendingNext, Grows PROVE TableIsOwn'
<1>1. entries \subseteq Made /\ (\A n \in Made : By(n)' = By(n)) /\ Len(starts) \in Nat
    BY StartsAreKept DEF Shape
<1>2. CASE TableStays
    BY <1>1, <1>2 DEF TableIsOwn, TableStays
<1>3. ASSUME NEW s, Drops(s) PROVE TableIsOwn'
    <2>1. entries' \subseteq entries /\ entries' \cap Own(entries, s) = {}
          /\ spent' = spent \cup Own(entries, s)
        BY <1>3 DEF Drops, Without, Own
    <2>2. IsFiniteSet(entries) /\ Cardinality(entries) \in Nat /\ Cardinality(entries) <= MaxPending
        BY <1>1, PartsAreFinite DEF TableIsOwn
    <2>3. IsFiniteSet(entries') /\ Cardinality(entries') <= Cardinality(entries)
        BY <2>1, <2>2, FS_Subset
    <2>4. Cardinality(entries') \in Nat
        BY <2>3, FS_CardinalityType
    <2>5. Cardinality(entries') <= MaxPending
        BY <2>2, <2>3, <2>4 DEF HandshakeAssumption
    <2>6. (\A m, n \in entries' : By(m)' = By(n)' => m = n) /\ entries' \cap spent' = {}
        BY <1>1, <2>1 DEF TableIsOwn
    <2> QED
        BY <2>5, <2>6 DEF TableIsOwn
<1>4. ASSUME NEW t \in Slots, Begin(t) PROVE TableIsOwn'
    <2> DEFINE s == request[t].by
               n == Len(starts) + 1
               kept == Without(Purged(entries, clock), s)
    <2>1. entries' = Placed(entries, s, n) /\ spent' = spent \cup Own(entries, s)
          /\ starts'[n].by = s
        <3>1. starts \in Seq(StartShape)
            BY DEF Shape
        <3> QED
            BY <1>4, <3>1 DEF Begin
    <2>2. entries' \subseteq kept \cup {n} /\ Cardinality(entries') <= MaxPending
          /\ kept \subseteq entries /\ n \notin kept
        BY <2>1, PlacedAsItShould
    <2>3. \A m \in kept : By(m) # s
        BY DEF Without
    <2>4. \A m \in Made : starts'[m].by = By(m) /\ By(m)' = By(m)
        BY <1>1 DEF By
    <2>5. n \notin Made /\ spent \subseteq Made
        BY <1>1 DEF Made, Shape
    <2>6. Own(entries, s) \subseteq Made /\ \A m \in Own(entries, s) : By(m) = s
        BY <1>1 DEF Own
    <2> HIDE DEF kept, n, s
    <2>7. \A m, k \in entries' : By(m)' = By(k)' => m = k
        <3>1. \A m, k \in entries' : starts'[m].by = starts'[k].by => m = k
            BY <1>1, <2>1, <2>2, <2>3, <2>4 DEF TableIsOwn
        <3> QED
            BY <3>1 DEF By
    <2>8. entries' \cap spent' = {}
        BY <2>1, <2>2, <2>3, <2>5, <2>6 DEF TableIsOwn
    <2> QED
        BY <2>2, <2>7, <2>8 DEF TableIsOwn
<1> QED
    BY <1>2, <1>3, <1>4, TableSteps

\* A start that a full table pushes out is followed by as many sessions' as it holds.
LEMMA PushedOutByOthers ==
    ASSUME HandshakeAssumption, Shape, Shape', Grows, TableIsOwn, NEW t \in Slots, Begin(t),
           NEW n \in entries, n \notin entries', n \notin spent', ~TooOld(n, clock)
    PROVE  Cardinality(Later(n)') >= MaxPending
<1> DEFINE s == request[t].by
           new == Len(starts) + 1
           kept == Without(Purged(entries, clock), s)
           after == (kept \ {n}) \cup {new}
           f == [m \in after |-> starts'[m].by]
<1>1. entries' = Placed(entries, s, new) /\ spent' = spent \cup Own(entries, s)
      /\ starts'[new].by = s /\ Len(starts') = new
    <2>1. starts \in Seq(StartShape)
        BY DEF Shape
    <2> QED
        BY <2>1 DEF Begin
<1>2. n \in kept
    BY <1>1 DEF Without, Purged, Own
<1>3. kept \subseteq entries /\ new \notin kept /\ Cardinality(kept) >= MaxPending
      /\ \A k \in kept : n <= k
    BY <1>1, <1>2, PlacedAsItShould
<1>4. entries \subseteq Made /\ (\A m \in Made : By(m)' = By(m)) /\ Len(starts) \in Nat
    BY StartsAreKept DEF Shape
<1>5. kept \subseteq Made /\ IsFiniteSet(kept) /\ Cardinality(kept) \in Nat
    BY <1>3, <1>4, PartsAreFinite
<1>6. \A m \in kept : By(m) # s
    BY DEF Without
<1>7. \A m \in kept : starts'[m].by = By(m)
    BY <1>4, <1>5 DEF By
<1> HIDE DEF kept, s, new
<1>8. IsFiniteSet(after) /\ Cardinality(after) = Cardinality(kept)
    <2>1. IsFiniteSet(kept \ {n}) /\ Cardinality(kept \ {n}) = Cardinality(kept) - 1
        BY <1>2, <1>5, FS_RemoveElement
    <2>2. new \notin kept \ {n}
        BY <1>3
    <2>3. Cardinality(after) = Cardinality(kept) - 1 + 1 /\ IsFiniteSet(after)
        BY <2>1, <2>2, FS_AddElement
    <2> QED
        BY <1>5, <2>3
<1>9. \A m \in after : m \in (n + 1) .. Len(starts')
    BY <1>1, <1>2, <1>3, <1>4, <1>5 DEF Made, new
<1>10. f \in [after -> Later(n)']
    BY <1>9 DEF Later, By
<1>15. \A x, y \in kept : By(x) = By(y) => x = y
    BY <1>3 DEF TableIsOwn
<1>16. \A x, y \in after : starts'[x].by = starts'[y].by => x = y
    BY <1>1, <1>6, <1>7, <1>15
<1>11. \A x, y \in after : f[x] = f[y] => x = y
    BY <1>16
<1>12. n \in Made' /\ Len(sessions') \in Nat /\ Len(starts') \in Nat
       /\ \A m \in Made' : By(m)' \in Known'
    BY <1>4, StartsAreKept DEF Shape, By
<1>13. IsFiniteSet(Later(n)') /\ Cardinality(Later(n)') \in Nat
    <2>1. IsFiniteSet(Known')
        BY <1>12, FS_Interval DEF Known
    <2>2. Later(n)' \subseteq Known'
        BY <1>12 DEF Later, Made
    <2> QED
        BY <2>1, <2>2, FS_Subset, FS_CardinalityType
<1> HIDE DEF f, after
<1>14. Cardinality(after) <= Cardinality(Later(n)')
    BY <1>8, <1>10, <1>11, <1>13, TellsApart
<1> QED
    BY <1>3, <1>5, <1>8, <1>13, <1>14 DEF HandshakeAssumption
\* What stands stands, and a start that goes goes for a reason.
LEMMA KeptStep ==
    ASSUME HandshakeAssumption, Shape, Shape', Grows, TableIsOwn, TableIsOwn', StartIsKept, PendingNext
    PROVE  StartIsKept'
<1> DEFINE Stands(n) == \/ n \in entries \cup spent \/ TooOld(n, clock)
                        \/ Cardinality(Later(n)) >= MaxPending
<1>0. Made = DOMAIN starts
    BY DEF Made, Shape
<1>1. \A n \in Made : Stands(n)
    BY <1>0 DEF StartIsKept, Later
<1>2. ASSUME NEW n \in Made PROVE Stands(n)'
    <2>1. TooOld(n, clock) => TooOld(n, clock)'
        BY StartsAreKept
    <2>2. Cardinality(Later(n)) >= MaxPending => Cardinality(Later(n)') >= MaxPending
        <3>1. Cardinality(Later(n)) <= Cardinality(Later(n)') /\ Cardinality(Later(n)) \in Nat
            BY LaterGrows, LaterIsFinite
        <3>2. IsFiniteSet(Later(n)') /\ Cardinality(Later(n)') \in Nat
            <4>1. n \in Made' /\ Len(sessions') \in Nat /\ \A m \in Made' : By(m)' \in Known'
                BY StartsAreKept DEF Shape, By
            <4>2. IsFiniteSet(Known')
                BY <4>1, FS_Interval DEF Known
            <4>3. Later(n)' \subseteq Known'
                BY <4>1 DEF Later, Made, Shape
            <4> QED
                BY <4>2, <4>3, FS_Subset, FS_CardinalityType
        <3> QED
            BY <3>1, <3>2 DEF HandshakeAssumption
    <2>3. n \in spent => n \in spent'
        BY DEF Grows
    <2>4. CASE n \notin entries
        BY <1>1, <2>1, <2>2, <2>3, <2>4
    <2>5. CASE n \in entries
        <3>1. CASE TableStays
            BY <2>5, <3>1 DEF TableStays
        <3>2. CASE \E s : Drops(s)
            BY <2>1, <2>5, <3>2 DEF Drops
        <3>3. ASSUME NEW t \in Slots, Begin(t) PROVE Stands(n)'
            BY <2>1, <2>5, <3>3, PushedOutByOthers
        <3> QED
            BY <3>1, <3>2, <3>3, TableSteps
    <2> QED
        BY <2>4, <2>5
<1>3. ASSUME NEW n \in Made', n \notin Made PROVE n \in entries'
    <2>1. Len(starts) \in Nat /\ ~UNCHANGED starts
        BY <1>3 DEF Shape, Made
    <2>2. PICK t \in Slots : Begin(t)
        BY <2>1, TableSteps DEF TableStays, Drops
    <2>3. Len(starts') = Len(starts) + 1
        BY <2>2, BeginGrows
    <2>4. n = Len(starts) + 1
        BY <1>3, <2>1, <2>3 DEF Made
    <2> QED
        BY <2>2, <2>4, PlacedAsItShould DEF Begin
<1>4. \A n \in Made' : Stands(n)'
    BY <1>2, <1>3
<1>5. Made' = DOMAIN starts'
    BY DEF Made, Shape
<1> QED
    BY <1>4, <1>5 DEF StartIsKept, Later, TableIsOwn
-----------------------------------------------------------------------------
(* What was asked for, and what came of it.                                  *)

\* A deletion stays asked for by the account of its session.
LEMMA AsksStep ==
    ASSUME Shape, Shape', Grows, AsksForItsOwn, PendingNext PROVE AsksForItsOwn'
<1>1. \A s \in Known : sessions'[s].who = sessions[s].who
    BY DEF Grows, SessionsGrow
<1>2. \A t \in Slots : request[t].pc # "idle" => request[t].by \in Known
    BY DEF Shape
<1>3. ASSUME NEW n \in Made', starts'[n].purpose = "delete_account"
      PROVE  starts'[n].expected = sessions'[starts'[n].by].who
    <2>1. CASE n \in Made
        <3>1. starts'[n] = starts[n] /\ starts[n].by \in Known
            BY <2>1 DEF Grows, StartsGrow, Shape
        <3> QED
            BY <1>1, <1>3, <2>1, <3>1 DEF AsksForItsOwn, By
    <2>2. CASE n \notin Made
        <3>1. Len(starts) \in Nat /\ ~UNCHANGED starts
            BY <1>3, <2>2 DEF Shape, Made
        <3>2. \E t \in Slots : Begin(t)
            BY <3>1, TableSteps DEF TableStays, Drops
        <3>3. PICK t \in Slots :
                /\ request[t].pc = "begin"
                /\ starts'[Len(starts) + 1] =
                        [by |-> request[t].by, purpose |-> request[t].purpose,
                         at |-> clock, expected |-> request[t].who]
            BY <3>2, BeginGrows
        <3>4. n = Len(starts) + 1
            BY <2>2, <3>1, <3>2, BeginGrows DEF Made
        <3> QED
            BY <1>1, <1>2, <1>3, <3>3, <3>4 DEF AsksForItsOwn
    <2> QED
        BY <2>1, <2>2
<1>4. ASSUME NEW u \in Slots, request'[u].pc = "begin", request'[u].purpose = "delete_account"
      PROVE  request'[u].who = sessions'[request'[u].by].who
    <2>1. CASE request'[u] = request[u]
        BY <1>1, <1>2, <1>4, <2>1 DEF AsksForItsOwn
    <2>2. ASSUME NEW r, Moves(u, r) PROVE request'[u].who = sessions'[request'[u].by].who
        <3>1. request'[u] = r /\ r.by \in Known
            BY <1>4, <2>2 DEF Moves, Shape
        <3>2. r.who = sessions[r.by].who
            BY <1>4, <2>2, <3>1 DEF Moves, HoldsWhatItTook, ReturnPcs
        <3> QED
            BY <1>1, <3>1, <3>2
    <2>3. request'[u] = request[u] \/ \E r : Moves(u, r)
        BY RequestSteps DEF Moves, Shape
    <2> QED
        BY <2>1, <2>2, <2>3
<1> QED
    BY <1>3, <1>4 DEF AsksForItsOwn, By

\* What a callback has after the step, and where it has it from.
LEMMA ReturnComesFrom ==
    ASSUME Shape, PendingNext, NEW u \in Slots, Returns(u)'
    PROVE  \/ /\ Returns(u)
              /\ request'[u].url = request[u].url /\ request'[u].by = request[u].by
              /\ request'[u].at = request[u].at
           \/ /\ request'[u].url \in entries /\ By(request'[u].url) = request'[u].by
              /\ ~TooOld(request'[u].url, request'[u].at) /\ request'[u].url \in spent'
              /\ \A v \in Slots : v # u => request'[v] = request[v]
<1>1. request \in [Slots -> RequestShape]
    BY DEF Shape
<1>2. CASE request'[u] = request[u]
    BY <1>2 DEF Returns
<1>3. ASSUME NEW r, Moves(u, r)
      PROVE  \/ /\ Returns(u)
                /\ request'[u].url = request[u].url /\ request'[u].by = request[u].by
                /\ request'[u].at = request[u].at
             \/ /\ request'[u].url \in entries /\ By(request'[u].url) = request'[u].by
                /\ ~TooOld(request'[u].url, request'[u].at) /\ request'[u].url \in spent'
                /\ \A v \in Slots : v # u => request'[v] = request[v]
    <2>1. request'[u] = r /\ \A v \in Slots : v # u => request'[v] = request[v]
        BY <1>1, <1>3 DEF Moves
    <2>2. r.pc \in ReturnPcs
        BY <2>1 DEF Returns
    <2> QED
        BY <1>3, <2>1, <2>2 DEF Moves, HoldsWhatItTook, ReturnPcs, Own
<1>4. request'[u] = request[u] \/ \E r : Moves(u, r)
    BY RequestSteps DEF Moves, Shape
<1> QED
    BY <1>2, <1>3, <1>4

\* A callback under way still has what it took.
LEMMA TookStep ==
    ASSUME Shape, Shape', Grows, TableIsOwn, \A t \in Slots : TookItsStart(t), NoTwoReturn, UsedUp,
           PendingNext, NEW u \in Slots
    PROVE  TookItsStart(u)'
<1> SUFFICES ASSUME Returns(u)'
             PROVE /\ request'[u].url \in spent'
                   /\ starts'[request'[u].url].by = request'[u].by
                   /\ ~(request'[u].at - starts'[request'[u].url].at > TTL)
                   /\ \A i \in DOMAIN completed' : completed'[i].url # request'[u].url
    BY DEF TookItsStart, By, TooOld
<1> DEFINE url == request'[u].url
<1>1. spent \subseteq Made /\ entries \subseteq Made /\ spent \subseteq spent'
      /\ completed \in Seq(CompletedShape) /\ request \in [Slots -> RequestShape]
    BY DEF Shape, Grows
<1>2. \A n \in Made : starts'[n] = starts[n]
    BY DEF Grows, StartsGrow
<1>3. \/ Returns(u) /\ url = request[u].url /\ request'[u].by = request[u].by
         /\ request'[u].at = request[u].at
      \/ /\ url \in entries /\ By(url) = request'[u].by /\ ~TooOld(url, request'[u].at)
         /\ url \in spent' /\ \A v \in Slots : v # u => request'[v] = request[v]
    BY ReturnComesFrom
<1>4. url \in Made /\ url \in spent' /\ By(url) = request'[u].by /\ ~TooOld(url, request'[u].at)
    BY <1>1, <1>3 DEF TookItsStart
<1>5. \A i \in DOMAIN completed : completed[i].url # url
    <2>1. CASE Returns(u) /\ url = request[u].url
        BY <2>1 DEF TookItsStart
    <2>2. CASE url \in entries
        BY <2>2 DEF TableIsOwn, UsedUp
    <2> QED
        BY <1>3, <2>1, <2>2
<1>6. ASSUME NEW t \in Slots, Completes(t)
      PROVE  \A i \in DOMAIN completed' : completed'[i].url # url
    <2>1. PICK c \in CompletedShape : completed' = Append(completed, c) /\ c.url = request[t].url
        BY <1>6 DEF Completes
    <2>2. Returns(t) /\ request'[t].pc = "idle" /\ t # u
        BY <1>1, <1>6, IdleShape DEF Completes, Returns, ReturnPcs
    <2>3. request[t].url # url
        <3>1. CASE Returns(u) /\ url = request[u].url
            BY <2>2, <3>1 DEF NoTwoReturn
        <3>2. CASE url \in entries
            BY <2>2, <3>2 DEF TookItsStart, TableIsOwn
        <3> QED
            BY <1>3, <3>1, <3>2
    <2>4. \A i \in DOMAIN completed' : \/ i \in DOMAIN completed /\ completed'[i] = completed[i]
                                       \/ completed'[i] = c
        BY <1>1, <2>1
    <2> QED
        BY <1>5, <2>1, <2>3, <2>4
<1> HIDE DEF url
<1>7. \A i \in DOMAIN completed' : completed'[i].url # url
    BY <1>5, <1>6, CompletedSteps
<1> QED
    BY <1>2, <1>4, <1>7 DEF By, TooOld, url
\* No two callbacks have the same start.
LEMMA NoTwoStep ==
    ASSUME Shape, Grows, TableIsOwn, \A t \in Slots : TookItsStart(t), NoTwoReturn, PendingNext
    PROVE  NoTwoReturn'
<1> SUFFICES ASSUME NEW t \in Slots, NEW u \in Slots, Returns(t)', Returns(u)',
                    request'[t].url = request'[u].url
             PROVE  t = u
    BY DEF NoTwoReturn
<1> DEFINE Had(v) == Returns(v) /\ request'[v].url = request[v].url
           Took(v) == /\ request'[v].url \in entries
                      /\ \A w \in Slots : w # v => request'[w] = request[w]
<1>1. (Had(t) \/ Took(t)) /\ (Had(u) \/ Took(u))
    BY ReturnComesFrom
<1>2. \A v \in {t, u} : Had(v) => request'[v].url \in spent
    BY DEF TookItsStart
<1>3. CASE Had(t) /\ Had(u)
    BY <1>3 DEF NoTwoReturn
<1>4. CASE (Had(t) /\ Took(u)) \/ (Had(u) /\ Took(t))
    BY <1>2, <1>4 DEF TableIsOwn
<1>5. CASE Took(t) /\ Took(u)
    <2> SUFFICES ASSUME t # u PROVE FALSE
        OBVIOUS
    <2>1. Returns(t) /\ request'[t].url = request[t].url
        BY <1>5 DEF Returns
    <2>2. request'[t].url \in spent
        BY <2>1 DEF TookItsStart
    <2> QED
        BY <1>5, <2>2 DEF TableIsOwn
<1> QED
    BY <1>1, <1>3, <1>4, <1>5, Zenon

\* What went through is used up.
LEMMA UsedStep ==
    ASSUME Shape, Shape', Grows, \A t \in Slots : TookItsStart(t), UsedUp, PendingNext
    PROVE  UsedUp'
<1>1. completed \in Seq(CompletedShape) /\ spent \subseteq spent' /\ Len(sessions) \in Nat
      /\ Len(sessions') \in Nat /\ Len(sessions) <= Len(sessions')
      /\ \A s \in Known : sessions[s].state = "revoked" => sessions'[s].state = "revoked"
    BY DEF Shape, Grows, SessionsGrow
<1>2. Known \subseteq Known'
    BY <1>1 DEF Known
<1>3. \A i \in DOMAIN completed :
          /\ completed[i].url \in spent'
          /\ completed[i].by \in Known' /\ sessions'[completed[i].by].state = "revoked"
    BY <1>1, <1>2 DEF UsedUp
<1>4. ASSUME NEW t \in Slots, Completes(t) PROVE UsedUp'
    <2>1. PICK c \in CompletedShape : /\ completed' = Append(completed, c)
                                      /\ c.url = request[t].url /\ c.by = request[t].by
        BY <1>4 DEF Completes
    <2>2. request[t].url \in spent /\ request[t].by \in Known
          /\ sessions'[request[t].by].state = "revoked"
        BY <1>4 DEF Completes, TookItsStart, Returns, ReturnPcs, Shape
    <2>3. \A i \in DOMAIN completed' : \/ i \in DOMAIN completed /\ completed'[i] = completed[i]
                                       \/ completed'[i] = c
        BY <1>1, <2>1
    <2> QED
        BY <1>1, <1>2, <1>3, <2>1, <2>2, <2>3 DEF UsedUp
<1> QED
    BY <1>3, <1>4, CompletedSteps DEF UsedUp

\* What SignInIsItsOwn says of one sign-in.
IsItsOwn(c) ==
    /\ c.by = By(c.url) /\ ~TooOld(c.url, c.at) /\ c.was # "revoked"
    /\ c.page = "delete" =>
         starts[c.url].purpose = "delete_account" /\ sessions[c.by].who = c.who

\* It stays so.
LEMMA OwnStaysOwn ==
    ASSUME Shape, Grows, NEW c, c.url \in Made, c.by \in Known, IsItsOwn(c)
    PROVE  /\ c.by = starts'[c.url].by /\ ~(c.at - starts'[c.url].at > TTL) /\ c.was # "revoked"
           /\ c.page = "delete" =>
                starts'[c.url].purpose = "delete_account" /\ sessions'[c.by].who = c.who
<1>1. starts'[c.url] = starts[c.url] /\ sessions'[c.by].who = sessions[c.by].who
    BY DEF Grows, StartsGrow, SessionsGrow
<1> QED
    BY <1>1 DEF IsItsOwn, By, TooOld

\* A sign-in that goes through is its own.
LEMMA OwnStep ==
    ASSUME Shape, Shape', Grows, AsksForItsOwn, \A t \in Slots : TookItsStart(t), UsedUp,
           SignInIsItsOwn, PendingNext
    PROVE  SignInIsItsOwn'
<1>1. completed \in Seq(CompletedShape) /\ spent \subseteq Made
    BY DEF Shape
<1>2. \A i \in DOMAIN completed :
          completed[i].url \in Made /\ completed[i].by \in Known /\ IsItsOwn(completed[i])
    BY <1>1 DEF UsedUp, SignInIsItsOwn, IsItsOwn
<1> DEFINE Fine(c) ==
               /\ c.by = starts'[c.url].by /\ ~(c.at - starts'[c.url].at > TTL) /\ c.was # "revoked"
               /\ c.page = "delete" =>
                    starts'[c.url].purpose = "delete_account" /\ sessions'[c.by].who = c.who
           Apart(q) == \A i, j \in DOMAIN q : i # j => q[i].url # q[j].url /\ q[i].by # q[j].by
<1>3. (\A i \in DOMAIN completed : Fine(completed[i])) /\ Apart(completed)
    BY <1>2, OwnStaysOwn DEF SignInIsItsOwn
<1>4. ASSUME NEW t \in Slots, Completes(t)
      PROVE  (\A i \in DOMAIN completed' : Fine(completed'[i])) /\ Apart(completed')
    <2>1. PICK c \in CompletedShape :
            /\ completed' = Append(completed, c)
            /\ c.url = request[t].url /\ c.by = request[t].by /\ c.at = request[t].at
            /\ c.was = sessions[request[t].by].state /\ c.was # "revoked"
            /\ c.page = "delete" =>
                starts[c.url].purpose = "delete_account" /\ c.who = starts[c.url].expected
        BY <1>4 DEF Completes
    <2>2. /\ request[t].url \in spent /\ By(request[t].url) = request[t].by
          /\ ~TooOld(request[t].url, request[t].at)
          /\ \A i \in DOMAIN completed : completed[i].url # request[t].url
        BY <1>4 DEF Completes, TookItsStart, Returns, ReturnPcs
    <2>3. c.url \in Made /\ c.by \in Known
        BY <1>1, <1>4, <2>1, <2>2 DEF Completes, Shape
    <2>4. c.page = "delete" => sessions[c.by].who = c.who
        BY <2>1, <2>2, <2>3 DEF AsksForItsOwn
    <2>5. IsItsOwn(c)
        BY <2>1, <2>2, <2>4 DEF IsItsOwn
    <2>6. Fine(c)
        BY <2>3, <2>5, OwnStaysOwn
    <2>7. \A i \in DOMAIN completed : completed[i].url # c.url /\ completed[i].by # c.by
        BY <2>1, <2>2 DEF UsedUp
    <2> HIDE DEF Fine
    <2>8. DOMAIN completed' = DOMAIN completed \cup {Len(completed) + 1}
          /\ Len(completed) + 1 \notin DOMAIN completed
          /\ completed'[Len(completed) + 1] = c
          /\ \A i \in DOMAIN completed : completed'[i] = completed[i]
        BY <1>1, <2>1
    <2>9. \A i \in DOMAIN completed' : Fine(completed'[i])
        BY <1>3, <2>6, <2>8
    <2>10. Apart(completed')
        BY <1>3, <2>7, <2>8
    <2> QED
        BY <2>9, <2>10
<1>5. (\A i \in DOMAIN completed' : Fine(completed'[i])) /\ Apart(completed')
    BY <1>3, <1>4, CompletedSteps
<1> QED
    BY <1>5 DEF SignInIsItsOwn, By, TooOld
-----------------------------------------------------------------------------
(* The invariant.                                                            *)

\* The invariant holds at the start and is kept.
LEMMA HandshakeStarts == ASSUME HandshakeAssumption, PendingInit PROVE HandshakeInv
<1>1. Cardinality(Browsers) \in Nat /\ MaxPending \in Nat
    BY FS_CardinalityType DEF HandshakeAssumption
<1>2. sessions \in Seq(SessionShape) /\ Len(sessions) = Cardinality(Browsers)
    <2>1. sessions \in [1 .. Cardinality(Browsers) -> SessionShape]
        BY DEF PendingInit, SessionShape, States, Names
    <2> QED
        BY <1>1, <2>1
<1>3. cookie \in [Browsers -> Known]
    BY <1>2 DEF PendingInit, Known
<1>4. Idle \in RequestShape /\ Idle.pc = "idle"
    BY IdleShape
<1>5. request = [t \in Slots |-> Idle] /\ starts = <<>> /\ entries = {} /\ spent = {} /\ completed = <<>>
      /\ clock = 0
    BY DEF PendingInit
<1>6. request \in [Slots -> RequestShape] /\ \A t \in Slots : request[t].pc = "idle"
    BY <1>4, <1>5
<1>7. Shape
    BY <1>2, <1>3, <1>5, <1>6 DEF Shape, Made
<1>8. Cardinality(entries) <= MaxPending
    BY <1>1, <1>5, FS_EmptySet
<1>9. TableIsOwn /\ AsksForItsOwn /\ StartIsKept
    BY <1>5, <1>6, <1>8 DEF TableIsOwn, AsksForItsOwn, StartIsKept, Made
<1>10. (\A t \in Slots : TookItsStart(t)) /\ NoTwoReturn
    BY <1>6 DEF TookItsStart, NoTwoReturn, Returns, ReturnPcs
<1>11. UsedUp /\ SignInIsItsOwn
    BY <1>5 DEF UsedUp, SignInIsItsOwn
<1> QED
    BY <1>7, <1>9, <1>10, <1>11 DEF HandshakeInv

LEMMA HandshakeSteps ==
    ASSUME HandshakeAssumption, HandshakeInv, [PendingNext]_pendingVars PROVE HandshakeInv'
<1>1. CASE PendingNext
    <2>1. Shape /\ TableIsOwn /\ AsksForItsOwn /\ (\A t \in Slots : TookItsStart(t))
          /\ NoTwoReturn /\ UsedUp /\ SignInIsItsOwn /\ StartIsKept
        BY DEF HandshakeInv
    <2>2. Grows /\ Shape'
        BY <1>1, <2>1, StepGrows, ShapeStep
    <2>3. TableIsOwn' /\ AsksForItsOwn'
        BY <1>1, <2>1, <2>2, TableStep, AsksStep
    <2>4. StartIsKept'
        BY <1>1, <2>1, <2>2, <2>3, KeptStep
    <2>5. (\A t \in Slots : TookItsStart(t)') /\ NoTwoReturn'
        BY <1>1, <2>1, <2>2, TookStep, NoTwoStep
    <2>6. UsedUp' /\ SignInIsItsOwn'
        BY <1>1, <2>1, <2>2, UsedStep, OwnStep
    <2> QED
        BY <2>2, <2>3, <2>4, <2>5, <2>6 DEF HandshakeInv
<1>2. CASE UNCHANGED pendingVars
    BY <1>2 DEF pendingVars, HandshakeInv, Shape, TableIsOwn, AsksForItsOwn, TookItsStart, NoTwoReturn,
                UsedUp, SignInIsItsOwn, StartIsKept, Returns, By, TooOld, Known, Made
<1> QED
    BY <1>1, <1>2

\* Sessions, starts, the table and the callbacks under way fit together in every state: the
\* invariant the promise rests on.
THEOREM HandshakeInvariant == ASSUME HandshakeAssumption PROVE PendingSpec => []HandshakeInv
<1>1. PendingInit => HandshakeInv
    BY HandshakeStarts
<1>2. HandshakeInv /\ [PendingNext]_pendingVars => HandshakeInv'
    BY HandshakeSteps
<1> QED
    BY <1>1, <1>2, PTL DEF PendingSpec

\* A sign-in that was started completes at most once, in time, for the session that
\* started it and the account whose deletion was asked for; and a start is lost only to its
\* session, its time or the later starts of as many other sessions as the table holds.
THEOREM SignInsAreTheirOwn ==
    ASSUME HandshakeAssumption PROVE PendingSpec => []StartedSignInIsItsOwn
<1>1. PendingSpec => []HandshakeInv
    BY HandshakeInvariant
<1>2. HandshakeInv => StartedSignInIsItsOwn
    BY DEF HandshakeInv, StartedSignInIsItsOwn
<1> QED
    BY <1>1, <1>2, PTL
=============================================================================
