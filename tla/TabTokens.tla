------------------------------ MODULE TabTokens ------------------------------
(***************************************************************************)
(* How the open tabs of one browser share an anti-forgery token (app.js).  *)
(* Every answer of /v1/session retires the token before it, so a tab that  *)
(* renews passes its token on.  A renewal takes the browser's lock and the *)
(* next number of a stored counter, asks the server once, and posts token  *)
(* and number to the other tabs.                                           *)
(***************************************************************************)
EXTENDS Naturals

CONSTANTS
    Tabs,
    Renewals,       \* calls of renewSessionToken: a page's boot, and its retries
    TabOf,          \* the tab that makes each of them
    People,         \* the accounts of the cookie, and "anonymous"
    MaxSwitches,    \* bound on sign-ins and sign-outs
    MaxClears       \* bound on clearings of the browser's storage

VARIABLES
    owner,      \* who the cookie's session belongs to
    issued,     \* tokens the server issued: the newest is the one it takes
    counter,    \* the stored counter
    gens,       \* generations of it begun
    switches,
    messages,   \* posts on their way
    open,       \* the loaded pages
    tab,        \* each page's state
    pc,         \* where each renewal is
    number,     \* the number each took
    answer      \* the token it was answered with

vars == <<owner, issued, counter, gens, switches, messages, open, tab, pc, number, answer>>
server == <<owner, issued, switches>>
storage == <<counter, gens>>

None == [gen |-> 0, seq |-> 0]
Unknown == ""                   \* an identity the server did not name
Blank == [n |-> 0, who |-> Unknown]     \* no token, or a cleared one
NotYet == "null"                \* pageIdentity before the first answer

TabAssumption == TabOf \in [Renewals -> Tabs] /\ {Unknown, NotYet} \cap People = {}

FreshTab(d) ==
    [csrf |-> Blank, gen |-> 0, seq |-> 0, sharingOff |-> FALSE, renewing |-> FALSE,
     drawn |-> d, page |-> NotYet, changed |-> FALSE, mismatch |-> FALSE, connected |-> FALSE]

Inside(r) == pc[r] \in {"counting", "locked"}
Of(t) == {r \in Renewals : TabOf[r] = t}

Init ==
    /\ owner \in People /\ issued = 0 /\ switches = 0
    /\ counter = None /\ gens = 0
    /\ messages = {} /\ open = {} /\ tab = [t \in Tabs |-> FreshTab(Unknown)]
    /\ pc = [r \in Renewals |-> "new"]
    /\ number = [r \in Renewals |-> None] /\ answer = [r \in Renewals |-> Blank]
----------------------------------------------------------------------------
(* The browser and the person.                                              *)

\* A page is drawn for the cookie's owner, who may be unknown to it, and boots:
\* its channel is open before it renews.
Load(r) ==
    /\ pc[r] = "new" /\ TabOf[r] \notin open
    /\ open' = open \cup {TabOf[r]}
    /\ \E d \in {owner, Unknown} : tab' = [tab EXCEPT ![TabOf[r]] = FreshTab(d)]
    /\ pc' = [pc EXCEPT ![r] = "waits"]
    /\ UNCHANGED <<server, storage, messages, number, answer>>

\* A page closed or reloaded takes its renewals and its lock along.
Close(t) ==
    /\ t \in open
    /\ open' = open \ {t} /\ tab' = [tab EXCEPT ![t] = FreshTab(Unknown)]
    /\ pc' = [r \in Renewals |-> IF r \in Of(t) /\ pc[r] # "new" THEN "done" ELSE pc[r]]
    /\ number' = [r \in Renewals |-> IF r \in Of(t) THEN None ELSE number[r]]
    /\ answer' = [r \in Renewals |-> IF r \in Of(t) THEN Blank ELSE answer[r]]
    /\ messages' = {m \in messages : m.to # t}
    /\ UNCHANGED <<server, storage>>

\* Somebody signs in or out: the cookie belongs to another.
Switch ==
    /\ switches < MaxSwitches
    /\ owner' \in People \ {owner} /\ switches' = switches + 1
    /\ UNCHANGED <<issued, storage, messages, open, tab, pc, number, answer>>

ClearStorage ==
    /\ counter # None /\ gens <= MaxClears
    /\ counter' = None
    /\ UNCHANGED <<server, gens, messages, open, tab, pc, number, answer>>
----------------------------------------------------------------------------
(* renewSessionToken.                                                       *)

\* retrySession, which two clicks begin twice.
Retry(r) ==
    /\ pc[r] = "new" /\ TabOf[r] \in open
    /\ pc' = [pc EXCEPT ![r] = "waits"]
    /\ UNCHANGED <<server, storage, messages, open, tab, number, answer>>

LockGranted(r) == pc[r] = "waits" /\ ~\E q \in Renewals : Inside(q)

\* renewLocked begins.
Enter(r) ==
    /\ LockGranted(r)
    /\ pc' = [pc EXCEPT ![r] = "counting"]
    /\ tab' = [tab EXCEPT ![TabOf[r]].renewing = TRUE]
    /\ UNCHANGED <<server, storage, messages, open, number, answer>>

\* renewAlone: the lock was refused, or waited for too long.
GoAlone(r) ==
    /\ pc[r] = "waits"
    /\ pc' = [pc EXCEPT ![r] = "alone"]
    /\ tab' = [tab EXCEPT ![TabOf[r]].sharingOff = TRUE]
    /\ UNCHANGED <<server, storage, messages, open, number, answer>>

NextNumber ==
    IF counter = None THEN [gen |-> gens + 1, seq |-> 1]
                      ELSE [counter EXCEPT !.seq = @ + 1]

\* takeTokenNumber: one transaction.  It may fail, or commit after the wait for
\* it ended; either way the tab stops sharing.
TakeNumber(r) ==
    LET t == TabOf[r]
    IN /\ pc[r] = "counting"
       /\ \/ /\ ~tab[t].sharingOff
             /\ \E taken \in {NextNumber, None} :
                 /\ number' = [number EXCEPT ![r] = taken]
                 /\ tab' = [tab EXCEPT ![t].sharingOff = (taken = None)]
             /\ counter' = NextNumber /\ gens' = NextNumber.gen
          \/ /\ tab' = [tab EXCEPT ![t].sharingOff = TRUE]
             /\ UNCHANGED <<storage, number>>
       /\ pc' = [pc EXCEPT ![r] = "locked"]
       /\ UNCHANGED <<server, messages, open, answer>>

\* GET /v1/session: the server retires its token and names the session's
\* identity, unless it cannot tell.
Serve(r) ==
    /\ pc[r] \in {"locked", "alone"} /\ answer[r] = Blank
    /\ issued' = issued + 1
    /\ \E who \in {owner, Unknown} : answer' = [answer EXCEPT ![r] = [n |-> issued', who |-> who]]
    /\ UNCHANGED <<owner, switches, storage, messages, open, tab, pc, number>>

\* keepRenewedToken: an answer for another than the page was drawn for clears
\* the token, now and for the rest of the page load.
Kept(p, token) ==
    LET other == p.drawn # Unknown /\ token.who \notin {Unknown, p.drawn}
    IN [p EXCEPT !.mismatch = @ \/ other,
                 !.changed = @ \/ other,
                 !.csrf = IF p.mismatch \/ other THEN Blank ELSE token]

\* initSession: the first identity is the page's, another later one is noted.
Identified(p, who) ==
    IF p.page = NotYet
    THEN [p EXCEPT !.page = who, !.connected = TRUE]
    ELSE [p EXCEPT !.changed = @ \/ who = Unknown \/ who # p.page, !.connected = TRUE]

Numbered(p, n) == [p EXCEPT !.gen = n.gen, !.seq = n.seq]

\* The post, under the identity the answer names.
Posts(r) ==
    {[to |-> t, token |-> answer[r], gen |-> number[r].gen, seq |-> number[r].seq] :
        t \in open \ {TabOf[r]}}

Ends(r) ==
    /\ pc' = [pc EXCEPT ![r] = "done"]
    /\ number' = [number EXCEPT ![r] = None] /\ answer' = [answer EXCEPT ![r] = Blank]

\* The answer is kept, and posted by a tab that still shares.
Keep(r) ==
    LET t == TabOf[r]
        who == answer[r].who
        kept == Identified(Kept(tab[t], answer[r]), who)
        shares == pc[r] = "locked" /\ ~tab[t].sharingOff
    IN /\ pc[r] \in {"locked", "alone"} /\ answer[r] # Blank
       /\ tab' = [tab EXCEPT ![t] =
             IF pc[r] = "alone" THEN kept
             ELSE [(IF shares THEN Numbered(kept, number[r]) ELSE kept) EXCEPT !.renewing = FALSE]]
       /\ messages' = messages \cup (IF shares /\ who # Unknown THEN Posts(r) ELSE {})
       /\ Ends(r)
       /\ UNCHANGED <<server, storage, open>>

\* The request or its answer is lost.
Fail(r) ==
    LET t == TabOf[r]
    IN /\ pc[r] \in {"locked", "alone"}
       /\ tab' = [tab EXCEPT ![t].connected = FALSE,
                             ![t].renewing = IF pc[r] = "locked" THEN FALSE ELSE @]
       /\ Ends(r)
       /\ UNCHANGED <<server, storage, messages, open>>

\* Mutant: any later number is taken for newer, whatever counter it is from.
AcceptAnyGeneration(m, p) ==
    /\ m.token.who = p.page /\ ~p.changed /\ ~p.mismatch
    /\ ~p.sharingOff /\ ~p.renewing
    /\ m.seq > p.seq

\* Mutant: a token is taken whoever it was issued to.
AcceptFromAnyone(m, p) ==
    ~p.mismatch /\ ~p.sharingOff /\ ~p.renewing /\ m.gen = p.gen /\ m.seq > p.seq

\* acceptSharedToken
Accepts(m, p) ==
    /\ m.token.who = p.page /\ ~p.changed /\ ~p.mismatch
    /\ ~p.sharingOff /\ ~p.renewing
    /\ m.gen = p.gen /\ m.seq > p.seq

Deliver(m) ==
    /\ m \in messages
    /\ messages' = messages \ {m}
    /\ tab' = IF Accepts(m, tab[m.to])
              THEN [tab EXCEPT ![m.to].csrf = m.token, ![m.to].seq = m.seq]
              ELSE tab
    /\ UNCHANGED <<server, storage, open, pc, number, answer>>
----------------------------------------------------------------------------
TabNext ==
    \/ Switch \/ ClearStorage
    \/ \E t \in Tabs : Close(t)
    \/ \E r \in Renewals :
        Load(r) \/ Retry(r) \/ Enter(r) \/ GoAlone(r) \/ TakeNumber(r) \/ Serve(r) \/ Keep(r) \/ Fail(r)
    \/ \E m \in messages : Deliver(m)

TabSpec == Init /\ [][TabNext]_vars
----------------------------------------------------------------------------
\* Tabs of one person that share, once nothing is on its way.
TabsAgree ==
    LET Shares(t) == /\ t \in open /\ tab[t].connected /\ ~tab[t].sharingOff
                     /\ ~tab[t].changed /\ ~tab[t].mismatch /\ tab[t].page # Unknown
        Alike(t, u) == tab[t].page = tab[u].page /\ tab[t].gen = tab[u].gen
    IN (messages = {} /\ \A r \in Renewals : pc[r] \in {"new", "done"}) =>
           \A t, u \in Tabs : (Shares(t) /\ Shares(u) /\ Alike(t, u)) => tab[t].csrf = tab[u].csrf

NeverBack ==
    \A t \in open \cap open' :
        (~tab[t].sharingOff /\ tab'[t].csrf # Blank) => tab'[t].csrf.n >= tab[t].csrf.n

\* Tabs that share never lose the newest token they were told of: none goes back
\* to an older one, in whatever order the posts arrive and whichever renewals
\* fail between, and once nothing is on its way, tabs of one person and one
\* counter hold the same token.
NewestTokenWins == [](TabsAgree) /\ [][NeverBack]_vars

\* A page drawn for one person never holds a token issued to another, whoever
\* signed in or out behind it and whatever its neighbours post (keepRenewedToken,
\* acceptSharedToken).
NoTokenOfAnother ==
    \A t \in open :
        (tab[t].drawn # Unknown /\ tab[t].csrf # Blank) =>
            tab[t].csrf.who \in {tab[t].drawn, Unknown}
=============================================================================
