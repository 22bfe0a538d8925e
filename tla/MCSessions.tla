----------------------------- MODULE MCSessions -----------------------------
(***************************************************************************)
(* Small instances of how sessions end, in four scenarios, and of the      *)
(* handshake that replaces a session by a signed-in one.  They share no    *)
(* state: each behaviour exercises one of them and the other rests.        *)
(***************************************************************************)
EXTENDS Sessions, TLC

CONSTANTS t1, t2, s1, s2, s3, s4

VARIABLES
    part,               \* what this behaviour exercises
    hour, browserSessions, cookie, starts, entries, request, completed, spent

\* Two browsers signed in to one account, and a process that may restart.
Endings == [held |-> {s1, s2}, drawn |-> {s3}, kinds |-> {},
            asked |-> {"request", "sign_out", "everywhere", "sign_in"},
            end |-> 1, faults |-> 0, restarts |-> 1]

Deletions == [held |-> {s1, s2}, drawn |-> {s3}, kinds |-> {},
              asked |-> {"delete", "sign_in"},
              end |-> 1, faults |-> 0, restarts |-> 1]

\* The operator's command beside the app.
Operator == [held |-> {s1, s2}, drawn |-> {}, kinds |-> {},
             asked |-> {"request", "everywhere", "delete", "operator"},
             end |-> 1, faults |-> 0, restarts |-> 1]

\* One browser, a visitor who may sign in, a store that may fail, and time for
\* a session to reach its maximum age.
Faults == [held |-> {s3}, drawn |-> {s4}, kinds |-> {"anonymous", "sign_in_only"},
           asked |-> {"delete", "sign_in"}, end |-> 2, faults |-> 1, restarts |-> 0]

TheScenarios == {Endings, Deletions, Operator, Faults}

Symmetry == Permutations({t1, t2}) \cup Permutations({s1, s2})

-----------------------------------------------------------------------------
\* One browser with two requests at a time, two starts of which one has a place.
Handshake == INSTANCE PendingSignIns WITH
    Browsers <- {"b"}, People <- {"ann", "bob"}, MaxThreads <- 2, TTL <- 1, MaxPending <- 1,
    MaxClock <- 2, MaxStarts <- 2, MaxSessions <- 2, clock <- hour, sessions <- browserSessions

ASSUME HandshakeInstance == Handshake!HandshakeAssumption

handshakeVars == <<hour, browserSessions, cookie, starts, entries, request, completed, spent>>

HandshakeRests ==
    /\ hour = 0 /\ browserSessions = 0 /\ cookie = 0 /\ starts = 0 /\ entries = 0
    /\ request = 0 /\ completed = 0 /\ spent = 0

\* People are alike: whoever the browser starts as is called ann, the other is met at Google.
HandshakeInit ==
    /\ Handshake!PendingInit
    /\ \A s \in DOMAIN browserSessions : browserSessions[s].who # "bob"

SessionsInit ==
    /\ part \in {"endings", "handshake"} /\ Init
    /\ IF part = "handshake" THEN scenario = Deletions /\ HandshakeInit ELSE HandshakeRests

EndingsPart == part = "endings" /\ Next /\ UNCHANGED <<part, handshakeVars>>
HandshakePart == part = "handshake" /\ Handshake!PendingNext /\ UNCHANGED <<part, vars>>

SessionsSpec == SessionsInit /\ [][EndingsPart \/ HandshakePart]_<<part, vars, handshakeVars>>

(* PendingSignIns.StartedSignInIsItsOwn: a started sign-in completes once, in  *)
(* time, for the session and the deletion it was started for, and is lost to   *)
(* nothing but its session, its time and a full table.                         *)
StartedSignInIsItsOwn == part = "handshake" => Handshake!StartedSignInIsItsOwn
=============================================================================
