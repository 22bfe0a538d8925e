---------------------------- MODULE SessionLife ----------------------------
(***************************************************************************)
(* What a browser session promises, whatever keeps it: it begins once, a   *)
(* request begins to act for it only while it is live, and once it was     *)
(* ended (the visitor signed out, signed out everywhere, signed in again   *)
(* or deleted the account) no request ever begins to act for it again.  A  *)
(* request that already acts may finish.  An ending whose durable half     *)
(* failed is kept only as long as the process lives.                       *)
(***************************************************************************)
CONSTANTS Sessions, Threads, NoSession

VARIABLES
    status,     \* of each session
    acting      \* the session each thread acts for

Ended == {"ended", "ended_here"}

Init ==
    /\ status \in [Sessions -> {"unborn", "live"}]
    /\ acting = [t \in Threads |-> NoSession]

Begin(s) ==
    /\ status[s] = "unborn"
    /\ status' = [status EXCEPT ![s] = "live"]
    /\ UNCHANGED acting

Act(t, s) ==
    /\ acting[t] = NoSession
    /\ status[s] = "live"
    /\ acting' = [acting EXCEPT ![t] = s]
    /\ UNCHANGED status

Finish(t) ==
    /\ acting[t] # NoSession
    /\ acting' = [acting EXCEPT ![t] = NoSession]
    /\ UNCHANGED status

\* An ending may be the last thing the request that asked for it does.
End(how, finished) ==
    /\ \A s \in DOMAIN how :
          status[s] = "live" \/ (status[s] = "ended_here" /\ how[s] = "ended")
    /\ status' = [s \in Sessions |-> IF s \in DOMAIN how THEN how[s] ELSE status[s]]
    /\ acting' = [t \in Threads |-> IF t \in finished THEN NoSession ELSE acting[t]]

\* The process dies: with its requests, and with the endings only it knew of.
Restart ==
    /\ status' = [s \in Sessions |-> IF status[s] = "ended_here" THEN "live" ELSE status[s]]
    /\ acting' = [t \in Threads |-> NoSession]

Next ==
    \/ \E s \in Sessions : Begin(s)
    \/ \E t \in Threads : Finish(t) \/ \E s \in Sessions : Act(t, s)
    \/ \E sessions \in SUBSET Sessions, finished \in SUBSET Threads :
          \E how \in [sessions -> Ended] : End(how, finished)
    \/ Restart

Spec == Init /\ [][Next]_<<status, acting>>
=============================================================================
